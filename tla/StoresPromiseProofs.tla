------------------------- MODULE StoresPromiseProofs -------------------------
(***************************************************************************)
(* That each store keeps the promise of KeyValueStore, as far as Weakness  *)
(* lets it: every step is a step of the promise, or none that it sees.     *)
(***************************************************************************)
EXTENDS StoresProofs

\* The store and a call as the promise sees them.
Content == IF ChangeInBody THEN before ELSE store

Shown(c, todo, answer) ==
    [status |-> IF Doing(c, "lost") THEN "failed" ELSE "running",
     op |-> call[c].op, todo |-> todo, value |-> call[c].value,
     timeout |-> call[c].timeout, began |-> call[c].began, answer |-> answer]

Gone == [status |-> "idle"]

\* Nobody but c is seen to do anything.
OnlyOf(c) ==
    /\ UNCHANGED <<backend, now>>
    /\ \A d \in Callers \ {c} : CallSeen(d)' = CallSeen(d)

LEMMA Weaknesses ==
    /\ Weakness["file"] = {"partial"} /\ Weakness["memory"] = {"piecemeal"}
    /\ Weakness["redis"] = {"late"} /\ Weakness["constance"] = {"late"}
  BY DEF Weakness

LEMMA ShownFields ==
    ASSUME NEW c, NEW T, NEW A
    PROVE  /\ Shown(c, T, A).status = IF Doing(c, "lost") THEN "failed" ELSE "running"
           /\ Shown(c, T, A).op = call[c].op /\ Shown(c, T, A).todo = T
           /\ Shown(c, T, A).value = call[c].value
           /\ Shown(c, T, A).timeout = call[c].timeout
           /\ Shown(c, T, A).began = call[c].began /\ Shown(c, T, A).answer = A
           /\ Shown(c, T, A) # Gone
  BY DEF Shown, Gone

LEMMA ShownWithTodo ==
    ASSUME NEW c, NEW T, NEW A, NEW todo
    PROVE  [Shown(c, T, A) EXCEPT !.todo = todo] = Shown(c, todo, A)
  BY DEF Shown

LEMMA ShownWithAnswer ==
    ASSUME NEW c, NEW T, NEW A, NEW answer
    PROVE  [Shown(c, T, A) EXCEPT !.answer = answer] = Shown(c, T, answer)
  BY DEF Shown

LEMMA OnlyItsCall ==
    ASSUME NEW c \in Callers, OnlyOf(c), NEW x, CallSeen(c)' = x
    PROVE  [d \in Callers |-> CallSeen(d)]'
             = [[d \in Callers |-> CallSeen(d)] EXCEPT ![c] = x]
  BY DEF OnlyOf

-----------------------------------------------------------------------------
\* Steps of the promise.
LEMMA CallBegins ==
    ASSUME NEW c \in Callers, NEW op \in KV!Kinds, NEW K \in (SUBSET Keys) \ {{}},
           NEW v \in Values \cup {Nothing}, NEW d \in Timeouts \cup {Infinity},
           CallSeen(c) = Gone, OnlyOf(c), Content' = Content,
           CallSeen(c)' = [status |-> "running", op |-> op, todo |-> K, value |-> v,
                           timeout |-> d, began |-> now, answer |-> NoAnswer]
    PROVE  Promise!StoreNext
<1>1. [b \in Callers |-> CallSeen(b)]'
        = [[b \in Callers |-> CallSeen(b)] EXCEPT ![c] = Promise!NewCall(op, K, v, d)]
  BY OnlyItsCall DEF Promise!NewCall, NoAnswer
<1>2. [b \in Callers |-> CallSeen(b)][c] = Promise!Idle
  BY DEF Promise!Idle, Gone
<1>3. UNCHANGED <<now, Weakness[backend], Content>> /\ op \in Promise!Kinds
  BY DEF OnlyOf, Promise!Kinds, KV!Kinds
<1>4. Promise!Begin(c)
  BY <1>1, <1>2, <1>3 DEF Promise!Begin, Content
<1> QED
  BY <1>4 DEF Promise!StoreNext

LEMMA CallEnds ==
    ASSUME NEW c \in Callers, NEW T, NEW A, CallSeen(c) = Shown(c, T, A),
           CallSeen(c)' = Gone, OnlyOf(c), Content' = Content
    PROVE  Promise!StoreNext
<1>1. [d \in Callers |-> CallSeen(d)]'
        = [[d \in Callers |-> CallSeen(d)] EXCEPT ![c] = Gone]
  BY DEF OnlyOf
<1>2. Promise!Fail(c) \/ Promise!ComeToNothing(c)
  BY <1>1 DEF Promise!Fail, Promise!ComeToNothing, Promise!Idle, OnlyOf, Content, Gone,
     Shown
<1> QED
  BY <1>2 DEF Promise!StoreNext

LEMMA CallIsLost ==
    ASSUME NEW c \in Callers, NEW T, NEW A, CallSeen(c) = Shown(c, T, A),
           ~Doing(c, "lost"), "late" \in Weakness[backend],
           CallSeen(c)' = [Shown(c, T, A) EXCEPT !.status = "failed"],
           OnlyOf(c), Content' = Content
    PROVE  Promise!StoreNext
<1> DEFINE seen == [d \in Callers |-> CallSeen(d)]
<1>1. seen' = [seen EXCEPT ![c] = [Shown(c, T, A) EXCEPT !.status = "failed"]]
  BY OnlyItsCall
<1>2. seen[c] = Shown(c, T, A) /\ seen[c].status = "running"
  BY ShownFields
<1>3. seen' = [seen EXCEPT ![c].status = "failed"]
  BY <1>1, <1>2
<1>4. UNCHANGED <<now, Weakness[backend], Content>>
  BY DEF OnlyOf
<1>5. Promise!Lose(c)
  BY <1>2, <1>3, <1>4 DEF Promise!Lose, Content
<1> QED
  BY <1>5 DEF Promise!StoreNext

\* What a read may answer, and a write leave.
LEMMA SeenAnswers ==
    ASSUME NEW c \in Callers, NEW k \in Keys, Content = store, NEW T, NEW A
    PROVE  Promise!Answers(Shown(c, T, A), k) = KV!Answers(call[c], k)
  BY DEF Promise!Answers, KV!Answers, Promise!Expired, KV!Expired, Promise!Absent,
     KV!Absent, Content, Shown

LEMMA SeenLeavings ==
    ASSUME NEW c \in Callers, NEW T, NEW A
    PROVE  Promise!Leavings(Shown(c, T, A)) = KV!Leavings(call[c])
  BY DEF Promise!Leavings, KV!Leavings, Promise!Deadline, KV!Deadline, Promise!Absent,
     KV!Absent, Shown

LEMMA SeenTornings ==
    ASSUME NEW c \in Callers, NEW T, NEW A
    PROVE  Promise!Tornings(Shown(c, T, A)) = KV!Tornings(call[c])
  BY SeenLeavings DEF Promise!Tornings, KV!Tornings, Promise!BrokenEntry, KV!BrokenEntry

\* K is as much as takes effect in one step.
Portion(c, T, K) ==
    /\ T # {} /\ K \in SUBSET Keys
    /\ IF "piecemeal" \in Weakness[backend] /\ call[c].op \in {"get", "set"}
       THEN \E k \in T : K = {k}
       ELSE K = T

\* The effect on the call.
SeenLess(c, K) ==
    [d \in Callers |-> CallSeen(d)]'
      = [[d \in Callers |-> CallSeen(d)] EXCEPT ![c].todo = @ \ K]

SeenAnswered(c, K, found) ==
    [d \in Callers |-> CallSeen(d)]'
      = [[d \in Callers |-> CallSeen(d)] EXCEPT ![c].todo = @ \ K,
           ![c].answer = [k \in Keys |-> IF k \in K THEN found[k] ELSE @[k]]]

LEMMA SeenLeavesTodo ==
    ASSUME NEW c \in Callers, OnlyOf(c), NEW T, NEW A, CallSeen(c) = Shown(c, T, A),
           NEW K, CallSeen(c)' = Shown(c, T \ K, A)
    PROVE  SeenLess(c, K)
<1>1. [Shown(c, T, A) EXCEPT !.todo = T \ K] = Shown(c, T \ K, A)
  BY ShownWithTodo
<1>2. Shown(c, T, A).todo = T
  BY ShownFields
<1> QED
  BY <1>1, <1>2, OnlyItsCall DEF SeenLess

Amended(A, K, found) == [k \in Keys |-> IF k \in K THEN found[k] ELSE A[k]]

Passed(x, todo, answer) == [[x EXCEPT !.todo = todo] EXCEPT !.answer = answer]

LEMMA ShownPasses ==
    ASSUME NEW c, NEW T, NEW A, NEW x, x = Shown(c, T, A), NEW todo, NEW answer
    PROVE  Passed(x, todo, answer) = Shown(c, todo, answer)
<1> DEFINE y == [x EXCEPT !.todo = todo]
<1>1. y = Shown(c, todo, A)
  BY DEF Shown
<1> HIDE DEF y
<1>2. [y EXCEPT !.answer = answer] = Shown(c, todo, answer)
  BY <1>1 DEF Shown
<1> QED
  BY <1>2 DEF y, Passed

LEMMA SeenPasses ==
    ASSUME NEW c \in Callers, OnlyOf(c), NEW T, NEW A, CallSeen(c) = Shown(c, T, A),
           NEW K, NEW found, CallSeen(c)' = Shown(c, T \ K, Amended(A, K, found))
    PROVE  SeenAnswered(c, K, found)
<1> DEFINE seen == [d \in Callers |-> CallSeen(d)]
           x == seen[c]
           left == x.todo \ K
           answer == [k \in Keys |-> IF k \in K THEN found[k] ELSE x.answer[k]]
<1>1. x = Shown(c, T, A) /\ x.todo = T /\ x.answer = A
  BY ShownFields
<1>2. seen' = [seen EXCEPT ![c] = Shown(c, T \ K, Amended(A, K, found))]
  BY OnlyItsCall
<1>3. answer = Amended(A, K, found) /\ left = T \ K
  BY <1>1 DEF Amended
<1> HIDE DEF x, answer, left
<1>4. Passed(x, left, answer) = Shown(c, left, answer)
  BY <1>1, ShownPasses
<1>5. seen' = [seen EXCEPT ![c] = Passed(x, left, answer)]
  BY <1>2, <1>3, <1>4
<1> QED
  BY <1>5 DEF x, answer, left, Passed, SeenAnswered

LEMMA PortionSeen ==
    ASSUME NEW c \in Callers, NEW T, NEW A, NEW K, Portion(c, T, K)
    PROVE  K \in Promise!Portions(Shown(c, T, A))
<1>1. Shown(c, T, A).op = call[c].op /\ Shown(c, T, A).todo = T
  BY ShownFields
<1> QED
  BY <1>1 DEF Portion, Promise!Portions

LEMMA EffectIsStep ==
    ASSUME NEW c \in Callers, NEW K \in SUBSET Keys, NEW T, NEW A,
           CallSeen(c) = Shown(c, T, A), Promise!Effect(c, K)
    PROVE  Promise!StoreNext
<1>1. Shown(c, T, A).status \in {"running", "failed"}
  BY ShownFields
<1>2. Promise!TakeEffect(c) \/ Promise!EffectAfterAll(c)
  BY <1>1 DEF Promise!TakeEffect, Promise!EffectAfterAll
<1> QED
  BY <1>2 DEF Promise!StoreNext

\* The store without the entries under the keys in G.
Without(G) == [k \in Keys |-> IF k \in G THEN Absent ELSE store[k]]

LEMMA ReadTakesEffect ==
    ASSUME NEW c \in Callers, call[c].op \in {"get", "keys"},
           NEW T, NEW A, CallSeen(c) = Shown(c, T, A), NEW K, Portion(c, T, K),
           Content = store, NEW found,
           \A k \in K : found[k] \in KV!Answers(call[c], k),
           NEW G \in SUBSET K, \A k \in G : Expired(store[k]),
           Content' = Without(G),
           CallSeen(c)' = Shown(c, T \ K, Amended(A, K, found)), OnlyOf(c)
    PROVE  Promise!StoreNext
<1> DEFINE seen == [d \in Callers |-> CallSeen(d)]
           a == [k \in K |-> found[k]]
<1>1. K \in SUBSET Keys /\ T # {}
  BY DEF Portion
<1>2. a \in [K -> Values \cup {Present, Nothing}]
  BY <1>1 DEF KV!Answers
<1>3. \A k \in K : a[k] \in Promise!Answers(seen[c], k)
  BY <1>1, SeenAnswers
<1>4. SeenAnswered(c, K, a)
  <2>1. Amended(A, K, found) = Amended(A, K, a)
    BY DEF Amended
  <2> HIDE DEF a
  <2> QED
    BY <2>1, SeenPasses
<1>5. G \in SUBSET {k \in K : Promise!Expired(Content[k])}
  BY <1>1 DEF Promise!Expired, Expired, KV!Expired, Content
<1>6. Content' = [k \in Keys |-> IF k \in G THEN Promise!Absent ELSE Content[k]]
  BY DEF Promise!Absent, Absent, KV!Absent, Without
<1>7. K \in Promise!Portions(seen[c]) /\ seen[c].todo # {} /\ seen[c].op \in {"get", "keys"}
  BY <1>1, PortionSeen, ShownFields
<1>8. UNCHANGED <<now, Weakness[backend]>>
  BY DEF OnlyOf
<1> HIDE DEF a
<1>9. Promise!Effect(c, K)
  BY <1>2, <1>3, <1>4, <1>5, <1>6, <1>7, <1>8 DEF Promise!Effect, Content, SeenAnswered
<1> QED
  BY <1>1, <1>9, EffectIsStep

LEMMA ChangeTakesEffect ==
    ASSUME NEW c \in Callers, Changes(call[c].op),
           NEW T, NEW A, CallSeen(c) = Shown(c, T, A), NEW K, Portion(c, T, K),
           NEW left, \A k \in K : left[k] \in KV!Leavings(call[c]),
           Content' = [k \in Keys |-> IF k \in K THEN left[k] ELSE Content[k]],
           CallSeen(c)' = Shown(c, T \ K, A), OnlyOf(c)
    PROVE  Promise!StoreNext
<1> DEFINE seen == [d \in Callers |-> CallSeen(d)]
           e == [k \in K |-> left[k]]
<1>1. K \in SUBSET Keys /\ T # {}
  BY DEF Portion
<1>2. e \in [K -> Promise!Leavings(seen[c])]
  BY SeenLeavings
<1>3. SeenLess(c, K)
  BY SeenLeavesTodo
<1>4. Content' = [k \in Keys |-> IF k \in K THEN e[k] ELSE Content[k]]
  OBVIOUS
<1>5. K \in Promise!Portions(seen[c]) /\ seen[c].todo # {} /\ seen[c].op \notin {"get", "keys"}
  BY <1>1, PortionSeen, ShownFields DEF Changes
<1>6. UNCHANGED <<now, Weakness[backend]>>
  BY DEF OnlyOf
<1> HIDE DEF e
<1>7. Promise!Effect(c, K)
  BY <1>2, <1>3, <1>4, <1>5, <1>6 DEF Promise!Effect, Content, SeenLess
<1> QED
  BY <1>1, <1>7, EffectIsStep

-----------------------------------------------------------------------------
\* What the promise sees of the stores that are not in files: all of it.
LEMMA ContentAside ==
    ASSUME StoresInv, Aside
    PROVE  Content = store /\ Content' = store'
<1>1. holding = {} /\ holding' = {}
  BY DEF StoresInv, NoFilesInv, Aside, managerVars
<1> QED
  BY <1>1 DEF Content, ChangeInBody

LEMMA SeenAside ==
    ASSUME backend # "file", NEW c \in Callers, InCall(c)
    PROVE  CallSeen(c) = Shown(c, call[c].todo, call[c].answer)
  BY DEF CallSeen, Shown, InCall

LEMMA OthersAside ==
    ASSUME NEW c \in Callers, UNCHANGED <<backend, now>>,
           \A d \in Callers \ {c} : call'[d] = call[d]
    PROVE  OnlyOf(c)
  BY DEF OnlyOf, CallSeen, Unfinished, Doing, NoAnswer, Idle

LEMMA MoveSeen ==
    ASSUME StoresInv, Aside, NEW c \in Callers, NEW stage, NEW todo, NEW at, NEW answer,
           Moves(c, stage, todo, at, answer), stage = "lost" <=> Doing(c, "lost")
    PROVE  CallSeen(c)' = Shown(c, todo, answer) /\ OnlyOf(c)
<1>1. /\ \A d \in Callers \ {c} : call'[d] = call[d]
      /\ InCall(c)' /\ backend' # "file"
      /\ call'[c].stage = stage /\ call'[c].todo = todo /\ call'[c].answer = answer
      /\ call'[c].op = call[c].op /\ call'[c].value = call[c].value
      /\ call'[c].timeout = call[c].timeout /\ call'[c].began = call[c].began
  BY MovedCall DEF StoresInv, Aside
<1>2. CallSeen(c)' = Shown(c, todo, answer)
  BY <1>1 DEF CallSeen, Shown, InCall, Doing, Idle
<1> QED
  BY <1>1, <1>2, OthersAside DEF Aside

LEMMA StopSeen ==
    ASSUME StoresInv, Aside, NEW c \in Callers, InCall(c), Stop(c), UNCHANGED store
    PROVE  Promise!StoreNext
<1>1. call'[c] = Idle /\ \A d \in Callers \ {c} : call'[d] = call[d]
  BY StoppedCall DEF StoresInv
<1>2. CallSeen(c)' = Gone
  BY <1>1 DEF CallSeen, Gone, Idle
<1>3. OnlyOf(c) /\ Content' = Content
  BY <1>1, OthersAside, ContentAside DEF Aside
<1>4. CallSeen(c) = Shown(c, call[c].todo, call[c].answer)
  BY SeenAside DEF Aside
<1> QED
  BY <1>2, <1>3, <1>4, CallEnds

\* Its caller is told that a call failed that may yet take effect.
LEMMA LoseSeen ==
    ASSUME StoresInv, Aside, NEW c \in Callers, InCall(c), ~Doing(c, "lost"),
           "late" \in Weakness[backend], Goto(c, "lost"), UNCHANGED store
    PROVE  Promise!StoreNext
<1>1. backend # "file" /\ TypeOK
  BY DEF Aside, StoresInv
<1>2. Moves(c, "lost", call[c].todo, call[c].at, call[c].answer)
  BY <1>1, GotoMoves DEF Stages
<1>3. /\ \A d \in Callers \ {c} : call'[d] = call[d]
      /\ InCall(c)' /\ backend' # "file" /\ call'[c].stage = "lost"
      /\ call'[c].todo = call[c].todo /\ call'[c].answer = call[c].answer
      /\ call'[c].op = call[c].op /\ call'[c].value = call[c].value
      /\ call'[c].timeout = call[c].timeout /\ call'[c].began = call[c].began
  BY <1>1, <1>2, MovedCall DEF Aside
<1>4. CallSeen(c) = Shown(c, call[c].todo, call[c].answer)
  BY <1>1, SeenAside
<1>5. CallSeen(c)' = [Shown(c, call[c].todo, call[c].answer) EXCEPT !.status = "failed"]
  BY <1>3 DEF CallSeen, Shown, InCall, Doing, Idle
<1>6. OnlyOf(c) /\ Content' = Content
  BY <1>3, OthersAside, ContentAside DEF Aside
<1> QED
  BY <1>4, <1>5, <1>6, CallIsLost

LEMMA EnterSeen ==
    ASSUME StoresInv, Aside, NEW c \in Callers,
           NEW kinds \in SUBSET KV!Kinds,
           NEW values \in SUBSET Values, NEW timeouts \in SUBSET (Timeouts \cup {Infinity}),
           Enter(c, "running", kinds, values, timeouts)
    PROVE  Promise!StoreNext
<1>1. PICK op \in kinds, K \in (SUBSET Keys) \ {{}}, v \in values \cup {Nothing},
           d \in timeouts \cup {Infinity} : Begun(c, "running", op, K, v, d)
  BY EnterCall DEF StoresInv, Stages
<1>2. /\ call[c] = Idle /\ InCall(c)' /\ \A b \in Callers \ {c} : call'[b] = call[b]
      /\ call'[c].stage = "running" /\ call'[c].op = op /\ call'[c].todo = K
      /\ call'[c].value = v /\ call'[c].timeout = d /\ call'[c].began = now
      /\ call'[c].answer = NoAnswer
  BY <1>1 DEF Begun
<1>3. CallSeen(c)' = [status |-> "running", op |-> op, todo |-> K, value |-> v,
                      timeout |-> d, began |-> now, answer |-> NoAnswer]
  BY <1>2 DEF CallSeen, InCall, Doing, Idle, Aside
<1>4. CallSeen(c) = Gone
  BY <1>2 DEF CallSeen, Gone
<1>5. OnlyOf(c) /\ Content' = Content
  BY <1>2, OthersAside, ContentAside DEF Aside, Enter
<1> QED
  BY <1>3, <1>4, <1>5, CallBegins

\* The clock.
LEMMA TickSeen ==
    ASSUME Tick
    PROVE  Promise!StoreNext
<1>1. /\ now < MaxTime /\ now' = now + 1
      /\ UNCHANGED <<holding, backend, store, call, before>>
  BY DEF Tick, Manager!LeaseTick
<1>2. [c \in Callers |-> CallSeen(c)]' = [c \in Callers |-> CallSeen(c)]
  BY <1>1 DEF CallSeen, Doing, Unfinished, NoAnswer, Idle
<1>3. Content' = Content
  BY <1>1 DEF Content, ChangeInBody, Unfinished, Doing
<1>4. Promise!StoreTick
  BY <1>1, <1>2, <1>3 DEF Promise!StoreTick, Content
<1> QED
  BY <1>4 DEF Promise!StoreNext

\* The initial state.
LEMMA InitSeen == Init => Promise!StoreInit
<1> SUFFICES ASSUME Init PROVE Promise!StoreInit
  OBVIOUS
<1>1. Content = [k \in Keys |-> Promise!Absent]
  BY DEF Init, Manager!LeaseInit, Content, ChangeInBody, Promise!Absent, Absent, KV!Absent
<1>2. [c \in Callers |-> CallSeen(c)] = [c \in Callers |-> Promise!Idle]
  BY DEF Init, CallSeen, Promise!Idle
<1>3. Weakness[backend] \in SUBSET {"piecemeal", "partial", "late"}
  BY Weaknesses, StoresAssumption DEF Init
<1>4. now = 0
  BY DEF Init, Manager!LeaseInit
<1> QED
  BY <1>1, <1>2, <1>3, <1>4 DEF Promise!StoreInit, Content

\* Nothing happens.
LEMMA NothingSeen ==
    ASSUME UNCHANGED vars
    PROVE  UNCHANGED Promise!storeVars
<1>1. [c \in Callers |-> CallSeen(c)]' = [c \in Callers |-> CallSeen(c)]
  BY DEF vars, CallSeen, Doing, Unfinished, NoAnswer, Idle
<1>2. Content' = Content
  BY DEF vars, Content, ChangeInBody, Unfinished, Doing
<1> QED
  BY <1>1, <1>2 DEF Promise!storeVars, Content, vars

\* A call that reads, and one that changes the store, on all the keys in K.
LEMMA ReadSeen ==
    ASSUME StoresInv, Aside, NEW c \in Callers, InCall(c), call[c].op \in {"get", "keys"},
           NEW K, Portion(c, call[c].todo, K), NEW stage, NEW at, NEW found,
           Moves(c, stage, call[c].todo \ K, at, Answered(c, K, found)),
           stage = "lost" <=> Doing(c, "lost"),
           \A k \in K : found[k] \in KV!Answers(call[c], k),
           NEW G \in SUBSET K, \A k \in G : Expired(store[k]),
           store' = Without(G)
    PROVE  Promise!StoreNext
<1>1. CallSeen(c) = Shown(c, call[c].todo, call[c].answer)
  BY SeenAside DEF Aside
<1>2. Answered(c, K, found) = Amended(call[c].answer, K, found)
  BY DEF Answered, Amended
<1>3. CallSeen(c)' = Shown(c, call[c].todo \ K, Amended(call[c].answer, K, found))
      /\ OnlyOf(c)
  BY <1>2, MoveSeen
<1>4. Content = store /\ Content' = store'
  BY ContentAside
<1> QED
  BY <1>1, <1>3, <1>4, ReadTakesEffect

LEMMA ChangeSeen ==
    ASSUME StoresInv, Aside, NEW c \in Callers, InCall(c), Changes(call[c].op),
           NEW K, Portion(c, call[c].todo, K), NEW stage, NEW at,
           Moves(c, stage, call[c].todo \ K, at, NoAnswer),
           stage = "lost" <=> Doing(c, "lost"),
           NEW left, \A k \in K : left[k] \in KV!Leavings(call[c]),
           store' = With(K, left)
    PROVE  Promise!StoreNext
<1>1. call[c].answer = NoAnswer
  BY DEF StoresInv, CallsInv, CallInv
<1>2. CallSeen(c) = Shown(c, call[c].todo, NoAnswer)
  BY <1>1, SeenAside DEF Aside
<1>3. CallSeen(c)' = Shown(c, call[c].todo \ K, NoAnswer) /\ OnlyOf(c)
  BY MoveSeen
<1>4. Content = store /\ Content' = store'
  BY ContentAside
<1>5. Content' = [k \in Keys |-> IF k \in K THEN left[k] ELSE Content[k]]
  BY <1>4 DEF With
<1> QED
  BY <1>2, <1>3, <1>5, ChangeTakesEffect

\* What is known of a call before it takes effect.
LEMMA CallAside ==
    ASSUME StoresInv, NEW c \in Callers, InCall(c)
    PROVE  /\ TypeOK /\ CallsInv /\ call[c].todo \in SUBSET Keys /\ call[c].op \in KV!Kinds
           /\ call[c].began \in Nat /\ call[c].began <= now
           /\ Changes(call[c].op) => call[c].answer = NoAnswer
<1>1. TypeOK /\ CallsInv /\ CallInv(c)
  BY DEF StoresInv, CallsInv
<1>2. call[c].began \in Nat
  BY <1>1, CallFields, StoresAssumption DEF Time
<1> QED
  BY <1>1, <1>2, CallFields DEF CallInv

LEMMA FindAside ==
    ASSUME StoresInv, backend # "file", NEW c \in Callers, InCall(c), NEW k \in Keys
    PROVE  /\ call[c].op = "get" => Find(store[k]) \in KV!Answers(call[c], k)
           /\ call[c].op = "keys" => List(store[k]) \in KV!Answers(call[c], k)
           /\ Find(store[k]) \in Values \cup {Present, Nothing}
           /\ List(store[k]) \in Values \cup {Present, Nothing}
<1>1. TypeOK /\ ~IsBroken(store[k])
  BY DEF StoresInv, NoFilesInv
<1> QED
  BY <1>1, CallAside, FoundIsAnswer, FoundType

LEMMA AbsentIsLeft ==
    ASSUME NEW c \in Callers, call[c].op \in {"delete", "clear"}
    PROVE  Absent \in KV!Leavings(call[c])
  BY DEF KV!Leavings, Absent

-----------------------------------------------------------------------------
\* LocalMemoryCache
LEMMA MemoryGetSeen ==
    ASSUME StoresInv, NEW c \in Callers, NEW k \in Keys, MemoryGet(c, k)
    PROVE  Promise!StoreNext
<1>1. /\ backend = "memory" /\ Aside /\ Doing(c, "running") /\ call[c].op = "get"
      /\ k \in call[c].todo /\ backend # "file"
  BY DEF MemoryGet, OnMemory, Ready, Aside
<1>2. InCall(c) /\ TypeOK /\ NextStage(c, k) \in Stages
  BY <1>1, InCallWhen DEF StoresInv, Stages, NextStage
<1> DEFINE found == [j \in {k} |-> Find(store[j])]
<1>3. found[k] \in KV!Answers(call[c], k) /\ found[k] \in Values \cup {Present, Nothing}
  BY <1>1, <1>2, FindAside
<1>4. Pass(c, {k}, found, NextStage(c, k))
  BY DEF MemoryGet
<1> HIDE DEF found
<1>5. Moves(c, NextStage(c, k), call[c].todo \ {k}, call[c].at, Answered(c, {k}, found))
  BY <1>2, <1>3, <1>4, PassMoves
<1>6. Portion(c, call[c].todo, {k})
  BY <1>1, Weaknesses DEF Portion
<1>7. (NextStage(c, k) = "lost") <=> Doing(c, "lost")
  BY <1>1 DEF NextStage, Doing
<1> DEFINE G == IF Expired(store[k]) THEN {k} ELSE {}
<1>8. G \in SUBSET {k} /\ \A j \in G : Expired(store[j])
  OBVIOUS
<1>9. store' = Without(G)
  BY <1>2 DEF MemoryGet, TypeOK, Without
<1>10. \A j \in {k} : found[j] \in KV!Answers(call[c], j)
  BY <1>3
<1> HIDE DEF G
<1> QED
  BY <1>1, <1>2, <1>5, <1>6, <1>7, <1>8, <1>9, <1>10, ReadSeen

LEMMA MemorySetSeen ==
    ASSUME StoresInv, NEW c \in Callers, NEW k \in Keys, MemorySet(c, k)
    PROVE  Promise!StoreNext
<1>1. /\ backend = "memory" /\ Aside /\ Doing(c, "running") /\ call[c].op = "set"
      /\ k \in call[c].todo /\ Changes(call[c].op)
  BY DEF MemorySet, OnMemory, Ready, Aside, Changes
<1>2. InCall(c) /\ TypeOK /\ NextStage(c, k) \in Stages
  BY <1>1, InCallWhen DEF StoresInv, Stages, NextStage
<1>3. /\ Moves(c, NextStage(c, k), call[c].todo \ {k}, call[c].at, Answered(c, {k}, NoAnswer))
  BY <1>2, PassMoves DEF MemorySet, NoAnswer
<1>4. Answered(c, {k}, NoAnswer) = NoAnswer
  BY <1>1, <1>2, CallAside, NoMoreAnswer
<1>5. Portion(c, call[c].todo, {k})
  BY <1>1, Weaknesses DEF Portion
<1>6. (NextStage(c, k) = "lost") <=> Doing(c, "lost")
  BY <1>1 DEF NextStage, Doing
<1> DEFINE left == [j \in Keys |-> NewEntry(c)]
<1>7. \A j \in {k} : left[j] \in KV!Leavings(call[c])
  BY <1>1, <1>2, CallAside, NewEntryKind
<1>8. store' = With({k}, left)
  BY <1>2 DEF MemorySet, With, TypeOK
<1> HIDE DEF left
<1> QED
  BY <1>1, <1>2, <1>3, <1>4, <1>5, <1>6, <1>7, <1>8, ChangeSeen

LEMMA MemoryDeleteSeen ==
    ASSUME StoresInv, NEW c \in Callers, MemoryDelete(c)
    PROVE  Promise!StoreNext
<1>1. /\ backend = "memory" /\ Aside /\ Doing(c, "running")
      /\ call[c].op \in {"delete", "clear"} /\ Changes(call[c].op)
  BY DEF MemoryDelete, OnMemory, Ready, Aside, Changes
<1>2. InCall(c) /\ TypeOK /\ "done" \in Stages /\ call[c].todo \in SUBSET Keys
  BY <1>1, InCallWhen, CallAside DEF StoresInv, Stages
<1> DEFINE K == call[c].todo
<1>3. Moves(c, "done", call[c].todo \ K, call[c].at, Answered(c, K, NoAnswer))
  BY <1>2, PassMoves DEF MemoryDelete, NoAnswer
<1>4. Answered(c, K, NoAnswer) = NoAnswer
  BY <1>1, <1>2, CallAside, NoMoreAnswer
<1>5. Portion(c, call[c].todo, K)
  BY <1>1, <1>2 DEF Portion, StoresInv, MemoryInv
<1>6. ("done" = "lost") <=> Doing(c, "lost")
  BY <1>1 DEF Doing
<1> DEFINE left == [k \in Keys |-> Absent]
<1>7. \A j \in K : left[j] \in KV!Leavings(call[c])
  BY <1>1, <1>2, AbsentIsLeft
<1>8. store' = With(K, left)
  BY DEF MemoryDelete
<1> HIDE DEF left, K
<1> QED
  BY <1>1, <1>2, <1>3, <1>4, <1>5, <1>6, <1>7, <1>8, ChangeSeen

LEMMA MemoryKeysSeen ==
    ASSUME StoresInv, NEW c \in Callers, MemoryKeys(c)
    PROVE  Promise!StoreNext
<1>1. /\ backend = "memory" /\ Aside /\ Doing(c, "running") /\ call[c].op = "keys"
      /\ backend # "file" /\ UNCHANGED store
  BY DEF MemoryKeys, OnMemory, Ready, Aside
<1>2. InCall(c) /\ TypeOK /\ "done" \in Stages /\ call[c].todo = Keys /\ Keys # {}
  BY <1>1, InCallWhen DEF StoresInv, Stages, MemoryInv
<1> DEFINE found == [k \in Keys |-> List(store[k])]
           K == call[c].todo
           G == {}
<1>3. \A k \in K : /\ found[k] \in KV!Answers(call[c], k)
                   /\ found[k] \in Values \cup {Present, Nothing}
  BY <1>1, <1>2, FindAside
<1>4. Pass(c, K, found, "done")
  BY <1>2 DEF MemoryKeys
<1> HIDE DEF found
<1>5. Moves(c, "done", call[c].todo \ K, call[c].at, Answered(c, K, found))
  BY <1>2, <1>3, <1>4, PassMoves
<1>6. Portion(c, call[c].todo, K)
  BY <1>1, <1>2 DEF Portion
<1>7. ("done" = "lost") <=> Doing(c, "lost")
  BY <1>1 DEF Doing
<1>8. store' = Without(G)
  BY <1>1, <1>2 DEF TypeOK, Without
<1>9. G \in SUBSET K /\ \A k \in G : Expired(store[k])
  OBVIOUS
<1>10. /\ call[c].op \in {"get", "keys"} /\ Aside /\ InCall(c)
       /\ \A k \in K : found[k] \in KV!Answers(call[c], k)
  BY <1>1, <1>2, <1>3
<1> HIDE DEF G, K
<1> QED
  BY <1>5, <1>6, <1>7, <1>8, <1>9, <1>10, ReadSeen

LEMMA MemorySeen ==
    ASSUME StoresInv, backend = "memory", NEW c \in Callers, LocalMemoryStep(c)
    PROVE  Promise!StoreNext
<1>1. CASE MemoryEnter(c)
  <2>1. Aside
    BY <1>1 DEF MemoryEnter, Enter, Aside
  <2> QED
    BY <1>1, <2>1, StoresAssumption, EnterSeen DEF MemoryEnter
<1>2. CASE MemoryCut(c)
  <2>1. Aside /\ InCall(c) /\ Stop(c) /\ UNCHANGED store
    BY <1>2, InCallWhen DEF MemoryCut, OnMemory, Ready, Aside, StoresInv, Stages
  <2> QED
    BY <2>1, StopSeen
<1> QED
  BY <1>1, <1>2, MemoryGetSeen, MemorySetSeen, MemoryDeleteSeen, MemoryKeysSeen
     DEF LocalMemoryStep

-----------------------------------------------------------------------------
\* RedisCache
LEMMA ResultSeen ==
    ASSUME NEW c \in Callers, OnServer(c)
    PROVE  Result(c) = "lost" <=> Doing(c, "lost")
  BY DEF Result

LEMMA RedisReadSeen ==
    ASSUME StoresInv, NEW c \in Callers, OnServer(c), call[c].op \in {"get", "keys"},
           call[c].todo # {}, NEW found,
           \A k \in Keys : /\ found[k] \in KV!Answers(call[c], k)
                           /\ found[k] \in Values \cup {Present, Nothing},
           Read(c, found)
    PROVE  Promise!StoreNext
<1> DEFINE K == call[c].todo
           G == {}
<1>1. /\ backend = "redis" /\ Aside /\ InCall(c) /\ TypeOK
      /\ call[c].todo \in SUBSET Keys
  BY AtServer DEF StoresInv
<1>2. Moves(c, Result(c), {}, call[c].at, Answered(c, K, found))
  BY ReadMoves DEF Read
<1>3. Moves(c, Result(c), call[c].todo \ K, call[c].at, Answered(c, K, found))
  BY <1>2
<1>4. Portion(c, call[c].todo, K)
  BY <1>1, Weaknesses DEF Portion
<1>5. store' = Without(G)
  BY <1>1 DEF Read, TypeOK, Without
<1>6. G \in SUBSET K /\ \A k \in G : Expired(store[k])
  OBVIOUS
<1>7. \A k \in K : found[k] \in KV!Answers(call[c], k)
  BY <1>1
<1> HIDE DEF G, K
<1> QED
  BY <1>1, <1>3, <1>4, <1>5, <1>6, <1>7, ResultSeen, ReadSeen

LEMMA RedisChangeSeen ==
    ASSUME StoresInv, NEW c \in Callers, OnServer(c), Changes(call[c].op),
           call[c].todo # {}, NEW left, \A k \in Keys : left[k] \in KV!Leavings(call[c]),
           Change(c, left)
    PROVE  Promise!StoreNext
<1> DEFINE K == call[c].todo
<1>1. /\ backend = "redis" /\ Aside /\ InCall(c) /\ call[c].todo \in SUBSET Keys
  BY AtServer
<1>2. Moves(c, Result(c), {}, call[c].at, NoAnswer)
  BY ChangeMoves DEF Change
<1>3. Moves(c, Result(c), call[c].todo \ K, call[c].at, NoAnswer)
  BY <1>2
<1>4. Portion(c, call[c].todo, K)
  BY <1>1, Weaknesses DEF Portion
<1>5. store' = With(K, left)
  BY DEF Change
<1>6. \A k \in K : left[k] \in KV!Leavings(call[c])
  BY <1>1
<1> HIDE DEF K
<1> QED
  BY <1>1, <1>3, <1>4, <1>5, <1>6, ResultSeen, ChangeSeen

LEMMA ExecuteSeen ==
    ASSUME StoresInv, NEW c \in Callers, Execute(c)
    PROVE  Promise!StoreNext
<1>1. OnServer(c) /\ call[c].todo # {}
  BY DEF Execute
<1>2. backend # "file" /\ InCall(c) /\ TypeOK /\ CallsInv
  BY <1>1, AtServer DEF StoresInv
<1> DEFINE gets == [k \in Keys |-> Find(store[k])]
           lists == [k \in Keys |-> List(store[k])]
           sets == [k \in Keys |-> NewEntry(c)]
           drops == [k \in Keys |-> Absent]
<1>3. CASE call[c].op = "get" /\ Read(c, gets)
  <2>1. \A k \in Keys : /\ gets[k] \in KV!Answers(call[c], k)
                        /\ gets[k] \in Values \cup {Present, Nothing}
    BY <1>2, <1>3, FindAside
  <2> HIDE DEF gets
  <2> QED
    BY <1>1, <1>3, <2>1, RedisReadSeen
<1>4. CASE call[c].op = "keys" /\ Read(c, lists)
  <2>1. \A k \in Keys : /\ lists[k] \in KV!Answers(call[c], k)
                        /\ lists[k] \in Values \cup {Present, Nothing}
    BY <1>2, <1>4, FindAside
  <2> HIDE DEF lists
  <2> QED
    BY <1>1, <1>4, <2>1, RedisReadSeen
<1>5. CASE call[c].op = "set" /\ Change(c, sets)
  <2>1. \A k \in Keys : sets[k] \in KV!Leavings(call[c])
    BY <1>2, <1>5, NewEntryKind
  <2> HIDE DEF sets
  <2> QED
    BY <1>1, <1>5, <2>1, RedisChangeSeen DEF Changes
<1>6. CASE call[c].op \in {"delete", "clear"} /\ Change(c, drops)
  <2>1. \A k \in Keys : drops[k] \in KV!Leavings(call[c])
    BY <1>6, AbsentIsLeft
  <2> HIDE DEF drops
  <2> QED
    BY <1>1, <1>6, <2>1, RedisChangeSeen DEF Changes
<1> QED
  BY <1>3, <1>4, <1>5, <1>6 DEF Execute

LEMMA LostSeen ==
    ASSUME StoresInv, NEW c \in Callers, LoseConnection(c)
    PROVE  Promise!StoreNext
<1>1. /\ backend = "redis" /\ Aside /\ InCall(c)
      /\ Doing(c, "running") /\ UNCHANGED store /\ Goto(c, "lost")
  BY AtServer DEF LoseConnection
<1>2. ~Doing(c, "lost")
  BY <1>1 DEF Doing
<1> QED
  BY <1>1, <1>2, Weaknesses, LoseSeen

LEMMA EvictSeen ==
    ASSUME StoresInv, NEW k \in Keys, RedisEvict(k)
    PROVE  Promise!StoreNext
<1>1. /\ Aside /\ UNCHANGED <<call, backend, now>> /\ TypeOK
      /\ store[k] # Absent /\ Expired(store[k]) /\ store' = [store EXCEPT ![k] = Absent]
  BY DEF RedisEvict, Aside, StoresInv
<1>2. Content = store /\ Content' = store'
  BY <1>1, ContentAside
<1>3. [c \in Callers |-> CallSeen(c)]' = [c \in Callers |-> CallSeen(c)]
  BY <1>1 DEF CallSeen, Doing, Unfinished, NoAnswer, Idle
<1>4. Content[k] # Promise!Absent /\ Promise!Expired(Content[k])
  BY <1>1, <1>2 DEF Promise!Absent, Absent, KV!Absent, Promise!Expired, Expired, KV!Expired
<1>5. Content' = [Content EXCEPT ![k] = Promise!Absent]
  BY <1>1, <1>2 DEF Promise!Absent, Absent, KV!Absent
<1>6. Promise!Evict(k)
  BY <1>1, <1>3, <1>4, <1>5 DEF Promise!Evict, Content
<1> QED
  BY <1>6 DEF Promise!StoreNext

LEMMA RedisSeen ==
    ASSUME StoresInv, backend = "redis", NEW c \in Callers, RedisStep(c)
    PROVE  Promise!StoreNext
<1>1. CASE RedisEnter(c)
  <2>1. Aside
    BY <1>1 DEF RedisEnter, Enter, Aside
  <2> QED
    BY <1>1, <2>1, StoresAssumption, EnterSeen DEF RedisEnter
<1>2. CASE NoCommand(c)
  BY <1>2, AtServer, StopSeen DEF NoCommand
<1> QED
  BY <1>1, <1>2, ExecuteSeen, LostSeen DEF RedisStep

-----------------------------------------------------------------------------
\* The database backend of constance
LEMMA GotoSeen ==
    ASSUME StoresInv, Aside, NEW c \in Callers, InCall(c), ~Doing(c, "lost"),
           NEW stage \in Stages \ {"lost"}, Goto(c, stage), UNCHANGED store
    PROVE  UNCHANGED Promise!storeVars
<1>1. Moves(c, stage, call[c].todo, call[c].at, call[c].answer)
  BY GotoMoves DEF StoresInv
<1>2. CallSeen(c)' = Shown(c, call[c].todo, call[c].answer) /\ OnlyOf(c)
  BY <1>1, MoveSeen
<1>3. CallSeen(c) = Shown(c, call[c].todo, call[c].answer)
  BY SeenAside DEF Aside
<1>4. \A d \in Callers : CallSeen(d)' = CallSeen(d)
  BY <1>2, <1>3 DEF OnlyOf
<1>5. [d \in Callers |-> CallSeen(d)]' = [d \in Callers |-> CallSeen(d)]
  BY <1>4
<1>6. Content' = Content /\ UNCHANGED <<backend, now>>
  BY ContentAside DEF Aside
<1> QED
  BY <1>5, <1>6 DEF Promise!storeVars, Content

\* A set in constance takes effect, whether or not its caller waits for it.
LEMMA SettingSeen ==
    ASSUME StoresInv, backend = "constance", Aside, NEW c \in Callers, InCall(c),
           call[c].op = "set", call[c].todo # {},
           NEW stage \in Stages, stage = "lost" <=> Doing(c, "lost"),
           Pass(c, call[c].todo, NoAnswer, stage),
           NEW left, \A k \in call[c].todo : left[k] \in KV!Leavings(call[c]),
           store' = With(call[c].todo, left)
    PROVE  Promise!StoreNext
<1> DEFINE K == call[c].todo
<1>1. TypeOK /\ CallsInv /\ Changes(call[c].op)
  BY DEF StoresInv, Changes
<1>2. call[c].answer = NoAnswer /\ K \in SUBSET Keys /\ K # {}
  BY <1>1, CallAside
<1>3. Moves(c, stage, call[c].todo \ K, call[c].at, Answered(c, K, NoAnswer))
  BY <1>1, PassMoves DEF NoAnswer
<1>4. Answered(c, K, NoAnswer) = NoAnswer
  BY <1>2, NoMoreAnswer
<1>5. Portion(c, call[c].todo, K)
  BY <1>2, Weaknesses DEF Portion
<1> HIDE DEF K
<1>6. (\A k \in K : left[k] \in KV!Leavings(call[c])) /\ store' = With(K, left)
  BY DEF K
<1> QED
  BY <1>1, <1>3, <1>4, <1>5, <1>6, ChangeSeen

LEMMA LookSeen ==
    ASSUME StoresInv, NEW c \in Callers, ConstanceLook(c)
    PROVE  Promise!StoreNext \/ UNCHANGED Promise!storeVars
<1>1. /\ OnDatabase(c, "running", "set") /\ UNCHANGED store /\ Doing(c, "running")
      /\ {"running", "found", "missing", "done"} \subseteq Stages \ {"lost"}
  BY DEF ConstanceLook, OnDatabase, Stages
<1>2. /\ backend = "constance" /\ Aside /\ InCall(c) /\ SettingInv(c)
      /\ call[c].op = "set" /\ call[c].todo \in SUBSET Keys /\ TypeOK /\ CallsInv
      /\ call[c].todo = call[c].keys /\ ~Doing(c, "lost")
  BY <1>1, AtDatabase DEF Doing
<1>3. PICK k \in Keys : call[c].keys = {k}
  BY <1>2 DEF SettingInv
<1>4. CASE store[k].value = call[c].value /\ Pass(c, {k}, NoAnswer, "done")
  <2>1. call[c].value \in Values /\ call[c].timeout = Infinity /\ call[c].began <= now
    BY <1>2 DEF CallsInv, CallInv, SettingInv
  <2>2. store[k] # Absent /\ store[k].value # Broken
    BY <1>2, <1>4, <2>1, StoresAssumption DEF Absent, KV!Absent
  <2>3. store[k].deadline = Infinity
    BY <1>2, <2>2 DEF StoresInv, ConstanceInv
  <2>4. store[k] \in [value: Values, deadline: Nat \cup {Infinity}]
    BY <1>2, <2>2 DEF TypeOK, Entries
  <2>5. store[k] = [value |-> call[c].value, deadline |-> Infinity]
    BY <1>4, <2>3, <2>4
  <2>6. now \in call[c].began .. now
    <3>1. now \in Nat /\ call[c].began \in Nat
      BY <1>2, CallAside, StoresAssumption DEF TypeOK, Manager!LeaseTypeOK, Manager!Time
    <3> QED
      BY <2>1, <3>1
  <2>7. store[k] \in KV!Leavings(call[c])
    BY <1>2, <2>1, <2>5, <2>6 DEF KV!Leavings, KV!Deadline
  <2>8. store' = With(call[c].todo, store)
    BY <1>1, <1>2 DEF With, TypeOK
  <2>9. \A j \in call[c].todo : store[j] \in KV!Leavings(call[c])
    BY <1>2, <1>3, <2>7
  <2>10. /\ call[c].todo # {} /\ Pass(c, call[c].todo, NoAnswer, "done")
         /\ "done" \in Stages /\ ("done" = "lost" <=> Doing(c, "lost"))
    BY <1>1, <1>2, <1>3, <1>4
  <2> QED
    BY <1>2, <2>8, <2>9, <2>10, SettingSeen
<1>5. ASSUME NEW stage \in {"found", "missing"}, Goto(c, stage)
      PROVE  UNCHANGED Promise!storeVars
  BY <1>1, <1>2, <1>5, GotoSeen
<1> QED
  BY <1>2, <1>3, <1>4, <1>5 DEF ConstanceLook

LEMMA CommitSeen ==
    ASSUME StoresInv, NEW c \in Callers, ConstanceCommit(c)
    PROVE  Promise!StoreNext
<1> DEFINE left == [k \in Keys |-> NewEntry(c)]
           stage == IF Doing(c, "lost") THEN "lost" ELSE "done"
<1>1. /\ OnDatabase(c, call[c].stage, "set") /\ call[c].stage \in Stages
      /\ call[c].todo # {} /\ Pass(c, call[c].todo, NoAnswer, stage)
      /\ stage \in Stages /\ (stage = "lost" <=> Doing(c, "lost"))
  BY DEF ConstanceCommit, Writing, Doing, Stages
<1>2. /\ backend = "constance" /\ Aside /\ InCall(c) /\ call[c].op = "set"
      /\ call[c].todo \in SUBSET Keys /\ TypeOK /\ CallsInv
  BY <1>1, AtDatabase
<1>3. \A k \in call[c].todo : left[k] \in KV!Leavings(call[c])
  BY <1>2, NewEntryKind
<1>4. store' = With(call[c].todo, left)
  BY DEF ConstanceCommit
<1> HIDE DEF left, stage
<1> QED
  BY <1>1, <1>2, <1>3, <1>4, SettingSeen

\* The caller has its error, and the transaction may yet be committed.
LEMMA CommitLostSeen ==
    ASSUME StoresInv, NEW c \in Callers, ConstanceLose(c)
    PROVE  Promise!StoreNext
<1>1. /\ OnDatabase(c, "committing", "set") /\ UNCHANGED store /\ Goto(c, "lost")
      /\ {"committing", "lost"} \subseteq Stages
  BY DEF ConstanceLose, Stages
<1>2. /\ backend = "constance" /\ Aside /\ InCall(c) /\ TypeOK /\ ~Doing(c, "lost")
  BY <1>1, AtDatabase DEF OnDatabase, Doing
<1> QED
  BY <1>1, <1>2, Weaknesses, LoseSeen

LEMMA ConstanceGetSeen ==
    ASSUME StoresInv, NEW c \in Callers, ConstanceGet(c)
    PROVE  Promise!StoreNext
<1>1. OnDatabase(c, "running", "get") /\ {"running", "done"} \subseteq Stages
      /\ Doing(c, "running") /\ UNCHANGED store
  BY DEF ConstanceGet, OnDatabase, Stages
<1>2. /\ backend = "constance" /\ backend # "file" /\ Aside /\ InCall(c) /\ call[c].op = "get"
      /\ call[c].todo \in SUBSET Keys /\ TypeOK /\ CallsInv
      /\ call[c].todo = call[c].keys
  BY <1>1, AtDatabase
<1> DEFINE found == [k \in Keys |-> Find(store[k])]
           K == call[c].todo
           G == {}
<1>3. K \in SUBSET Keys /\ K # {}
  BY <1>2 DEF CallsInv, CallInv
<1>4. \A k \in K : /\ found[k] \in KV!Answers(call[c], k)
                   /\ found[k] \in Values \cup {Present, Nothing}
  BY <1>2, <1>3, FindAside
<1>5. Pass(c, K, found, "done")
  BY DEF ConstanceGet
<1> HIDE DEF found
<1>6. Moves(c, "done", call[c].todo \ K, call[c].at, Answered(c, K, found))
  BY <1>1, <1>2, <1>4, <1>5, PassMoves
<1>7. Portion(c, call[c].todo, K)
  BY <1>2, <1>3, Weaknesses DEF Portion
<1>8. ("done" = "lost") <=> Doing(c, "lost")
  BY <1>1 DEF Doing
<1>9. store' = Without(G)
  BY <1>1, <1>2 DEF TypeOK, Without
<1>10. G \in SUBSET K /\ \A k \in G : Expired(store[k])
  OBVIOUS
<1>11. /\ call[c].op \in {"get", "keys"} /\ Aside /\ InCall(c)
       /\ \A k \in K : found[k] \in KV!Answers(call[c], k)
  BY <1>2, <1>4
<1> HIDE DEF G, K
<1> QED
  BY <1>6, <1>7, <1>8, <1>9, <1>10, <1>11, ReadSeen

LEMMA ConstanceSeen ==
    ASSUME StoresInv, NEW c \in Callers, ConstanceStep(c)
    PROVE  Promise!StoreNext \/ UNCHANGED Promise!storeVars
<1>1. CASE ConstanceEnter(c)
  <2>1. /\ Aside /\ Enter(c, "running", {"get", "set"}, Values, {Infinity})
        /\ {"get", "set"} \in SUBSET KV!Kinds
    BY <1>1 DEF ConstanceEnter, Enter, Aside, KV!Kinds
  <2> QED
    BY <2>1, EnterSeen
<1>2. ASSUME NEW from \in {"found", "missing"}, OnDatabase(c, from, "set"),
             NEW to \in {"committing", "raising"}, Goto(c, to), UNCHANGED store
      PROVE  UNCHANGED Promise!storeVars
  <2>1. from \in Stages /\ to \in Stages \ {"lost"} /\ ~Doing(c, "lost")
    BY <1>2 DEF OnDatabase, Stages, Doing
  <2>2. Aside /\ InCall(c)
    BY <1>2, <2>1, AtDatabase
  <2> QED
    BY <1>2, <2>1, <2>2, GotoSeen
<1>3. CASE ConstanceUpdate(c) \/ ConstanceInsert(c)
  BY <1>2, <1>3 DEF ConstanceUpdate, ConstanceInsert
<1>4. CASE ConstanceFail(c)
  <2>1. PICK stage \in {"running", "found", "missing", "committing", "raising", "lost"} :
          Doing(c, stage)
    BY <1>4 DEF ConstanceFail
  <2>2. Aside /\ Stop(c) /\ UNCHANGED store
    BY <1>4 DEF ConstanceFail, OnDatabase, Aside
  <2>3. InCall(c)
    BY <2>1, InCallWhen DEF StoresInv, Stages
  <2> QED
    BY <2>2, <2>3, StopSeen
<1> QED
  BY <1>1, <1>3, <1>4, ConstanceGetSeen, LookSeen, CommitSeen, CommitLostSeen
     DEF ConstanceStep

-----------------------------------------------------------------------------
\* Whatever the backend, but for files.
LEMMA ReturnSeen ==
    ASSUME StoresInv, backend # "file", NEW c \in Callers, Return(c)
    PROVE  Promise!StoreNext
<1>1. /\ Aside /\ InCall(c) /\ Stop(c) /\ UNCHANGED store
  BY InCallWhen DEF Return, Aside, StoresInv, Stages
<1> QED
  BY <1>1, StopSeen

LEMMA StepSeen ==
    ASSUME StoresInv, backend # "file", [Next]_vars
    PROVE  Promise!StoreNext \/ UNCHANGED Promise!storeVars
<1>1. ASSUME NEW c \in Callers, Step(c)
      PROVE  Promise!StoreNext \/ UNCHANGED Promise!storeVars
  <2>1. ~FileCacheStep(c)
    BY DEF FileCacheStep, FileEnter, Granted, WaitCut, CrashEntering, LockUnreadable,
       FileGet, FileList, FileOpen, FileDelete, FileClear, InBody, FileTear, FileWrite,
       FileWriteFails, BodyCut, BodyRefused, Leave, Crash
  <2>2. LocalMemoryStep(c) => backend = "memory"
    BY DEF LocalMemoryStep, MemoryEnter, MemoryGet, MemorySet, MemoryDelete, MemoryKeys,
       MemoryCut, OnMemory
  <2>3. RedisStep(c) => backend = "redis"
    BY DEF RedisStep, RedisEnter, Execute, NoCommand, LoseConnection, OnServer
  <2> QED
    BY <1>1, <2>1, <2>2, <2>3, MemorySeen, RedisSeen, ConstanceSeen, ReturnSeen DEF Step
<1>2. CASE \E k \in Keys : RedisEvict(k)
  BY <1>2, EvictSeen
<1>3. CASE Tick
  BY <1>3, TickSeen
<1>4. CASE UNCHANGED vars
  BY <1>4, NothingSeen
<1> QED
  BY <1>1, <1>2, <1>3, <1>4 DEF Next

\* LocalMemoryCache keeps the promise of KeyValueStore, key by key.
THEOREM MemoryKeeps == Spec => MemoryKeepsPromise
<1>1. StoresInv /\ [Next]_vars => [backend = "memory" => Promise!StoreNext]_(Promise!storeVars)
  BY StepSeen
<1> QED
  BY <1>1, InitSeen, StoresInvariance, PTL DEF Spec, MemoryKeepsPromise

\* RedisCache keeps it, but for commands that take effect after their caller has its error.
THEOREM RedisKeeps == Spec => RedisKeepsPromise
<1>1. StoresInv /\ [Next]_vars => [backend = "redis" => Promise!StoreNext]_(Promise!storeVars)
  BY StepSeen
<1> QED
  BY <1>1, InitSeen, StoresInvariance, PTL DEF Spec, RedisKeepsPromise

\* The database backend of constance keeps it, but for a COMMIT that takes effect after
\* its caller has its error.
THEOREM ConstanceKeeps == Spec => ConstanceKeepsPromise
<1>1. StoresInv /\ [Next]_vars =>
        [backend = "constance" => Promise!StoreNext]_(Promise!storeVars)
  BY StepSeen
<1> QED
  BY <1>1, InitSeen, StoresInvariance, PTL DEF Spec, ConstanceKeepsPromise

-----------------------------------------------------------------------------
\* FileCache: what the promise sees of a call, and of the files.
LEMMA SeenInFiles ==
    ASSUME backend = "file", NEW c \in Callers, InCall(c)
    PROVE  CallSeen(c) = IF Unfinished(c) THEN Shown(c, call[c].keys, NoAnswer)
                                          ELSE Shown(c, call[c].todo, call[c].answer)
  BY DEF CallSeen, Shown, InCall

LEMMA ContentAlone ==
    ASSUME NEW c, holding = {c}
    PROVE  Content = IF Changes(call[c].op) /\ Unfinished(c) THEN before ELSE store
  BY DEF Content, ChangeInBody

LEMMA ContentUnheld ==
    ASSUME holding = {}
    PROVE  Content = store
  BY DEF Content, ChangeInBody

\* Without overlap, c is the only one in the lock.
LEMMA Alone ==
    ASSUME StoresInv, backend = "file", ~overlap, NEW c \in holding
    PROVE  holding = {c} /\ HolderInv(c)
<1>1. \A d \in holding : d = c
  BY DEF StoresInv, FileInv
<1> QED
  BY <1>1, AtFiles

\* A method that takes part in the lock comes a step further.
Works(c) ==
    /\ UNCHANGED <<backend, now>> /\ UNCHANGED managerVars
    /\ InCall(c)' /\ ~Doing(c, "lost")'
    /\ \A d \in Callers \ {c} : call'[d] = call[d]
    /\ call'[c].op = call[c].op /\ call'[c].keys = call[c].keys
    /\ call'[c].value = call[c].value /\ call'[c].timeout = call[c].timeout
    /\ call'[c].began = call[c].began

LEMMA MovesWorks ==
    ASSUME TypeOK, NEW c \in Callers, NEW stage, NEW todo, NEW at, NEW answer,
           Moves(c, stage, todo, at, answer), stage # "lost",
           UNCHANGED <<backend, now>>, UNCHANGED managerVars
    PROVE  Works(c)
  BY MovedCall DEF Works, Doing

\* Until its last step nobody sees it; then all of it takes effect at once.
LEMMA WorkSeen ==
    ASSUME StoresInv, StoresInv', backend = "file", NEW c \in holding,
           ~overlap, ~overlap', Unfinished(c), Works(c),
           ~Changes(call[c].op) => UNCHANGED store
    PROVE  Promise!StoreNext \/ UNCHANGED Promise!storeVars
<1>1. /\ c \in Callers /\ InCall(c) /\ TypeOK /\ CallsInv /\ Inside(c)
      /\ call[c].op \in KV!Kinds /\ call[c].keys \in SUBSET Keys
  BY AtFiles
<1>2. holding = {c} /\ holding' = {c} /\ backend' = "file" /\ UNCHANGED <<now, before>>
  BY Alone DEF Works, managerVars
<1>3. HolderInv(c)' /\ TypeOK' /\ CallInv(c)' /\ CallInv(c)
  BY <1>1, <1>2 DEF StoresInv, FileInv, CallsInv, Works
<1>4. call[c].keys # {} /\ ~Doing(c, "lost")
  BY <1>1, <1>3 DEF CallInv, Inside, Doing
<1>5. CallSeen(c) = Shown(c, call[c].keys, NoAnswer)
  BY <1>1, SeenInFiles
<1>6. OnlyOf(c)
  BY <1>1, OthersAside DEF Works
<1>7. /\ KV!Leavings(call[c])' = KV!Leavings(call[c])
      /\ ~Changes(call[c].op) => \A k \in Keys : KV!Answers(call[c], k)' = KV!Answers(call[c], k)
  BY <1>1, SameLeavings, SameAnswers DEF Works
<1>8. Content = IF Changes(call[c].op) THEN before ELSE store
  BY <1>2, ContentAlone
<1>9. CASE Unfinished(c)'
  <2>1. CallSeen(c)' = Shown(c, call[c].keys, NoAnswer)
    BY <1>2, <1>4, <1>9 DEF CallSeen, Shown, Works, InCall, Doing, NoAnswer, Idle
  <2>2. \A d \in Callers : CallSeen(d)' = CallSeen(d)
    BY <1>5, <1>6, <2>1 DEF OnlyOf
  <2>3. Content' = IF Changes(call[c].op) THEN before' ELSE store'
    BY <1>2, <1>9 DEF Content, ChangeInBody, Works
  <2>4. Content' = Content
    BY <1>2, <1>8, <2>3
  <2>5. [d \in Callers |-> CallSeen(d)]' = [d \in Callers |-> CallSeen(d)]
    BY <2>2
  <2> QED
    BY <2>4, <2>5 DEF Promise!storeVars, Content, Works
<1>10. CASE ~Unfinished(c)'
  <2>1. Doing(c, "running")' /\ call'[c].todo = {}
    BY <1>10 DEF Unfinished
  <2>2. CallSeen(c)' = Shown(c, {}, call'[c].answer)
    BY <1>2, <1>4, <1>10, <2>1 DEF CallSeen, Shown, Works, InCall, Doing, Idle
  <2>3. \A k \in Keys : Through(c, k)' <=> k \in call[c].keys
    BY <2>1 DEF Through, Works
  <2>4. Content' = store'
    BY <1>2, <1>10 DEF Content, ChangeInBody
  <2>5. Portion(c, call[c].keys, call[c].keys)
    BY <1>1, <1>2, <1>4, Weaknesses DEF Portion, Works
  <2>6. call[c].keys \ call[c].keys = {}
    OBVIOUS
  <2>7. CASE Changes(call[c].op)
    <3>1. ChangingInv(c)' /\ call'[c].answer = NoAnswer
      BY <1>3, <2>7 DEF HolderInv, Works, CallInv, NoAnswer
    <3>2. call'[c].at = Nothing
      BY <1>2, <2>1 DEF StoresInv, FileInv, AtInv, Doing
    <3>3. \A k \in Keys : IF k \in call[c].keys THEN store'[k] \in KV!Leavings(call[c])
                                                ELSE store'[k] = before[k]
      BY <1>2, <1>7, <2>3, <3>1, <3>2, StoresAssumption DEF ChangingInv
    <3>4. Content' = [k \in Keys |-> IF k \in call[c].keys THEN store'[k] ELSE Content[k]]
      BY <1>3, <1>8, <2>4, <2>7, <3>3 DEF TypeOK
    <3> DEFINE left == [k \in Keys |-> store'[k]]
               K == call[c].keys
    <3>5. \A k \in K : left[k] \in KV!Leavings(call[c])
      BY <1>1, <3>3
    <3>6. Content' = [k \in Keys |-> IF k \in K THEN left[k] ELSE Content[k]]
      BY <3>4
    <3>7. CallSeen(c)' = Shown(c, K \ K, NoAnswer)
      BY <2>2, <2>6, <3>1
    <3> HIDE DEF left, K
    <3>8. CallSeen(c) = Shown(c, K, NoAnswer) /\ Portion(c, K, K)
      BY <1>5, <2>5 DEF K
    <3> QED
      BY <1>1, <1>6, <2>7, <3>5, <3>6, <3>7, <3>8, ChangeTakesEffect
  <2>8. CASE ~Changes(call[c].op)
    <3>1. ReadingInv(c)' /\ call[c].op \in {"get", "keys"}
      BY <1>1, <1>3, <2>8 DEF HolderInv, Works, Changes, KV!Kinds
    <3>2. \A k \in Keys : IF k \in call[c].keys
                          THEN call'[c].answer[k] \in KV!Answers(call[c], k)
                          ELSE call'[c].answer[k] = Nothing
      BY <1>7, <2>3, <2>8, <3>1 DEF ReadingInv
    <3>3. call'[c].answer \in [Keys -> Values \cup {Present, Nothing}]
      BY <1>1, <1>3, CallFields DEF Works, TypeOK, Calls, InCall
    <3> DEFINE found == call'[c].answer
               K == call[c].keys
               G == {}
    <3>4. found = Amended(NoAnswer, K, found)
      BY <1>1, <3>2, <3>3 DEF Amended, NoAnswer
    <3>5. CallSeen(c)' = Shown(c, K \ K, found)
      BY <2>2, <2>6
    <3>6. \A k \in K : found[k] \in KV!Answers(call[c], k)
      BY <1>1, <3>2
    <3>7. Content = store /\ Content' = Without(G)
      BY <1>1, <1>8, <2>4, <2>8 DEF Without, TypeOK
    <3>8. G \in SUBSET K /\ \A k \in G : Expired(store[k])
      OBVIOUS
    <3> HIDE DEF found, K, G
    <3>9. CallSeen(c) = Shown(c, K, NoAnswer) /\ Portion(c, K, K)
      BY <1>5, <2>5 DEF K
    <3>10. CallSeen(c)' = Shown(c, K \ K, Amended(NoAnswer, K, found))
      BY <3>4, <3>5
    <3> QED
      BY <1>1, <1>6, <3>1, <3>6, <3>7, <3>8, <3>9, <3>10, ReadTakesEffect
  <2> QED
    BY <2>7, <2>8
<1> QED
  BY <1>9, <1>10

\* Every step in the lock is such a step.
LEMMA BodySeen ==
    ASSUME StoresInv, StoresInv', backend = "file", ~overlap, ~overlap', NEW c \in Callers,
           \/ \E k \in Keys : FileGet(c, k) \/ FileList(c, k) \/ FileOpen(c, k)
                                \/ FileDelete(c, k) \/ FileClear(c, k)
           \/ FileTear(c) \/ FileWrite(c) \/ FileWriteFails(c)
           \/ BodyCut(c) \/ BodyRefused(c)
    PROVE  Promise!StoreNext \/ UNCHANGED Promise!storeVars
<1> USE DEF Stages
<1>1. TypeOK
  BY DEF StoresInv
<1>2. ASSUME NEW op, NEW k, InBody(c, op, k)
      PROVE  /\ c \in holding /\ Unfinished(c) /\ InCall(c) /\ k \in Keys /\ call[c].op = op
             /\ UNCHANGED <<backend, now>> /\ UNCHANGED managerVars
             /\ call[c].stage = "running"
  BY <1>2, AtKey DEF Unfinished, Doing
<1>3. ASSUME NEW k \in Keys, FileGet(c, k)
      PROVE  Promise!StoreNext \/ UNCHANGED Promise!storeVars
  <2>1. InBody(c, "get", k) /\ UNCHANGED store
    BY <1>3 DEF FileGet
  <2>2. CASE Goto(c, "raising")
    <3>1. Works(c)
      BY <1>1, <1>2, <2>1, <2>2, GotoMoves, MovesWorks
    <3> QED
      BY <1>2, <2>1, <3>1, WorkSeen
  <2>3. CASE /\ ~(IsBroken(store[k]) /\ ~Expired(store[k]))
             /\ Pass(c, {k}, [j \in {k} |-> Find(store[j])], "running")
    <3> DEFINE found == [j \in {k} |-> Find(store[j])]
    <3>1. \A j \in {k} \cap Keys : found[j] \in Values \cup {Present, Nothing}
      BY <1>1, <2>3, FoundType
    <3>2. Pass(c, {k}, found, "running")
      BY <2>3
    <3> HIDE DEF found
    <3>3. Moves(c, "running", call[c].todo \ {k}, call[c].at, Answered(c, {k}, found))
      BY <1>1, <1>2, <2>1, <3>1, <3>2, PassMoves
    <3>4. Works(c)
      BY <1>1, <1>2, <2>1, <3>3, MovesWorks
    <3> QED
      BY <1>2, <2>1, <3>4, WorkSeen
  <2> QED
    BY <1>3, <2>2, <2>3 DEF FileGet
<1>4. ASSUME NEW k \in Keys, FileList(c, k)
      PROVE  Promise!StoreNext \/ UNCHANGED Promise!storeVars
  <2>1. InBody(c, "keys", k) /\ UNCHANGED store
    BY <1>4 DEF FileList
  <2>2. CASE Goto(c, "raising")
    <3>1. Works(c)
      BY <1>1, <1>2, <2>1, <2>2, GotoMoves, MovesWorks
    <3> QED
      BY <1>2, <2>1, <3>1, WorkSeen
  <2>3. CASE Pass(c, {k}, [j \in {k} |-> List(store[j])], "running")
    <3> DEFINE found == [j \in {k} |-> List(store[j])]
    <3>1. \A j \in {k} \cap Keys : found[j] \in Values \cup {Present, Nothing}
      BY DEF List
    <3>2. Pass(c, {k}, found, "running")
      BY <2>3
    <3> HIDE DEF found
    <3>3. Moves(c, "running", call[c].todo \ {k}, call[c].at, Answered(c, {k}, found))
      BY <1>1, <1>2, <2>1, <3>1, <3>2, PassMoves
    <3>4. Works(c)
      BY <1>1, <1>2, <2>1, <3>3, MovesWorks
    <3> QED
      BY <1>2, <2>1, <3>4, WorkSeen
  <2> QED
    BY <1>4, <2>2, <2>3 DEF FileList
<1>5. ASSUME NEW k \in Keys, FileOpen(c, k)
      PROVE  Promise!StoreNext \/ UNCHANGED Promise!storeVars
  <2>1. InBody(c, "set", k)
    BY <1>5 DEF FileOpen
  <2>2. Moves(c, "writing", call[c].todo \ {k}, k, call[c].answer)
    BY <1>1, <1>2, <1>5, <2>1, OpenMoves DEF FileOpen
  <2>3. Works(c)
    BY <1>1, <1>2, <2>1, <2>2, MovesWorks
  <2> QED
    BY <1>2, <2>1, <2>3, WorkSeen DEF Changes
<1>6. ASSUME NEW k, NEW op \in {"delete", "clear"}, InBody(c, op, k),
             call' = [call EXCEPT ![c].todo = @ \ {k}]
      PROVE  Promise!StoreNext \/ UNCHANGED Promise!storeVars
  <2>1. Moves(c, "running", call[c].todo \ {k}, call[c].at, call[c].answer)
    BY <1>1, <1>2, <1>6, TodoMoves
  <2>2. Works(c)
    BY <1>1, <1>2, <1>6, <2>1, MovesWorks
  <2> QED
    BY <1>2, <1>6, <2>2, WorkSeen DEF Changes
<1>7. ASSUME NEW k, InBody(c, "clear", k), Goto(c, "raising")
      PROVE  Promise!StoreNext \/ UNCHANGED Promise!storeVars
  <2>1. Works(c)
    BY <1>1, <1>2, <1>7, GotoMoves, MovesWorks
  <2> QED
    BY <1>2, <1>7, <2>1, WorkSeen DEF Changes
<1>8. ASSUME Doing(c, "writing"), UNCHANGED <<backend, now>>, UNCHANGED managerVars,
             NEW stage \in {"running", "writing", "refused"}, NEW at, NEW answer,
             Moves(c, stage, call[c].todo, at, answer)
      PROVE  Promise!StoreNext \/ UNCHANGED Promise!storeVars
  <2>1. c \in holding /\ InCall(c) /\ Unfinished(c) /\ Changes(call[c].op)
    BY <1>8, InFiles, AtFiles DEF Changes, Unfinished, Doing
  <2>2. Works(c)
    BY <1>1, <1>8, MovesWorks
  <2> QED
    BY <2>1, <2>2, WorkSeen
<1>9. CASE FileTear(c) \/ FileWrite(c) \/ FileWriteFails(c)
  <2>1. /\ Doing(c, "writing") /\ UNCHANGED <<backend, now>> /\ UNCHANGED managerVars
        /\ InCall(c)
    BY <1>1, <1>9, InCallWhen DEF FileTear, FileWrite, FileWriteFails
  <2>2. CASE FileTear(c)
    <3>1. Goto(c, "writing")
      BY <1>1, <2>1, <2>2, CallFields DEF FileTear, Goto, TypeOK, Calls, Doing
    <3>2. Moves(c, "writing", call[c].todo, call[c].at, call[c].answer)
      BY <1>1, <2>1, <3>1, GotoMoves
    <3> QED
      BY <1>8, <2>1, <3>2
  <2>3. CASE FileWrite(c)
    <3>1. Moves(c, "running", call[c].todo, Nothing, call[c].answer)
      BY <1>1, <2>1, <2>3, WriteMoves DEF FileWrite
    <3> QED
      BY <1>8, <2>1, <3>1
  <2>4. CASE FileWriteFails(c)
    <3>1. Moves(c, "refused", call[c].todo, call[c].at, call[c].answer)
      BY <1>1, <2>1, <2>4, GotoMoves DEF FileWriteFails
    <3> QED
      BY <1>8, <2>1, <3>1
  <2> QED
    BY <1>9, <2>2, <2>3, <2>4
<1>10. ASSUME NEW stage \in {"cut", "refused"}, Goto(c, stage),
              Doing(c, "running"), call[c].todo # {},
              UNCHANGED <<backend, now, store>>, UNCHANGED managerVars
       PROVE  Promise!StoreNext \/ UNCHANGED Promise!storeVars
  <2>1. /\ c \in holding /\ InCall(c) /\ Unfinished(c)
    BY <1>10, InFiles, AtFiles DEF Unfinished
  <2>2. Works(c)
    BY <1>1, <1>10, <2>1, GotoMoves, MovesWorks
  <2> QED
    BY <1>10, <2>1, <2>2, WorkSeen
<1>11. CASE BodyCut(c) \/ BodyRefused(c)
  BY <1>10, <1>11 DEF BodyCut, BodyRefused, Ready
<1> QED
  BY <1>3, <1>4, <1>5, <1>6, <1>7, <1>9, <1>11 DEF FileDelete, FileClear

LEMMA FileEnterSeen ==
    ASSUME StoresInv, NEW c \in Callers, FileEnter(c)
    PROVE  Promise!StoreNext
<1>1. /\ backend = "file" /\ Enter(c, "waiting", KV!Kinds, CacheValues, Timeouts)
      /\ UNCHANGED <<backend, now, store>> /\ UNCHANGED managerVars
      /\ TypeOK /\ "waiting" \in Stages /\ CacheValues \in SUBSET Values
  BY StoresAssumption DEF FileEnter, Enter, StoresInv, Stages
<1>2. PICK op \in KV!Kinds, K \in (SUBSET Keys) \ {{}}, v \in CacheValues \cup {Nothing},
           d \in Timeouts \cup {Infinity} : Begun(c, "waiting", op, K, v, d)
  BY <1>1, EnterCall
<1>3. /\ call[c] = Idle /\ InCall(c)' /\ \A b \in Callers \ {c} : call'[b] = call[b]
      /\ call'[c].stage = "waiting" /\ call'[c].op = op /\ call'[c].keys = K
      /\ call'[c].value = v /\ call'[c].timeout = d /\ call'[c].began = now
  BY <1>2 DEF Begun
<1>4. CallSeen(c)' = [status |-> "running", op |-> op, todo |-> K, value |-> v,
                      timeout |-> d, began |-> now, answer |-> NoAnswer]
  BY <1>1, <1>3 DEF CallSeen, InCall, Doing, Idle, Unfinished, NoAnswer
<1>5. CallSeen(c) = Gone
  BY <1>3 DEF CallSeen, Gone
<1>6. OnlyOf(c)
  BY <1>1, <1>3, OthersAside
<1>7. Content' = Content
  <2>1. c \notin holding /\ holding \subseteq Callers
    BY <1>1, <1>3, AtFiles DEF InCall, TypeOK, Manager!LeaseTypeOK
  <2>2. \A b \in holding : call'[b] = call[b]
    BY <1>3, <2>1
  <2> QED
    BY <1>1, <2>2 DEF Content, ChangeInBody, Unfinished, Doing, managerVars
<1>8. v \in Values \cup {Nothing}
  BY <1>1
<1> QED
  BY <1>4, <1>5, <1>6, <1>7, <1>8, CallBegins

\* A method that never gets the lock.
LEMMA WaitCutSeen ==
    ASSUME StoresInv, NEW c \in Callers,
           WaitCut(c) \/ CrashEntering(c) \/ LockUnreadable(c)
    PROVE  Promise!StoreNext
<1>1. /\ backend = "file" /\ Doing(c, "waiting") /\ Stop(c)
      /\ UNCHANGED <<backend, now, store, holding, before>> /\ TypeOK /\ InCall(c)
  BY InCallWhen DEF WaitCut, CrashEntering, LockUnreadable, StoresInv, Stages, managerVars
<1>2. call'[c] = Idle /\ \A d \in Callers \ {c} : call'[d] = call[d]
  BY <1>1, StoppedCall
<1>3. CallSeen(c)' = Gone /\ OnlyOf(c)
  BY <1>1, <1>2, OthersAside DEF CallSeen, Gone, Idle
<1>4. CallSeen(c) = Shown(c, call[c].keys, NoAnswer)
  BY <1>1, SeenInFiles DEF Unfinished, Doing
<1>5. Content' = Content
  <2>1. c \notin holding /\ holding \subseteq Callers
    BY <1>1 DEF StoresInv, FileInv, Inside, Doing, TypeOK, Manager!LeaseTypeOK
  <2>2. \A b \in holding : call'[b] = call[b]
    BY <1>2, <2>1
  <2> QED
    BY <1>1, <2>2 DEF Content, ChangeInBody, Unfinished, Doing
<1> QED
  BY <1>3, <1>4, <1>5, CallEnds

\* The lock is granted.  A walk that finds no file has ended before it began.
LEMMA GrantedSeen ==
    ASSUME StoresInv, StoresInv', NEW c \in Callers, Granted(c), ~overlap'
    PROVE  Promise!StoreNext \/ UNCHANGED Promise!storeVars
<1>1. /\ backend = "file" /\ Doing(c, "waiting") /\ UNCHANGED <<backend, now, store>>
      /\ overlap' = (overlap \/ holding # {}) /\ Remember(c) /\ StartBody(c)
      /\ holding' = holding \cup {c} /\ TypeOK /\ CallsInv /\ InCall(c) /\ c \notin holding
  BY InCallWhen DEF Granted, Manager!Grant, StoresInv, Stages
<1>2. holding = {} /\ holding' = {c}
  BY <1>1
<1>3. /\ call[c].answer = NoAnswer /\ CallInv(c) /\ call[c].keys \in SUBSET Keys
      /\ call[c].op \in KV!Kinds
  BY <1>1, CallFields DEF StoresInv, FileInv, CallsInv
<1>4. /\ \A d \in Callers \ {c} : call'[d] = call[d]
      /\ InCall(c)'
      /\ call'[c].stage = "running" /\ call'[c].todo = NamesFor(c)
      /\ call'[c].answer = NoAnswer
      /\ call'[c].op = call[c].op /\ call'[c].keys = call[c].keys
      /\ call'[c].value = call[c].value /\ call'[c].timeout = call[c].timeout
      /\ call'[c].began = call[c].began
  BY <1>1, <1>3, StartMoves, MovedCall
<1>5. CallSeen(c) = Shown(c, call[c].keys, NoAnswer) /\ ~Doing(c, "lost")
  BY <1>1, SeenInFiles DEF Unfinished, Doing
<1>6. OnlyOf(c)
  BY <1>1, <1>4, OthersAside
<1>7. Content = store
  BY <1>2, ContentUnheld
<1>8. Content' = store
  <2>1. Changes(call[c].op) => before' = store
    BY <1>1 DEF Remember
  <2> QED
    BY <1>1, <1>2, <1>4, <2>1 DEF Content, ChangeInBody
<1>9. CASE NamesFor(c) # {}
  <2>1. CallSeen(c)' = Shown(c, call[c].keys, NoAnswer)
    BY <1>1, <1>4, <1>5, <1>9 DEF CallSeen, Shown, InCall, Doing, Unfinished, NoAnswer, Idle
  <2>2. \A d \in Callers : CallSeen(d)' = CallSeen(d)
    BY <1>5, <1>6, <2>1 DEF OnlyOf
  <2>3. [d \in Callers |-> CallSeen(d)]' = [d \in Callers |-> CallSeen(d)]
    BY <2>2
  <2> QED
    BY <1>1, <1>7, <1>8, <2>3 DEF Promise!storeVars, Content
<1>10. CASE NamesFor(c) = {}
  <2>1. /\ call[c].op \in {"keys", "clear"} /\ call[c].keys = Keys /\ Keys # {}
        /\ \A k \in Keys : store[k] = Absent
    BY <1>3, <1>10 DEF NamesFor, CallInv
  <2> DEFINE K == call[c].keys
             G == {}
  <2>2. CallSeen(c)' = Shown(c, K \ K, NoAnswer)
    BY <1>1, <1>4, <1>5, <1>10 DEF CallSeen, Shown, InCall, Doing, Unfinished, NoAnswer,
       Idle
  <2>3. Portion(c, K, K)
    BY <1>1, <2>1, Weaknesses DEF Portion
  <2>4. G \in SUBSET K /\ \A k \in G : Expired(store[k])
    OBVIOUS
  <2>5. Content' = Without(G)
    BY <1>1, <1>8 DEF Without, TypeOK
  <2>6. NoAnswer = Amended(NoAnswer, K, NoAnswer)
    BY DEF NoAnswer, Amended
  <2>7. CASE call[c].op = "keys"
    <3>1. \A k \in K : NoAnswer[k] \in KV!Answers(call[c], k)
      BY <2>1 DEF NoAnswer, KV!Answers, Absent
    <3>2. call[c].op \in {"get", "keys"}
      BY <2>7
    <3>3. CallSeen(c)' = Shown(c, K \ K, Amended(NoAnswer, K, NoAnswer))
      BY <2>2, <2>6
    <3>4. CallSeen(c) = Shown(c, K, NoAnswer)
      BY <1>5
    <3> HIDE DEF K, G
    <3> QED
      BY <1>6, <1>7, <2>3, <2>4, <2>5, <3>1, <3>2, <3>3, <3>4, ReadTakesEffect
  <2>8. CASE call[c].op = "clear"
    <3>1. \A k \in K : store[k] \in KV!Leavings(call[c])
      BY <2>1, <2>8, AbsentIsLeft
    <3>2. Content' = [k \in Keys |-> IF k \in K THEN store[k] ELSE Content[k]]
      BY <1>1, <1>7, <1>8 DEF TypeOK
    <3>3. CallSeen(c) = Shown(c, K, NoAnswer) /\ Changes(call[c].op)
      BY <1>5, <2>8 DEF Changes
    <3> HIDE DEF K, G
    <3> QED
      BY <1>6, <2>2, <2>3, <3>1, <3>2, <3>3, ChangeTakesEffect
  <2> QED
    BY <2>1, <2>7, <2>8
<1> QED
  BY <1>9, <1>10

LEMMA CallFailsPartly ==
    ASSUME NEW c \in Callers, NEW T \in SUBSET Keys, NEW A, CallSeen(c) = Shown(c, T, A),
           ~Doing(c, "lost"), "partial" \in Weakness[backend], Changes(call[c].op),
           NEW K \in SUBSET T, NEW B \in SUBSET T, K \cap B = {}, Cardinality(B) <= 1,
           call[c].op # "set" => B = {},
           NEW left, \A k \in K : left[k] \in KV!Leavings(call[c]),
           NEW torn, \A k \in B : torn[k] \in KV!Tornings(call[c]),
           Content' = [k \in Keys |-> IF k \in K THEN left[k]
                                      ELSE IF k \in B THEN torn[k] ELSE Content[k]],
           CallSeen(c)' = Gone, OnlyOf(c)
    PROVE  Promise!StoreNext
<1> DEFINE seen == [d \in Callers |-> CallSeen(d)]
           e == [k \in K |-> left[k]]
           b == [k \in B |-> torn[k]]
<1>1. seen' = [seen EXCEPT ![c] = Promise!Idle]
  BY OnlyItsCall DEF Promise!Idle, Gone
<1>2. /\ seen[c].status = "running" /\ seen[c].todo = T /\ seen[c].op = call[c].op
      /\ seen[c].op \notin {"get", "keys"}
  BY ShownFields DEF Changes
<1>3. e \in [K -> Promise!Leavings(seen[c])] /\ b \in [B -> Promise!Tornings(seen[c])]
  BY SeenLeavings, SeenTornings
<1>4. Content' = [k \in Keys |-> IF k \in K THEN e[k]
                                 ELSE IF k \in B THEN b[k] ELSE Content[k]]
  OBVIOUS
<1>5. UNCHANGED <<now, Weakness[backend]>>
  BY DEF OnlyOf
<1> HIDE DEF e, b
<1>6. \E L, C \in SUBSET seen[c].todo :
        /\ L \cap C = {} /\ Promise!Cardinality(C) <= 1
        /\ seen[c].op # "set" => C = {}
        /\ \E f \in [L -> Promise!Leavings(seen[c])], g \in [C -> Promise!Tornings(seen[c])] :
             Content' = [k \in Keys |-> IF k \in L THEN f[k]
                                        ELSE IF k \in C THEN g[k] ELSE Content[k]]
  <2> K \in SUBSET seen[c].todo /\ B \in SUBSET seen[c].todo
    BY <1>2
  <2> HIDE DEF seen
  <2> WITNESS K \in SUBSET seen[c].todo, B \in SUBSET seen[c].todo
  <2>1. /\ seen[c].op # "set" => B = {}
        /\ Promise!Cardinality(B) <= 1
    <3>1. Promise!Cardinality(B) = Cardinality(B)
      BY DEF Cardinality, Promise!Cardinality
    <3> QED
      BY <1>2, <3>1
  <2>2. \E f \in [K -> Promise!Leavings(seen[c])], g \in [B -> Promise!Tornings(seen[c])] :
          Content' = [k \in Keys |-> IF k \in K THEN f[k]
                                     ELSE IF k \in B THEN g[k] ELSE Content[k]]
    <3> e \in [K -> Promise!Leavings(seen[c])] /\ b \in [B -> Promise!Tornings(seen[c])]
      BY <1>3
    <3> WITNESS e \in [K -> Promise!Leavings(seen[c])], b \in [B -> Promise!Tornings(seen[c])]
    <3> QED
      BY <1>4
  <2> QED
    BY <2>1, <2>2
<1>7. Promise!FailPartly(c)
  <2>1. "partial" \in Weakness[backend]
    OBVIOUS
  <2>2. /\ seen[c].status = "running" /\ seen[c].op \notin {"get", "keys"}
        /\ seen' = [seen EXCEPT ![c] = Promise!Idle]
    BY <1>1, <1>2
  <2> QED
    BY <1>5, <1>6, <2>1, <2>2, Zenon DEF Promise!FailPartly, Content
<1> QED
  BY <1>7 DEF Promise!StoreNext

\* A method leaves the lock.
LEMMA LeaveSeen ==
    ASSUME StoresInv, NEW c \in Callers, Leave(c) \/ Crash(c), ~overlap
    PROVE  Promise!StoreNext
<1>1. /\ backend = "file" /\ c \in holding /\ Stop(c) /\ holding' = holding \ {c}
      /\ UNCHANGED <<backend, now, store>>
  BY DEF Leave, Crash, Manager!GiveBack, Manager!Vanish
<1>2. /\ InCall(c) /\ TypeOK /\ CallsInv /\ Inside(c) /\ HolderInv(c) /\ holding = {c}
      /\ call[c].keys \in SUBSET Keys
  BY <1>1, AtFiles, Alone
<1>3. call'[c] = Idle /\ \A d \in Callers \ {c} : call'[d] = call[d]
  BY <1>1, <1>2, StoppedCall
<1>4. CallSeen(c)' = Gone /\ OnlyOf(c)
  BY <1>1, <1>3, OthersAside DEF CallSeen, Gone, Idle
<1>5. Content' = store
  BY <1>1, <1>2 DEF Content, ChangeInBody
<1>6. Content = IF Changes(call[c].op) /\ Unfinished(c) THEN before ELSE store
  BY <1>2, ContentAlone
<1>7. CASE ~(Changes(call[c].op) /\ Unfinished(c))
  <2>1. Content' = Content
    BY <1>5, <1>6, <1>7
  <2>2. \E T, A : CallSeen(c) = Shown(c, T, A)
    BY <1>1, <1>2, SeenInFiles
  <2> QED
    BY <1>4, <2>1, <2>2, CallEnds
<1>8. CASE Changes(call[c].op) /\ Unfinished(c)
  <2> DEFINE T == call[c].keys
             B == IF call[c].at # Nothing THEN {call[c].at} ELSE {}
             K == {k \in Keys : Through(c, k)} \ B
  <2>1. ChangingInv(c) /\ CallSeen(c) = Shown(c, T, NoAnswer)
    BY <1>1, <1>2, <1>8, SeenInFiles DEF HolderInv
  <2>2. call[c].at # Nothing => call[c].op = "set" /\ Through(c, call[c].at)
    BY <1>1, AtFiles
  <2>3. K \in SUBSET T /\ B \in SUBSET T /\ K \cap B = {} /\ T \in SUBSET Keys
    BY <1>2, <2>2 DEF Through
  <2>4. Cardinality(B) <= 1
    <3>1. Cardinality({}) = 0
      BY FS_EmptySet, Zenon
    <3>2. Cardinality({call[c].at}) = 1
      BY FS_Singleton, Zenon
    <3>3. CASE call[c].at # Nothing
      BY <3>2, <3>3
    <3>4. CASE call[c].at = Nothing
      BY <3>1, <3>4
    <3> QED
      BY <3>3, <3>4
  <2>5. call[c].op # "set" => B = {}
    BY <2>2
  <2>6. /\ \A k \in K : store[k] \in KV!Leavings(call[c])
        /\ \A k \in B : store[k] \in KV!Tornings(call[c])
    BY <2>1, <2>3, StoresAssumption DEF ChangingInv
  <2>7. \A k \in Keys : store[k] = IF k \in K THEN store[k]
                                   ELSE IF k \in B THEN store[k] ELSE before[k]
    BY <2>1, StoresAssumption DEF ChangingInv
  <2>8. Content' = [k \in Keys |-> IF k \in K THEN store[k]
                                   ELSE IF k \in B THEN store[k] ELSE Content[k]]
    BY <1>2, <1>5, <1>6, <1>8, <2>7 DEF TypeOK
  <2>9. ~Doing(c, "lost") /\ "partial" \in Weakness[backend]
    BY <1>1, <1>2, Weaknesses DEF Inside, Doing
  <2> HIDE DEF T, B, K
  <2> QED
    BY <1>4, <1>8, <2>1, <2>3, <2>4, <2>5, <2>6, <2>8, <2>9, CallFailsPartly
<1> QED
  BY <1>7, <1>8

LEMMA FileSeen ==
    ASSUME StoresInv, StoresInv', backend = "file", ~overlap, ~overlap', [Next]_vars
    PROVE  Promise!StoreNext \/ UNCHANGED Promise!storeVars
<1>1. ASSUME NEW c \in Callers, Step(c)
      PROVE  Promise!StoreNext \/ UNCHANGED Promise!storeVars
  <2>1. ~LocalMemoryStep(c)
    BY DEF LocalMemoryStep, MemoryEnter, MemoryGet, MemorySet, MemoryDelete, MemoryKeys,
       MemoryCut, OnMemory
  <2>2. ~RedisStep(c)
    BY DEF RedisStep, RedisEnter, Execute, NoCommand, LoseConnection, OnServer
  <2>3. ~ConstanceStep(c)
    BY DEF ConstanceStep, ConstanceEnter, ConstanceGet, ConstanceLook, ConstanceUpdate,
       ConstanceInsert, ConstanceCommit, ConstanceLose, ConstanceFail, OnDatabase
  <2>4. ~Return(c)
    <3> SUFFICES ASSUME Doing(c, "done") PROVE FALSE
      BY DEF Return
    <3>1. InCall(c)
      BY InCallWhen DEF StoresInv, Stages
    <3> QED
      BY <3>1 DEF StoresInv, FileInv, Inside, Doing
  <2>5. FileCacheStep(c)
    BY <1>1, <2>1, <2>2, <2>3, <2>4 DEF Step
  <2> QED
    BY <2>5, FileEnterSeen, GrantedSeen, WaitCutSeen, BodySeen, LeaveSeen DEF FileCacheStep
<1>2. CASE \E k \in Keys : RedisEvict(k)
  BY <1>2 DEF RedisEvict
<1>3. CASE Tick
  BY <1>3, TickSeen
<1>4. CASE UNCHANGED vars
  BY <1>4, NothingSeen
<1> QED
  BY <1>1, <1>2, <1>3, <1>4 DEF Next

\* FileCache keeps the promise of KeyValueStore, but for a change that fails half-way,
\* and but for the time when its manager lock is shared.
THEOREM FileKeeps == Spec => FileKeepsPromise
<1>1. StoresInv /\ StoresInv' /\ [Next]_vars =>
        [backend = "file" => overlap \/ overlap' \/ Promise!StoreNext]_(Promise!storeVars)
  BY FileSeen
<1> QED
  BY <1>1, InitSeen, StoresInvariance, PTL DEF Spec, FileKeepsPromise
=============================================================================

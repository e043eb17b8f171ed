---------------------------- MODULE KeyValueStore ----------------------------
(***************************************************************************)
(* What the key-value stores of starlette-web promise to their callers:    *)
(* BaseCache, with its backends in files, in memory and in Redis, and the  *)
(* database backend of constance.  A call takes effect at one moment       *)
(* between its start and its return, on all its keys at once; a set holds  *)
(* until its deadline and not longer.                                      *)
(*                                                                         *)
(* No backend keeps the whole of this promise.  weak says what it gives    *)
(* up:                                                                     *)
(*   "piecemeal"  get_many and set_many go key by key                      *)
(*   "partial"    a set or delete that fails may have reached some keys,   *)
(*                and may leave one of them torn                           *)
(*   "late"       a call that failed may yet take effect                   *)
(***************************************************************************)
EXTENDS Naturals, FiniteSets

CONSTANTS
    Callers,    \* the tasks that use the store
    Keys,
    Values,     \* what is stored under a key
    Timeouts,   \* the timeouts of set
    Infinity,   \* the timeout and the deadline of an entry that stays
    Nothing,    \* the answer for a key that is not there
    Present,    \* the answer of keys() for a key that is
    Broken,     \* the value of a file that was not written to its end
    MaxTime     \* bound on the clock

VARIABLES
    now,        \* the clock
    weak,       \* what the backend gives up
    content,    \* the entry under each key
    calls       \* the call each caller is in

storeVars == <<now, weak, content, calls>>

Absent == [value |-> Nothing, deadline |-> 0]

BrokenEntry == [value |-> Broken, deadline |-> Infinity]

Idle == [status |-> "idle"]

Expired(e) == e.deadline # Infinity /\ e.deadline < now

Deadline(t, d) == IF d = Infinity THEN Infinity ELSE t + d

StoreInit ==
    /\ now = 0
    /\ weak \in SUBSET {"piecemeal", "partial", "late"}
    /\ content = [k \in Keys |-> Absent]
    /\ calls = [c \in Callers |-> Idle]

-----------------------------------------------------------------------------
Kinds == {"get", "keys", "set", "delete", "clear"}

\* A call of the given kind; what it answers for a key is recorded as it goes.
NewCall(op, K, v, d) ==
    [status |-> "running", op |-> op, todo |-> K, value |-> v, timeout |-> d,
     began |-> now, answer |-> [k \in Keys |-> Nothing]]

Begin(c) ==
    /\ calls[c] = Idle
    /\ \E op \in Kinds, K \in (SUBSET Keys) \ {{}}, v \in Values \cup {Nothing},
          d \in Timeouts \cup {Infinity} :
         calls' = [calls EXCEPT ![c] = NewCall(op, K, v, d)]
    /\ UNCHANGED <<now, weak, content>>

\* What a read may answer for k.  Whether the entry has expired is judged at
\* some moment of the call.
Answers(call, k) ==
    LET e == content[k]
        there == e # Absent /\ (e.deadline = Infinity \/ e.deadline >= call.began)
    IN  {a \in Values \cup {Present, Nothing} :
            \/ a = e.value /\ call.op = "get" /\ there
            \/ a = Present /\ call.op = "keys" /\ there
            \/ a = Nothing /\ (e = Absent \/ Expired(e))}

\* What a write leaves under k.
Leavings(call) ==
    IF call.op = "set"
    THEN {[value |-> call.value, deadline |-> Deadline(t, call.timeout)] :
            t \in call.began .. now}
    ELSE {Absent}

\* What a write leaves that stops half-way: nothing, or the deadline.
Tornings(call) ==
    {BrokenEntry} \cup
    {[value |-> Broken, deadline |-> e.deadline] : e \in Leavings(call)}

\* How much of a call takes effect in one step.
Portions(call) ==
    IF "piecemeal" \in weak /\ call.op \in {"get", "set"}
    THEN {{k} : k \in call.todo}
    ELSE {call.todo}

\* The call of c takes effect on K.  A read may drop expired entries.
Effect(c, K) ==
    LET call == calls[c] IN
    /\ call.todo # {} /\ K \in Portions(call)
    /\ IF call.op \in {"get", "keys"}
       THEN /\ \E a \in [K -> Values \cup {Present, Nothing}] :
                 /\ \A k \in K : a[k] \in Answers(call, k)
                 /\ calls' = [calls EXCEPT ![c].todo = @ \ K,
                        ![c].answer = [k \in Keys |-> IF k \in K THEN a[k] ELSE @[k]]]
            /\ \E G \in SUBSET {k \in K : Expired(content[k])} :
                 content' = [k \in Keys |-> IF k \in G THEN Absent ELSE content[k]]
       ELSE /\ calls' = [calls EXCEPT ![c].todo = @ \ K]
            /\ \E e \in [K -> Leavings(call)] :
                 content' = [k \in Keys |-> IF k \in K THEN e[k] ELSE content[k]]
    /\ UNCHANGED <<now, weak>>

TakeEffect(c) ==
    /\ calls[c].status = "running"
    /\ \E K \in SUBSET Keys : Effect(c, K)

Return(c) ==
    /\ calls[c].status = "running" /\ calls[c].todo = {}
    /\ calls' = [calls EXCEPT ![c] = Idle]
    /\ UNCHANGED <<now, weak, content>>

\* The call ends with an error, before or after it took effect.
Fail(c) ==
    /\ calls[c].status = "running"
    /\ calls' = [calls EXCEPT ![c] = Idle]
    /\ UNCHANGED <<now, weak, content>>

\* It ends with an error when it has reached the keys in K and was at work
\* on those in B.
FailPartly(c) ==
    /\ "partial" \in weak
    /\ calls[c].status = "running" /\ calls[c].op \notin {"get", "keys"}
    /\ calls' = [calls EXCEPT ![c] = Idle]
    /\ \E K, B \in SUBSET calls[c].todo :
         /\ K \cap B = {} /\ Cardinality(B) <= 1
         /\ calls[c].op # "set" => B = {}
         /\ \E e \in [K -> Leavings(calls[c])], b \in [B -> Tornings(calls[c])] :
              content' = [k \in Keys |-> IF k \in K THEN e[k]
                                         ELSE IF k \in B THEN b[k]
                                         ELSE content[k]]
    /\ UNCHANGED <<now, weak>>

\* The caller has its error and the call is still under way.
Lose(c) ==
    /\ "late" \in weak
    /\ calls[c].status = "running"
    /\ calls' = [calls EXCEPT ![c].status = "failed"]
    /\ UNCHANGED <<now, weak, content>>

EffectAfterAll(c) ==
    /\ calls[c].status = "failed"
    /\ \E K \in SUBSET Keys : Effect(c, K)

ComeToNothing(c) ==
    /\ calls[c].status = "failed"
    /\ calls' = [calls EXCEPT ![c] = Idle]
    /\ UNCHANGED <<now, weak, content>>

Evict(k) ==
    /\ content[k] # Absent /\ Expired(content[k])
    /\ content' = [content EXCEPT ![k] = Absent]
    /\ UNCHANGED <<now, weak, calls>>

StoreTick ==
    /\ now < MaxTime
    /\ now' = now + 1
    /\ UNCHANGED <<weak, content, calls>>

StoreNext ==
    \/ \E k \in Keys : Evict(k)
    \/ StoreTick
    \/ \E c \in Callers :
         \/ Return(c) \/ Fail(c) \/ Lose(c) \/ ComeToNothing(c)
         \/ Begin(c) \/ TakeEffect(c) \/ FailPartly(c) \/ EffectAfterAll(c)
=============================================================================

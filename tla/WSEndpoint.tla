----------------------------- MODULE WSEndpoint -----------------------------
(***************************************************************************)
(* common/ws/base_endpoint.py: one connection to a BaseWSEndpoint.  The    *)
(* task of the connection, the host, takes messages one by one and has     *)
(* each handled by a task of its own, all of them in one task group.  The  *)
(* host runs Starlette's WebSocketEndpoint.dispatch inside that group.     *)
(*                                                                         *)
(* Of the task group (anyio 3.6, on asyncio) the following is used: a      *)
(* cancelled scope interrupts the awaits of its tasks, again and again,    *)
(* but no stretch of code without an await, and nothing inside a shield; a *)
(* task that was not started yet runs up to its first await; an exception  *)
(* that leaves a task cancels the scope and is raised again by the group,  *)
(* a cancellation by the scope is not.                                     *)
(***************************************************************************)
EXTENDS Naturals

CONSTANTS
    Tasks,      \* the messages that are accepted, each with its task
    Endless     \* those whose _background_handler never ends by itself

ASSUME WSAssumption == Endless \subseteq Tasks

VARIABLES
    client,     \* whether the client is still there
    host,       \* where the host is
    task,       \* where each task is
    pending,    \* what each task will raise when it is through
    cancelled,  \* cancel_called of the scope of the group
    raised,     \* something but a cancellation is to leave dispatch
    undone,     \* history: what became of _unregister_background_task
    causes      \* history: what went wrong, other than a cancellation

vars == <<client, host, task, pending, cancelled, raised, undone, causes>>

HostPoints == {"connecting",   \* in on_connect
               "receiving",    \* awaits websocket.receive
               "received",     \* has a message, and goes on to on_receive
               "closing",      \* at the end of the async with of dispatch
               "ended"}

TaskPoints == {"none", "spawned",
               "registering",  \* in _register_background_task
               "handling",     \* in _background_handler
               "failing",      \* in _handle_background_task_exception
               "undoing",      \* in _unregister_background_task
               "ended"}

TypeOK ==
    /\ client \in {"there", "gone"}
    /\ host \in HostPoints
    /\ task \in [Tasks -> TaskPoints]
    /\ pending \in [Tasks -> {"nothing", "cancellation", "error"}]
    /\ cancelled \in BOOLEAN
    /\ raised \in BOOLEAN
    /\ undone \in [Tasks -> {"no", "yes", "gave up"}]
    /\ causes \subseteq {"refused", "handler failed", "not undone"}

Init ==
    /\ client = "there"
    /\ host = "connecting"
    /\ task = [t \in Tasks |-> "none"]
    /\ pending = [t \in Tasks |-> "nothing"]
    /\ cancelled = FALSE
    /\ raised = FALSE
    /\ undone = [t \in Tasks |-> "no"]
    /\ causes = {}

-----------------------------------------------------------------------------
\* The client closes the connection, or vanishes.
ClientLeaves ==
    /\ client = "there"
    /\ client' = "gone"
    /\ UNCHANGED <<host, task, pending, cancelled, raised, undone, causes>>

\* on_connect: authenticated, or anonymous, and permitted.
Accept ==
    /\ host = "connecting"
    /\ host' = "receiving"
    /\ UNCHANGED <<client, task, pending, cancelled, raised, undone, causes>>

\* An exception leaves super().dispatch(), and so the body of the task group.
HostRaises ==
    /\ host' = "closing"
    /\ cancelled' = TRUE
    /\ raised' = TRUE
    /\ causes' = causes \cup {"refused"}

\* on_connect: no permission, or any exception on the way.  on_disconnect is
\* not called, for dispatch has not entered its try.
Reject ==
    /\ host = "connecting"
    /\ HostRaises
    /\ UNCHANGED <<client, task, pending, undone>>

\* websocket.receive has a message.  A cancellation cannot take it back.
Receive ==
    /\ host = "receiving"
    /\ \E t \in Tasks : task[t] = "none"
    /\ host' = "received"
    /\ UNCHANGED <<client, task, pending, cancelled, raised, undone, causes>>

\* on_receive
Spawn(t) ==
    /\ host = "received"
    /\ task[t] = "none"
    /\ task' = [task EXCEPT ![t] = "spawned"]
    /\ host' = "receiving"
    /\ UNCHANGED <<client, pending, cancelled, raised, undone, causes>>

\* decode or _validate refuses the message.
Refuse ==
    /\ host = "received"
    /\ HostRaises
    /\ UNCHANGED <<client, task, pending, undone>>

\* Defect: the tasks are left to end by themselves.
GoodbyeOnly ==
    /\ host = "receiving" /\ client = "gone"
    /\ host' = "closing"
    /\ UNCHANGED <<client, task, pending, cancelled, raised, undone, causes>>

\* on_disconnect after the message websocket.disconnect: nothing was raised, so
\* the scope is cancelled explicitly.
Goodbye ==
    /\ host = "receiving" /\ client = "gone"
    /\ host' = "closing"
    /\ cancelled' = TRUE
    /\ UNCHANGED <<client, task, pending, raised, undone, causes>>

\* on_disconnect when the cancellation of the scope interrupts receive.
HostCancelled ==
    /\ host = "receiving" /\ cancelled
    /\ host' = "closing"
    /\ UNCHANGED <<client, task, pending, cancelled, raised, undone, causes>>

\* The end of the task group: all of its tasks have ended.
End ==
    /\ host = "closing"
    /\ \A t \in Tasks : task[t] \in {"none", "ended"}
    /\ host' = "ended"
    /\ UNCHANGED <<client, task, pending, cancelled, raised, undone, causes>>

-----------------------------------------------------------------------------
Move(t, from, to) == task[t] = from /\ task' = [task EXCEPT ![t] = to]

\* _background_handler_wrap begins.
Start(t) ==
    /\ Move(t, "spawned", "registering")
    /\ UNCHANGED <<client, host, pending, cancelled, raised, undone, causes>>

Registered(t) ==
    /\ Move(t, "registering", "handling")
    /\ UNCHANGED <<client, host, pending, cancelled, raised, undone, causes>>

\* _background_handler returns.
Finish(t) ==
    /\ t \notin Endless
    /\ Move(t, "handling", "undoing")
    /\ UNCHANGED <<client, host, pending, cancelled, raised, undone, causes>>

\* One of the two raises.
Fail(t) ==
    /\ task[t] \in {"registering", "handling"}
    /\ task' = [task EXCEPT ![t] = "failing"]
    /\ UNCHANGED <<client, host, pending, cancelled, raised, undone, causes>>

\* _handle_background_task_exception raises in its turn or, when a subclass wants
\* it so, keeps silent.
FailureHandled(t) ==
    /\ Move(t, "failing", "undoing")
    /\ \/ /\ pending' = [pending EXCEPT ![t] = "error"]
          /\ causes' = causes \cup {"handler failed"}
       \/ UNCHANGED <<pending, causes>>
    /\ UNCHANGED <<client, host, cancelled, raised, undone>>

Working(t) == task[t] \in {"registering", "handling", "failing"}

\* Defect: the handler of Exception gets cancellations as well.
CancelledAsError(t) ==
    /\ Working(t) /\ cancelled
    /\ task' = [task EXCEPT ![t] = "undoing"]
    /\ pending' = [pending EXCEPT ![t] = "error"]
    /\ UNCHANGED <<client, host, cancelled, raised, undone, causes>>

\* The cancellation of the scope interrupts one of the three; of the last, if a
\* subclass awaits something there, and takes the place of the error.
Cancelled(t) ==
    /\ Working(t) /\ cancelled
    /\ task' = [task EXCEPT ![t] = "undoing"]
    /\ pending' = [pending EXCEPT ![t] = "cancellation"]
    /\ UNCHANGED <<client, host, cancelled, raised, undone, causes>>

\* The wrapper ends and the task group gets what it raises.
Ends(t, what) ==
    /\ Move(t, "undoing", "ended")
    /\ cancelled' = (cancelled \/ what # "nothing")
    /\ raised' = (raised \/ what = "error")
    /\ UNCHANGED <<client, host, pending>>

\* Defect: no shield.
UndoUnlessCancelled(t) ==
    /\ Ends(t, pending[t])
    /\ undone' = [undone EXCEPT ![t] = IF cancelled THEN "no" ELSE "yes"]
    /\ UNCHANGED causes

\* _unregister_background_task, shielded.
Undo(t) ==
    /\ Ends(t, pending[t])
    /\ undone' = [undone EXCEPT ![t] = "yes"]
    /\ UNCHANGED causes

\* It raises, or EXIT_MAX_DELAY is over and fail_after does; that takes the
\* place of what was pending.
GiveUp(t) ==
    /\ Ends(t, "error")
    /\ undone' = [undone EXCEPT ![t] = "gave up"]
    /\ causes' = causes \cup {"not undone"}

TaskStep(t) ==
    \/ Start(t) \/ Registered(t) \/ Finish(t) \/ Fail(t)
    \/ FailureHandled(t) \/ Cancelled(t) \/ Undo(t) \/ GiveUp(t)

HostStep ==
    \/ Accept \/ Reject \/ Receive \/ Refuse \/ Goodbye \/ HostCancelled \/ End
    \/ \E t \in Tasks : Spawn(t)

Next == ClientLeaves \/ HostStep \/ \E t \in Tasks : TaskStep(t)

Spec == Init /\ [][Next]_vars

-----------------------------------------------------------------------------
\* The event loop runs every task that can go on, cancellation is delivered, and
\* EXIT_MAX_DELAY bounds the last step.  Neither the client nor a handler need
\* do anything.
Fairness ==
    /\ WF_vars(HostStep)
    /\ \A t \in Tasks :
         /\ WF_vars(Start(t))
         /\ WF_vars(Cancelled(t))
         /\ WF_vars(Undo(t) \/ GiveUp(t))

FairSpec == Spec /\ Fairness

-----------------------------------------------------------------------------
Begun(t) == task[t] \notin {"none", "spawned"}

\* Whatever ended it, a connection leaves no task of its own registered: each
\* one that had begun to register was unregistered in full, or the hook failed
\* or used up EXIT_MAX_DELAY and the server was told by an exception.
RegistrationsUndone ==
    host = "ended" => \A t \in Tasks :
        Begun(t) => \/ undone[t] = "yes"
                    \/ undone[t] = "gave up" /\ raised

\* dispatch raises if and only if something went wrong: a client that leaves, or
\* the handlers cut short because it left, are no error, and no error that
\* _handle_background_task_exception let through is lost on the way through the
\* cancellation of the others.
ErrorsSurface == host = "ended" => (raised <=> causes # {})

\* "A cancellation occurs whenever any of tasks raises exception, or when
\* WebsocketDisconnect exception is raised" (docs/receipts/websockets.md), and
\* when the client is gone; then the connection ends, though handlers would go
\* on for ever.
ConnectionEnds == client = "gone" \/ causes # {} ~> host = "ended"

-----------------------------------------------------------------------------
\* Why RegistrationsUndone and ErrorsSurface hold.  Nothing ends without its
\* unregistration, and nothing ends later than the group.
EndsUndone ==
    /\ \A t \in Tasks : task[t] = "ended" => undone[t] # "no"
    /\ host = "ended" => \A t \in Tasks : task[t] \in {"none", "ended"}

\* What went wrong has been raised, or is pending in a task at its last step.
Accounted ==
    /\ raised => causes # {}
    /\ causes \subseteq {"handler failed"} \/ raised
    /\ causes # {} =>
         raised \/ \E t \in Tasks : task[t] = "undoing" /\ pending[t] = "error"
    /\ \A t \in Tasks :
         /\ pending[t] = "error" => "handler failed" \in causes
         /\ undone[t] = "gave up" => "not undone" \in causes

\* The inductive invariant: no task ends before _unregister_background_task has
\* had its turn, and an error is never between the task it came from and the
\* group without one of them knowing.
WSInv == TypeOK /\ EndsUndone /\ Accounted
=============================================================================

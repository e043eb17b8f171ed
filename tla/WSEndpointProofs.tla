-------------------------- MODULE WSEndpointProofs --------------------------
(***************************************************************************)
(* Proofs about WSEndpoint, for any number of messages.                    *)
(***************************************************************************)
EXTENDS WSEndpoint, TLAPS

LEMMA InitInv == Init => WSInv
BY DEF Init, WSInv, TypeOK, EndsUndone, Accounted, HostPoints, TaskPoints

\* Every action keeps the variables where they belong.
LEMMA TypeStep == WSInv /\ [Next]_vars => TypeOK'
<1> SUFFICES ASSUME WSInv, [Next]_vars
             PROVE  TypeOK'
  OBVIOUS
<1> USE DEF WSInv
<1>1. CASE ClientLeaves
  BY <1>1 DEF TypeOK, HostPoints, TaskPoints, ClientLeaves
<1>2. CASE Accept
  BY <1>2 DEF TypeOK, HostPoints, TaskPoints, Accept
<1>3. CASE Reject
  BY <1>3 DEF TypeOK, HostPoints, TaskPoints, Reject, HostRaises
<1>4. CASE Receive
  BY <1>4 DEF TypeOK, HostPoints, TaskPoints, Receive
<1>5. CASE Refuse
  BY <1>5 DEF TypeOK, HostPoints, TaskPoints, Refuse, HostRaises
<1>6. CASE Goodbye
  BY <1>6 DEF TypeOK, HostPoints, TaskPoints, Goodbye
<1>7. CASE HostCancelled
  BY <1>7 DEF TypeOK, HostPoints, TaskPoints, HostCancelled
<1>8. CASE End
  BY <1>8 DEF TypeOK, HostPoints, TaskPoints, End
<1>9. ASSUME NEW t \in Tasks, Spawn(t)
      PROVE  TypeOK'
  BY <1>9 DEF TypeOK, HostPoints, TaskPoints, Spawn
<1>10. ASSUME NEW t \in Tasks, Start(t)
      PROVE  TypeOK'
  BY <1>10 DEF TypeOK, HostPoints, TaskPoints, Start, Move
<1>11. ASSUME NEW t \in Tasks, Registered(t)
      PROVE  TypeOK'
  BY <1>11 DEF TypeOK, HostPoints, TaskPoints, Registered, Move
<1>12. ASSUME NEW t \in Tasks, Finish(t)
      PROVE  TypeOK'
  BY <1>12 DEF TypeOK, HostPoints, TaskPoints, Finish, Move
<1>13. ASSUME NEW t \in Tasks, Fail(t)
      PROVE  TypeOK'
  BY <1>13 DEF TypeOK, HostPoints, TaskPoints, Fail
<1>14. ASSUME NEW t \in Tasks, Cancelled(t)
      PROVE  TypeOK'
  BY <1>14 DEF TypeOK, HostPoints, TaskPoints, Cancelled, Working
<1>15. ASSUME NEW t \in Tasks, Undo(t)
      PROVE  TypeOK'
  BY <1>15 DEF TypeOK, HostPoints, TaskPoints, Undo, Ends, Move
<1>16. ASSUME NEW t \in Tasks, GiveUp(t)
      PROVE  TypeOK'
  BY <1>16 DEF TypeOK, HostPoints, TaskPoints, GiveUp, Ends, Move
<1>17. CASE UNCHANGED vars
  BY <1>17 DEF TypeOK, HostPoints, TaskPoints, vars
<1>18. ASSUME NEW t \in Tasks, FailureHandled(t)
      PROVE  TypeOK'
  BY <1>18 DEF TypeOK, HostPoints, TaskPoints, FailureHandled, Move
<1> QED
  BY <1>1, <1>2, <1>3, <1>4, <1>5, <1>6, <1>7, <1>8, <1>9, <1>10, <1>11, <1>12, <1>13,
     <1>14, <1>15, <1>16, <1>17, <1>18 DEF Next, HostStep, TaskStep

\* No action ends a task without its unregistration, or the host before a task.
LEMMA EndsUndoneStep == WSInv /\ [Next]_vars => EndsUndone'
<1> SUFFICES ASSUME WSInv, [Next]_vars
             PROVE  EndsUndone'
  OBVIOUS
<1> USE DEF WSInv
<1>1. CASE ClientLeaves
  BY <1>1 DEF TypeOK, EndsUndone, TaskPoints, ClientLeaves
<1>2. CASE Accept
  BY <1>2 DEF TypeOK, EndsUndone, TaskPoints, Accept
<1>3. CASE Reject
  BY <1>3 DEF TypeOK, EndsUndone, TaskPoints, Reject, HostRaises
<1>4. CASE Receive
  BY <1>4 DEF TypeOK, EndsUndone, TaskPoints, Receive
<1>5. CASE Refuse
  BY <1>5 DEF TypeOK, EndsUndone, TaskPoints, Refuse, HostRaises
<1>6. CASE Goodbye
  BY <1>6 DEF TypeOK, EndsUndone, TaskPoints, Goodbye
<1>7. CASE HostCancelled
  BY <1>7 DEF TypeOK, EndsUndone, TaskPoints, HostCancelled
<1>8. CASE End
  BY <1>8 DEF TypeOK, EndsUndone, TaskPoints, End
<1>9. ASSUME NEW t \in Tasks, Spawn(t)
      PROVE  EndsUndone'
  BY <1>9 DEF TypeOK, EndsUndone, TaskPoints, Spawn
<1>10. ASSUME NEW t \in Tasks, Start(t)
      PROVE  EndsUndone'
  BY <1>10 DEF TypeOK, EndsUndone, TaskPoints, Start, Move
<1>11. ASSUME NEW t \in Tasks, Registered(t)
      PROVE  EndsUndone'
  BY <1>11 DEF TypeOK, EndsUndone, TaskPoints, Registered, Move
<1>12. ASSUME NEW t \in Tasks, Finish(t)
      PROVE  EndsUndone'
  BY <1>12 DEF TypeOK, EndsUndone, TaskPoints, Finish, Move
<1>13. ASSUME NEW t \in Tasks, Fail(t)
      PROVE  EndsUndone'
  BY <1>13 DEF TypeOK, EndsUndone, TaskPoints, Fail
<1>14. ASSUME NEW t \in Tasks, Cancelled(t)
      PROVE  EndsUndone'
  BY <1>14 DEF TypeOK, EndsUndone, TaskPoints, Cancelled, Working
<1>15. ASSUME NEW t \in Tasks, Undo(t)
      PROVE  EndsUndone'
  BY <1>15 DEF TypeOK, EndsUndone, TaskPoints, Undo, Ends, Move
<1>16. ASSUME NEW t \in Tasks, GiveUp(t)
      PROVE  EndsUndone'
  BY <1>16 DEF TypeOK, EndsUndone, TaskPoints, GiveUp, Ends, Move
<1>17. CASE UNCHANGED vars
  BY <1>17 DEF TypeOK, EndsUndone, TaskPoints, vars
<1>18. ASSUME NEW t \in Tasks, FailureHandled(t)
      PROVE  EndsUndone'
  BY <1>18 DEF TypeOK, EndsUndone, TaskPoints, FailureHandled, Move
<1> QED
  BY <1>1, <1>2, <1>3, <1>4, <1>5, <1>6, <1>7, <1>8, <1>9, <1>10, <1>11, <1>12, <1>13,
     <1>14, <1>15, <1>16, <1>17, <1>18 DEF Next, HostStep, TaskStep

\* No action loses an error, or raises one without a cause.
LEMMA AccountedStep == WSInv /\ [Next]_vars => Accounted'
<1> SUFFICES ASSUME WSInv, [Next]_vars
             PROVE  Accounted'
  OBVIOUS
<1> USE DEF WSInv
<1>1. CASE ClientLeaves
  BY <1>1 DEF TypeOK, Accounted, TaskPoints, ClientLeaves
<1>2. CASE Accept
  BY <1>2 DEF TypeOK, Accounted, TaskPoints, Accept
<1>3. CASE Reject
  BY <1>3 DEF TypeOK, Accounted, TaskPoints, Reject, HostRaises
<1>4. CASE Receive
  BY <1>4 DEF TypeOK, Accounted, TaskPoints, Receive
<1>5. CASE Refuse
  BY <1>5 DEF TypeOK, Accounted, TaskPoints, Refuse, HostRaises
<1>6. CASE Goodbye
  BY <1>6 DEF TypeOK, Accounted, TaskPoints, Goodbye
<1>7. CASE HostCancelled
  BY <1>7 DEF TypeOK, Accounted, TaskPoints, HostCancelled
<1>8. CASE End
  BY <1>8 DEF TypeOK, Accounted, TaskPoints, End
<1>9. ASSUME NEW t \in Tasks, Spawn(t)
      PROVE  Accounted'
  BY <1>9 DEF TypeOK, Accounted, TaskPoints, Spawn
<1>10. ASSUME NEW t \in Tasks, Start(t)
      PROVE  Accounted'
  BY <1>10 DEF TypeOK, Accounted, TaskPoints, Start, Move
<1>11. ASSUME NEW t \in Tasks, Registered(t)
      PROVE  Accounted'
  BY <1>11 DEF TypeOK, Accounted, TaskPoints, Registered, Move
<1>12. ASSUME NEW t \in Tasks, Finish(t)
      PROVE  Accounted'
  BY <1>12 DEF TypeOK, Accounted, TaskPoints, Finish, Move
<1>13. ASSUME NEW t \in Tasks, Fail(t)
      PROVE  Accounted'
  BY <1>13 DEF TypeOK, Accounted, TaskPoints, Fail
<1>14. ASSUME NEW t \in Tasks, Cancelled(t)
      PROVE  Accounted'
  BY <1>14 DEF TypeOK, Accounted, TaskPoints, Cancelled, Working
<1>15. ASSUME NEW t \in Tasks, Undo(t)
      PROVE  Accounted'
  BY <1>15 DEF TypeOK, Accounted, TaskPoints, Undo, Ends, Move
<1>16. ASSUME NEW t \in Tasks, GiveUp(t)
      PROVE  Accounted'
  BY <1>16 DEF TypeOK, Accounted, TaskPoints, GiveUp, Ends, Move
<1>17. CASE UNCHANGED vars
  BY <1>17 DEF TypeOK, Accounted, TaskPoints, vars
<1>18. ASSUME NEW t \in Tasks, FailureHandled(t)
      PROVE  Accounted'
  BY <1>18 DEF TypeOK, Accounted, TaskPoints, FailureHandled, Move
<1> QED
  BY <1>1, <1>2, <1>3, <1>4, <1>5, <1>6, <1>7, <1>8, <1>9, <1>10, <1>11, <1>12, <1>13,
     <1>14, <1>15, <1>16, <1>17, <1>18 DEF Next, HostStep, TaskStep

\* The inductive invariant of a connection.
THEOREM Invariant == Spec => []WSInv
<1>1. WSInv /\ [Next]_vars => WSInv'
  BY TypeStep, EndsUndoneStep, AccountedStep DEF WSInv
<1> QED
  BY <1>1, InitInv, PTL DEF Spec

\* In every behaviour of a connection the host, its tasks and its scope have
\* values of their sorts.
THEOREM TypeCorrect == Spec => []TypeOK
<1>1. WSInv => TypeOK
  BY DEF WSInv
<1> QED
  BY <1>1, Invariant, PTL

\* However many messages are under way and whatever ends the connection, no task
\* that began to register is left registered without an exception to say so.
THEOREM NoneLeftRegistered == Spec => []RegistrationsUndone
<1>1. WSInv => RegistrationsUndone
  BY DEF WSInv, TypeOK, EndsUndone, Accounted, RegistrationsUndone, Begun
<1> QED
  BY <1>1, Invariant, PTL

\* dispatch raises exactly when something went wrong, although one failing task
\* has all the others cancelled.
THEOREM EveryErrorSurfaces == Spec => []ErrorsSurface
<1>1. WSInv => ErrorsSurface
  BY DEF WSInv, EndsUndone, Accounted, ErrorsSurface
<1> QED
  BY <1>1, Invariant, PTL
=============================================================================

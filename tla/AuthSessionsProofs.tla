------------------------- MODULE AuthSessionsProofs -------------------------
(***************************************************************************)
(* Proofs about AuthSessions, for any number of requests, sessions and     *)
(* tokens.                                                                 *)
(***************************************************************************)
EXTENDS AuthSessionsInvariant, FiniteSetTheorems, TLAPS

\* Every action keeps the variables where they belong: the fields of a request,
\* the rows and their tokens.
LEMMA SortInvStep == AuthInv /\ [Next]_vars => SortInv'
<1> SUFFICES ASSUME AuthInv, [Next]_vars
             PROVE  SortInv'
  OBVIOUS
<1> USE DEF AuthInv, AtItsEnd
<1>1. ASSUME NEW r \in Requests, BeginSignIn(r)
      PROVE  SortInv'
  BY <1>1 DEF SortInv, Operations, Stages, BeginSignIn, Begin, database
<1>2. ASSUME NEW r \in Requests, BeginRefresh(r)
      PROVE  SortInv'
  BY <1>2 DEF SortInv, Operations, Stages, BeginRefresh, Begin, database
<1>3. ASSUME NEW r \in Requests, BeginSignOut(r)
      PROVE  SortInv'
  BY <1>3 DEF SortInv, Operations, Stages, BeginSignOut, Begin, database
<1>4. ASSUME NEW r \in Requests, BeginProfile(r)
      PROVE  SortInv'
  BY <1>4 DEF SortInv, Operations, Stages, BeginProfile, Begin, database
<1>5. ASSUME NEW r \in Requests, FindUser(r)
      PROVE  SortInv'
  BY <1>5 DEF SortInv, Stages, FindUser, Goto, Reads, database, history
<1>6. ASSUME NEW r \in Requests, FindSession(r)
      PROVE  SortInv'
  <2>1. req[r].op \in {"refresh", "sign_out", "profile"}
    BY <1>6 DEF SortInv, StageInv, FindSession, At, Operations
  <2>2. \E a \in Stages : Goto(r, a)
    BY <1>6, <2>1 DEF FindSession, Goto, Stages
  <2>3. Reads
    BY <1>6 DEF FindSession
  <2> QED
    BY <2>2, <2>3 DEF SortInv, Goto, Reads, database, history
<1>7. ASSUME NEW r \in Requests, Match(r)
      PROVE  SortInv'
  BY <1>7 DEF SortInv, Stages, Match, Goto, Reads, database, history
<1>8. ASSUME NEW r \in Requests, Reread(r)
      PROVE  SortInv'
  BY <1>8 DEF SortInv, Stages, Reread, Goto, database, history
<1>9. ASSUME NEW r \in Requests, Update(r)
      PROVE  SortInv'
  <2>1. req' \in [Requests -> [op : Operations, at : Stages,
                             session : Sessions \cup {NoSession},
                             presented : Nat, fresh : Nat, writes : BOOLEAN]]
    <3> DEFINE b == req[r].session \in rows
    <3>1. b \in BOOLEAN /\ "commit" \in Stages
      BY DEF Stages
    <3>2. req' = [req EXCEPT ![r].at = "commit", ![r].writes = b]
      BY <1>9 DEF Update
    <3> HIDE DEF b
    <3> QED
      BY <3>1, <3>2 DEF SortInv
  <2> QED
    BY <1>9, <2>1 DEF SortInv, Update, history
<1>10. ASSUME NEW r \in Requests, Create(r)
       PROVE  SortInv'
  BY <1>10 DEF SortInv, Create
<1>11. ASSUME NEW r \in Requests, FindToClose(r)
       PROVE  SortInv'
  BY <1>11 DEF SortInv, Stages, FindToClose, Goto, Reads, database, history
<1>12. ASSUME NEW r \in Requests, SetInactive(r)
       PROVE  SortInv'
  <2>1. "commit" \in Stages /\ TRUE \in BOOLEAN
    BY DEF Stages
  <2> QED
    BY <1>12, <2>1 DEF SortInv, SetInactive, history
<1>13. ASSUME NEW r \in Requests, Rollback(r)
       PROVE  SortInv'
  BY <1>13 DEF SortInv, Operations, Stages, Rollback, End, Idle
<1>14. ASSUME NEW r \in Requests, Commit(r)
       PROVE  SortInv'
  <2> DEFINE s == req[r].session
  <2>1. req[r].fresh # 0 => s \in Sessions
    BY <1>14 DEF Commit, Written, StageInv, At
  <2>2. rows' \subseteq Sessions /\ open' \subseteq Sessions
    BY <1>14, <2>1 DEF SortInv, Commit, Written
  <2>3. token' \in [Sessions -> Nat]
    BY <1>14, <2>1 DEF SortInv, Commit, Written
  <2>4. committed' \subseteq Sessions \X Nat
    BY <1>14, <2>1 DEF SortInv, Commit, Written
  <2> QED
    BY <1>14, <2>2, <2>3, <2>4 DEF SortInv, Commit, Written, Goto, Stages
<1>15. ASSUME NEW r \in Requests, Respond(r)
       PROVE  SortInv'
  <2>1. req[r].fresh # 0 => req[r].session \in Sessions
    BY <1>15 DEF Respond, StageInv, At
  <2>2. Issued(r) \subseteq Sessions \X Nat
    BY <2>1 DEF SortInv, Issued
  <2> QED
    BY <1>15, <2>2 DEF SortInv, Respond, End, Idle, database, Operations, Stages, Lateness
<1>16. ASSUME NEW r \in Requests, ResponseLost(r)
       PROVE  SortInv'
  BY <1>16 DEF SortInv, Operations, Stages, ResponseLost, End, Idle, database
<1>17. ASSUME NEW r \in Requests, CommitBreaks(r)
       PROVE  SortInv'
  BY <1>17 DEF SortInv, CommitBreaks, Goto, Reads, At, Stages, database, history
<1>18. ASSUME NEW r \in Requests, CommitLate(r)
       PROVE  SortInv'
  <2>1. req[r].fresh # 0 => req[r].session \in Sessions
    BY <1>18 DEF CommitLate, StageInv, At
  <2>2. rows' \subseteq Sessions /\ open' \subseteq Sessions
    BY <1>18, <2>1 DEF SortInv, CommitLate, Written
  <2>3. token' \in [Sessions -> Nat]
    BY <1>18, <2>1 DEF SortInv, CommitLate, Written
  <2>4. committed' \subseteq Sessions \X Nat
    BY <1>18, <2>1 DEF SortInv, CommitLate, Written
  <2>5. UNCHANGED <<account, made, delivered>> /\ End(r)
    BY <1>18 DEF CommitLate, Written
  <2> QED
    BY <2>2, <2>3, <2>4, <2>5 DEF SortInv, End, Idle, Operations, Stages
<1>19. ASSUME NEW r \in Requests, CloseFails(r)
       PROVE  SortInv'
  BY <1>19 DEF SortInv, CloseFails, End, Idle, At, Issued, Operations, Stages, database
<1>20. CASE Disable \/ DeleteAccount \/ UNCHANGED vars
  BY <1>20 DEF SortInv, Disable, DeleteAccount, vars, database, history
<1>21. ASSUME Enable
       PROVE  SortInv'
  BY <1>21 DEF SortInv, Enable, At, Lateness
<1>22. ASSUME NEW s \in Sessions, EditSession(s)
       PROVE  SortInv'
  BY <1>22 DEF SortInv, EditSession, At, Lateness
<1> QED
  BY <1>1, <1>2, <1>3, <1>4, <1>5, <1>6, <1>7, <1>8, <1>9, <1>10, <1>11, <1>12, <1>13,
     <1>14, <1>15, <1>16, <1>17, <1>18, <1>19, <1>20, <1>21, <1>22
     DEF Next, Proceed, Refuse, Refused, Raise, RollbackLate, At

\* Every action leaves a request where its view can be; what a client was given
\* is not taken from it.
LEMMA StageInvStep == AuthInv /\ [Next]_vars => StageInv'
<1> SUFFICES ASSUME AuthInv, [Next]_vars
             PROVE  StageInv'
  OBVIOUS
<1> USE DEF AuthInv, AtItsEnd
<1>1. ASSUME NEW r \in Requests, BeginSignIn(r)
      PROVE  StageInv'
  BY <1>1 DEF StageInv, BeginSignIn, Begin, At
<1>2. ASSUME NEW r \in Requests, BeginRefresh(r)
      PROVE  StageInv'
  BY <1>2 DEF SortInv, StageInv, BeginRefresh, Begin, At
<1>3. ASSUME NEW r \in Requests, BeginSignOut(r)
      PROVE  StageInv'
  BY <1>3 DEF SortInv, StageInv, BeginSignOut, Begin, At
<1>4. ASSUME NEW r \in Requests, BeginProfile(r)
      PROVE  StageInv'
  BY <1>4 DEF SortInv, StageInv, BeginProfile, Begin, At
<1>5. ASSUME NEW r \in Requests, FindUser(r)
      PROVE  StageInv'
  BY <1>5 DEF StageInv, FindUser, Goto, Reads, At
<1>6. ASSUME NEW r \in Requests, FindSession(r)
      PROVE  StageInv'
  <2>1. req[r].op \in {"refresh", "sign_out", "profile"} /\ At(r, "session")
    BY <1>6 DEF SortInv, StageInv, FindSession, At, Operations
  <2>2. \/ req[r].op = "refresh" /\ Goto(r, "match")
        \/ req[r].op = "sign_out" /\ Goto(r, "find")
        \/ req[r].op = "profile" /\ Goto(r, "commit")
    BY <1>6, <2>1 DEF FindSession
  <2>3. Reads
    BY <1>6 DEF FindSession
  <2> QED
    BY <2>1, <2>2, <2>3 DEF SortInv, StageInv, Goto, Reads, At
<1>7. ASSUME NEW r \in Requests, Match(r)
      PROVE  StageInv'
  BY <1>7 DEF StageInv, Match, Goto, Reads, At
<1>8. ASSUME NEW r \in Requests, Reread(r)
      PROVE  StageInv'
  BY <1>8 DEF SortInv, StageInv, Reread, Goto, At
<1>9. ASSUME NEW r \in Requests, Update(r)
      PROVE  StageInv'
  BY <1>9 DEF SortInv, StageInv, Update, At
<1>10. ASSUME NEW r \in Requests, Create(r)
       PROVE  StageInv'
  BY <1>10 DEF SortInv, StageInv, Create
<1>11. ASSUME NEW r \in Requests, FindToClose(r)
       PROVE  StageInv'
  BY <1>11 DEF StageInv, FindToClose, Goto, Reads, At
<1>12. ASSUME NEW r \in Requests, SetInactive(r)
       PROVE  StageInv'
  BY <1>12 DEF SortInv, StageInv, SetInactive, At
<1>13. ASSUME NEW r \in Requests, Rollback(r)
       PROVE  StageInv'
  BY <1>13 DEF StageInv, Rollback, End, Idle, At
<1>14. ASSUME NEW r \in Requests, Commit(r)
       PROVE  StageInv'
  BY <1>14 DEF StageInv, Commit, Written, Goto, At
<1>15. ASSUME NEW r \in Requests, Respond(r)
       PROVE  StageInv'
  BY <1>15 DEF StageInv, Respond, End, Idle, At
<1>16. ASSUME NEW r \in Requests, ResponseLost(r)
       PROVE  StageInv'
  BY <1>16 DEF StageInv, ResponseLost, End, Idle, At
<1>17. ASSUME NEW r \in Requests, CommitBreaks(r)
       PROVE  StageInv'
  BY <1>17 DEF SortInv, StageInv, CommitBreaks, Goto, Reads, At, Stages, database, history
<1>18. ASSUME NEW r \in Requests, CommitLate(r)
       PROVE  StageInv'
  BY <1>18 DEF SortInv, StageInv, CommitLate, Written, End, Idle, At, Issued, Operations, Stages
<1>19. ASSUME NEW r \in Requests, CloseFails(r)
       PROVE  StageInv'
  BY <1>19 DEF SortInv, StageInv, CloseFails, End, Idle, At, Issued, Operations, Stages, database
<1>20. CASE Disable \/ DeleteAccount \/ UNCHANGED vars
  BY <1>20 DEF StageInv, Disable, DeleteAccount, vars, At
<1>21. ASSUME Enable
       PROVE  StageInv'
  BY <1>21 DEF SortInv, StageInv, Enable, At, Lateness
<1>22. ASSUME NEW s \in Sessions, EditSession(s)
       PROVE  StageInv'
  BY <1>22 DEF SortInv, StageInv, EditSession, At, Lateness
<1> QED
  BY <1>1, <1>2, <1>3, <1>4, <1>5, <1>6, <1>7, <1>8, <1>9, <1>10, <1>11, <1>12, <1>13,
     <1>14, <1>15, <1>16, <1>17, <1>18, <1>19, <1>20, <1>21, <1>22
     DEF Next, Proceed, Refuse, Refused, Raise, RollbackLate, At

\* A token is made once: by _update_session or _create_session, each with the
\* next number, and a client has it only when the request that made it is over.
LEMMA FreshInvStep == AuthInv /\ [Next]_vars => FreshInv'
<1> SUFFICES ASSUME AuthInv, [Next]_vars
             PROVE  FreshInv'
  OBVIOUS
<1> USE DEF AuthInv, AtItsEnd
<1>1. ASSUME NEW r \in Requests, BeginSignIn(r)
      PROVE  FreshInv'
  BY <1>1 DEF SortInv, FreshInv, BeginSignIn, Begin
<1>2. ASSUME NEW r \in Requests, BeginRefresh(r)
      PROVE  FreshInv'
  BY <1>2 DEF SortInv, FreshInv, BeginRefresh, Begin
<1>3. ASSUME NEW r \in Requests, BeginSignOut(r)
      PROVE  FreshInv'
  BY <1>3 DEF SortInv, FreshInv, BeginSignOut, Begin
<1>4. ASSUME NEW r \in Requests, BeginProfile(r)
      PROVE  FreshInv'
  BY <1>4 DEF SortInv, FreshInv, BeginProfile, Begin
<1>5. ASSUME NEW r \in Requests, FindUser(r)
      PROVE  FreshInv'
  BY <1>5 DEF FreshInv, FindUser, Goto, Reads
<1>6. ASSUME NEW r \in Requests, FindSession(r)
      PROVE  FreshInv'
  BY <1>6 DEF FreshInv, FindSession, Goto, Reads
<1>7. ASSUME NEW r \in Requests, Match(r)
      PROVE  FreshInv'
  BY <1>7 DEF FreshInv, Match, Goto, Reads
<1>8. ASSUME NEW r \in Requests, Reread(r)
      PROVE  FreshInv'
  BY <1>8 DEF SortInv, StageInv, FreshInv, Reread, Goto, database, history
<1>9. ASSUME NEW r \in Requests, Update(r)
      PROVE  FreshInv'
  BY <1>9 DEF SortInv, FreshInv, Update
<1>10. ASSUME NEW r \in Requests, Create(r)
       PROVE  FreshInv'
  BY <1>10 DEF SortInv, FreshInv, Create
<1>11. ASSUME NEW r \in Requests, FindToClose(r)
       PROVE  FreshInv'
  BY <1>11 DEF FreshInv, FindToClose, Goto, Reads
<1>12. ASSUME NEW r \in Requests, SetInactive(r)
       PROVE  FreshInv'
  BY <1>12 DEF SortInv, FreshInv, SetInactive
<1>13. ASSUME NEW r \in Requests, Rollback(r)
       PROVE  FreshInv'
  BY <1>13 DEF SortInv, FreshInv, Rollback, End, Idle
<1>14. ASSUME NEW r \in Requests, Commit(r)
       PROVE  FreshInv'
  BY <1>14 DEF FreshInv, Commit, Written, Goto
<1>15. ASSUME NEW r \in Requests, Respond(r)
       PROVE  FreshInv'
  BY <1>15 DEF SortInv, FreshInv, Respond, End, Issued, Idle
<1>16. ASSUME NEW r \in Requests, ResponseLost(r)
       PROVE  FreshInv'
  BY <1>16 DEF SortInv, FreshInv, ResponseLost, End, Idle
<1>17. ASSUME NEW r \in Requests, CommitBreaks(r)
       PROVE  FreshInv'
  BY <1>17 DEF SortInv, StageInv, FreshInv, CommitBreaks, Goto, Reads, At, Stages, database, history
<1>18. ASSUME NEW r \in Requests, CommitLate(r)
       PROVE  FreshInv'
  BY <1>18 DEF SortInv, StageInv, FreshInv, CommitLate, Written, End, Idle, At, Issued, Operations, Stages
<1>19. ASSUME NEW r \in Requests, CloseFails(r)
       PROVE  FreshInv'
  BY <1>19 DEF SortInv, StageInv, FreshInv, CloseFails, End, Idle, At, Issued, Operations, Stages, database
<1>20. CASE Disable \/ DeleteAccount \/ UNCHANGED vars
  BY <1>20 DEF FreshInv, Disable, DeleteAccount, vars
<1>21. ASSUME Enable
       PROVE  FreshInv'
  BY <1>21 DEF SortInv, StageInv, FreshInv, Enable, At, Lateness
<1>22. ASSUME NEW s \in Sessions, EditSession(s)
       PROVE  FreshInv'
  BY <1>22 DEF SortInv, StageInv, FreshInv, EditSession, At, Lateness
<1> QED
  BY <1>1, <1>2, <1>3, <1>4, <1>5, <1>6, <1>7, <1>8, <1>9, <1>10, <1>11, <1>12, <1>13,
     <1>14, <1>15, <1>16, <1>17, <1>18, <1>19, <1>20, <1>21, <1>22
     DEF Next, Proceed, Refuse, Refused, Raise, RollbackLate, At

\* Replaced tokens do not come back by themselves (a commit writes a token no client
\* has), and a closed session opens only with such a token; an administrator may undo
\* all three, and then the request is late no more: the check that stops a late
\* request is still ahead of it.
LEMMA LateInvStep == AuthInv /\ [Next]_vars => LateInv'
<1> SUFFICES ASSUME AuthInv, [Next]_vars
             PROVE  LateInv'
  OBVIOUS
<1> USE DEF AuthInv, AtItsEnd
<1>1. ASSUME NEW r \in Requests, BeginSignIn(r)
      PROVE  LateInv'
  BY <1>1 DEF SortInv, LateInv, BeginSignIn, Begin, At, database
<1>2. ASSUME NEW r \in Requests, BeginRefresh(r)
      PROVE  LateInv'
  BY <1>2 DEF SortInv, LateInv, BeginRefresh, Begin, At, database
<1>3. ASSUME NEW r \in Requests, BeginSignOut(r)
      PROVE  LateInv'
  BY <1>3 DEF SortInv, LateInv, BeginSignOut, Begin, At, database
<1>4. ASSUME NEW r \in Requests, BeginProfile(r)
      PROVE  LateInv'
  BY <1>4 DEF SortInv, LateInv, BeginProfile, Begin, At, database
<1>5. ASSUME NEW r \in Requests, FindUser(r)
      PROVE  LateInv'
  BY <1>5 DEF LateInv, FindUser, Goto, Reads, UserFound, At, database,
      history
<1>6. ASSUME NEW r \in Requests, FindSession(r)
      PROVE  LateInv'
  BY <1>6 DEF LateInv, FindSession, Goto, Reads, At, database, history
<1>7. ASSUME NEW r \in Requests, Match(r)
      PROVE  LateInv'
  BY <1>7 DEF LateInv, Match, Goto, Reads, Found, At, database, history
<1>8. ASSUME NEW r \in Requests, Reread(r)
      PROVE  LateInv'
  BY <1>8 DEF SortInv, LateInv, Reread, Goto, At, database, history
<1>9. ASSUME NEW r \in Requests, Update(r)
      PROVE  LateInv'
  BY <1>9 DEF SortInv, LateInv, Update, At, history
<1>10. ASSUME NEW r \in Requests, Create(r)
       PROVE  LateInv'
  BY <1>10 DEF SortInv, LateInv, Create
<1>11. ASSUME NEW r \in Requests, FindToClose(r)
       PROVE  LateInv'
  BY <1>11 DEF LateInv, FindToClose, Goto, Reads, At, database, history
<1>12. ASSUME NEW r \in Requests, SetInactive(r)
       PROVE  LateInv'
  BY <1>12 DEF SortInv, LateInv, SetInactive, At, history
<1>13. ASSUME NEW r \in Requests, Rollback(r)
       PROVE  LateInv'
  BY <1>13 DEF SortInv, LateInv, Rollback, End, At
<1>14. ASSUME NEW r \in Requests, Commit(r)
       PROVE  LateInv'
  <2>1. \A q \in Requests : /\ req'[q].op = req[q].op
                            /\ req'[q].session = req[q].session
                            /\ req'[q].presented = req[q].presented
                            /\ q # r => req'[q].at = req[q].at
    BY <1>14 DEF SortInv, Commit, Written, Goto
  <2>2. ASSUME NEW q \in Requests, q # r, req[q].op = "refresh",
               token[req[q].session] # req[q].presented
        PROVE  token'[req[q].session] # req[q].presented
    <3>1. req[r].fresh # req[q].presented
      BY <2>2 DEF StageInv, FreshInv
    <3> QED
      BY <1>14, <2>2, <3>1 DEF SortInv, Commit, Written
  <2>3. ASSUME NEW q \in Requests, q # r, req[q].op = "refresh",
               req[q].session \notin open
        PROVE  \/ req[q].session \notin open'
               \/ token'[req[q].session] # req[q].presented
    <3>1. req[r].fresh # req[q].presented /\ req[q].session \in Sessions
      BY <2>3 DEF SortInv, StageInv, FreshInv
    <3> QED
      BY <1>14, <2>3, <3>1 DEF SortInv, Commit, Written
  <2>4. ~("disabled" \in late[r])
    BY <1>14 DEF LateInv, Commit, Written, At
  <2>5. req[r].op = "refresh" => "replaced" \notin late[r] /\ "closed" \notin late[r]
    BY <1>14 DEF LateInv, Commit, Written, At
  <2>6. late' = late /\ account' = account
    BY <1>14 DEF Commit, Written
  <2> QED
    BY <2>1, <2>2, <2>3, <2>4, <2>5, <2>6 DEF LateInv, At
<1>15. ASSUME NEW r \in Requests, Respond(r)
       PROVE  LateInv'
  BY <1>15 DEF LateInv, Respond, End, Idle, At, database
<1>16. ASSUME NEW r \in Requests, ResponseLost(r)
       PROVE  LateInv'
  BY <1>16 DEF LateInv, ResponseLost, End, Idle, At, database
<1>17. ASSUME NEW r \in Requests, CommitBreaks(r)
       PROVE  LateInv'
  BY <1>17 DEF SortInv, LateInv, CommitBreaks, Goto, Reads, At, Stages, database, history
<1>18. ASSUME NEW r \in Requests, CommitLate(r)
       PROVE  LateInv'
  <2>1. req' = [req EXCEPT ![r] = Idle] /\ late' = [late EXCEPT ![r] = {}]
    BY <1>18 DEF CommitLate, End
  <2>2. account' = account
    BY <1>18 DEF CommitLate, Written
  <2>3. ASSUME NEW q \in Requests, q # r, req[q].op = "refresh"
        PROVE  LET s == req[q].session IN
               /\ token[s] # req[q].presented => token'[s] # req[q].presented
               /\ s \notin open => s \notin open' \/ token'[s] # req[q].presented
    <3>1. req[r].fresh # req[q].presented /\ req[q].session \in Sessions
      BY <2>3 DEF SortInv, StageInv, FreshInv
    <3> QED
      BY <1>18, <2>3, <3>1 DEF SortInv, CommitLate, Written
  <2>4. ASSUME NEW q \in Requests, q # r
        PROVE  req'[q] = req[q] /\ late'[q] = late[q]
    BY <2>1, <2>4 DEF SortInv
  <2>5. late'[r] = {}
    BY <2>1 DEF SortInv
  <2> QED
    BY <2>2, <2>3, <2>4, <2>5 DEF LateInv, At
<1>19. ASSUME NEW r \in Requests, CloseFails(r)
       PROVE  LateInv'
  BY <1>19 DEF SortInv, LateInv, CloseFails, End, Idle, At, Issued, Operations, Stages, database
<1>20. ASSUME Disable
       PROVE  LateInv'
  BY <1>20 DEF LateInv, Disable, At, history
<1>21. ASSUME DeleteAccount
       PROVE  LateInv'
  <2>1. ASSUME NEW q \in Requests, req[q].op = "refresh"
        PROVE  token'[req[q].session] # req[q].presented
    BY <1>21, <2>1 DEF SortInv, StageInv, FreshInv, DeleteAccount
  <2> QED
    BY <1>21, <2>1 DEF LateInv, DeleteAccount, At, history
<1>22. CASE UNCHANGED vars
  BY <1>22 DEF LateInv, vars, database, history, At
<1>23. ASSUME Enable
       PROVE  LateInv'
  BY <1>23 DEF SortInv, LateInv, Enable, At, Lateness
<1>24. ASSUME NEW s \in Sessions, EditSession(s)
       PROVE  LateInv'
  BY <1>24 DEF SortInv, LateInv, EditSession, At, Lateness
<1> QED
  BY <1>1, <1>2, <1>3, <1>4, <1>5, <1>6, <1>7, <1>8, <1>9, <1>10, <1>11, <1>12, <1>13,
     <1>14, <1>15, <1>16, <1>17, <1>18, <1>19, <1>20, <1>21, <1>22, <1>23, <1>24
     DEF Next, Proceed, Refuse, Refused, Raise, RollbackLate, At

\* As long as the account is there no row goes, so an update finds its row and
\* its token is committed before it is given out.
LEMMA CommitInvStep == AuthInv /\ [Next]_vars => CommitInv'
<1> SUFFICES ASSUME AuthInv, [Next]_vars
             PROVE  CommitInv'
  OBVIOUS
<1> USE DEF AuthInv, AtItsEnd
<1>1. ASSUME NEW r \in Requests, BeginSignIn(r)
      PROVE  CommitInv'
  BY <1>1 DEF CommitInv, BeginSignIn, Begin, At, database
<1>2. ASSUME NEW r \in Requests, BeginRefresh(r)
      PROVE  CommitInv'
  BY <1>2 DEF CommitInv, BeginRefresh, Begin, At, database
<1>3. ASSUME NEW r \in Requests, BeginSignOut(r)
      PROVE  CommitInv'
  BY <1>3 DEF CommitInv, BeginSignOut, Begin, At, database
<1>4. ASSUME NEW r \in Requests, BeginProfile(r)
      PROVE  CommitInv'
  BY <1>4 DEF CommitInv, BeginProfile, Begin, At, database
<1>5. ASSUME NEW r \in Requests, FindUser(r)
      PROVE  CommitInv'
  BY <1>5 DEF CommitInv, FindUser, Goto, Reads, At, database, history
<1>6. ASSUME NEW r \in Requests, FindSession(r)
      PROVE  CommitInv'
  BY <1>6 DEF SortInv, StageInv, CommitInv, FindSession, Goto, Reads, At,
      database, history
<1>7. ASSUME NEW r \in Requests, Match(r)
      PROVE  CommitInv'
  BY <1>7 DEF CommitInv, Match, Goto, Reads, At, database, history
<1>8. ASSUME NEW r \in Requests, Reread(r)
      PROVE  CommitInv'
  <2>1. account # "gone" => req[r].session \in rows
    BY <1>8 DEF StageInv, CommitInv, Reread
  <2>2. account' = account /\ rows' = rows /\ committed' = committed /\ delivered' = delivered
    BY <1>8 DEF Reread, database, history
  <2>3. account # "gone" =>
          req' = [req EXCEPT ![r].at = "update", ![r].fresh = made + 1]
    BY <1>8, <2>1 DEF Reread
  <2> QED
    BY <2>2, <2>3 DEF SortInv, CommitInv, At
<1>9. ASSUME NEW r \in Requests, Update(r)
      PROVE  CommitInv'
  <2>1. account # "gone" => req[r].session \in rows
    BY <1>9 DEF StageInv, CommitInv, Update
  <2>2. account' = account /\ rows' = rows /\ committed' = committed /\ delivered' = delivered
    BY <1>9 DEF Update, history
  <2>3. account # "gone" =>
          req' = [req EXCEPT ![r].at = "commit", ![r].writes = TRUE]
    BY <1>9, <2>1 DEF Update
  <2> QED
    BY <2>2, <2>3 DEF SortInv, CommitInv, At
<1>10. ASSUME NEW r \in Requests, Create(r)
       PROVE  CommitInv'
  BY <1>10 DEF SortInv, CommitInv, Create
<1>11. ASSUME NEW r \in Requests, FindToClose(r)
       PROVE  CommitInv'
  BY <1>11 DEF SortInv, StageInv, CommitInv, FindToClose, Goto, Reads, At,
      database, history
<1>12. ASSUME NEW r \in Requests, SetInactive(r)
       PROVE  CommitInv'
  BY <1>12 DEF SortInv, CommitInv, SetInactive, At, history
<1>13. ASSUME NEW r \in Requests, Rollback(r)
       PROVE  CommitInv'
  BY <1>13 DEF CommitInv, Rollback, End, Idle, At
<1>14. ASSUME NEW r \in Requests, Commit(r)
       PROVE  CommitInv'
  BY <1>14 DEF CommitInv, Commit, Written, Goto, At
<1>15. ASSUME NEW r \in Requests, Respond(r)
       PROVE  CommitInv'
  BY <1>15 DEF CommitInv, Respond, End, Issued, Idle, At, database
<1>16. ASSUME NEW r \in Requests, ResponseLost(r)
       PROVE  CommitInv'
  BY <1>16 DEF CommitInv, ResponseLost, End, Idle, At, database
<1>17. ASSUME NEW r \in Requests, CommitBreaks(r)
       PROVE  CommitInv'
  BY <1>17 DEF SortInv, CommitInv, CommitBreaks, Goto, Reads, At, Stages, database, history
<1>18. ASSUME NEW r \in Requests, CommitLate(r)
       PROVE  CommitInv'
  BY <1>18 DEF SortInv, CommitInv, CommitLate, Written, End, Idle, At, Issued, Operations, Stages
<1>19. ASSUME NEW r \in Requests, CloseFails(r)
       PROVE  CommitInv'
  BY <1>19 DEF SortInv, CommitInv, CloseFails, End, Idle, At, Issued, Operations, Stages, database
<1>20. CASE Disable \/ DeleteAccount \/ UNCHANGED vars
  BY <1>20 DEF CommitInv, Disable, DeleteAccount, vars, At, database, history
<1>21. ASSUME Enable
       PROVE  CommitInv'
  BY <1>21 DEF SortInv, CommitInv, Enable, At, Lateness
<1>22. ASSUME NEW s \in Sessions, EditSession(s)
       PROVE  CommitInv'
  BY <1>22 DEF SortInv, CommitInv, EditSession, At, Lateness
<1> QED
  BY <1>1, <1>2, <1>3, <1>4, <1>5, <1>6, <1>7, <1>8, <1>9, <1>10, <1>11, <1>12, <1>13,
     <1>14, <1>15, <1>16, <1>17, <1>18, <1>19, <1>20, <1>21, <1>22
     DEF Next, Proceed, Refuse, Refused, Raise, RollbackLate, At

\* A row is written with a token that was made, or was committed before, for a
\* session that has an id.
LEMMA RowsInvStep == AuthInv /\ SortInv' /\ [Next]_vars => RowsInv'
<1> SUFFICES ASSUME AuthInv, SortInv', [Next]_vars
             PROVE  RowsInv'
  OBVIOUS
<1> USE AuthAssumption DEF AuthInv, At, AtItsEnd, Goto, SortInv, StageInv, FreshInv, RowsInv
<1>1. ASSUME NEW r \in Requests, BeginSignIn(r)
      PROVE  RowsInv'
  BY <1>1 DEF BeginSignIn, Begin, database
<1>2. ASSUME NEW r \in Requests, BeginRefresh(r)
      PROVE  RowsInv'
  BY <1>2 DEF BeginRefresh, Begin, database
<1>3. ASSUME NEW r \in Requests, BeginSignOut(r)
      PROVE  RowsInv'
  BY <1>3 DEF BeginSignOut, Begin, database
<1>4. ASSUME NEW r \in Requests, BeginProfile(r)
      PROVE  RowsInv'
  BY <1>4 DEF BeginProfile, Begin, database
<1>5. ASSUME NEW r \in Requests, FindUser(r)
      PROVE  RowsInv'
  BY <1>5 DEF FindUser, Reads, database, history
<1>6. ASSUME NEW r \in Requests, FindSession(r)
      PROVE  RowsInv'
  BY <1>6 DEF FindSession, Reads, database, history
<1>7. ASSUME NEW r \in Requests, Match(r)
      PROVE  RowsInv'
  BY <1>7 DEF Match, Reads, database, history
<1>8. ASSUME NEW r \in Requests, Reread(r)
      PROVE  RowsInv'
  <2>1. made' \in Nat /\ made <= made'
    BY <1>8 DEF Reread
  <2>2. UNCHANGED <<rows, open, token, writer, lost, unsent, committed>>
    BY <1>8 DEF Reread, database, history
  <2>3. \A q \in Requests : req'[q].presented = req[q].presented
    BY <1>8 DEF Reread
  <2>4. \A q \in Requests : req[q].presented \in Nat
    OBVIOUS
  <2> QED
    BY <2>1, <2>2, <2>3, <2>4
<1>9. ASSUME NEW r \in Requests, Update(r)
      PROVE  RowsInv'
  BY <1>9 DEF Update, history
<1>10. ASSUME NEW r \in Requests, Create(r)
      PROVE  RowsInv'
  BY <1>10 DEF Create, history
<1>11. ASSUME NEW r \in Requests, FindToClose(r)
      PROVE  RowsInv'
  BY <1>11 DEF FindToClose, Reads, database, history
<1>12. ASSUME NEW r \in Requests, SetInactive(r)
      PROVE  RowsInv'
  BY <1>12 DEF SetInactive, history
<1>13. ASSUME NEW r \in Requests, ~At(r, "respond"), Rollback(r)
      PROVE  RowsInv'
  BY <1>13 DEF Rollback, End, Unlock, Idle
<1>14. ASSUME NEW r \in Requests, Commit(r)
      PROVE  RowsInv'
  BY <1>14 DEF Commit, Written, Unlock
<1>15. ASSUME NEW r \in Requests, Respond(r)
      PROVE  RowsInv'
  BY <1>15 DEF Respond, End, Issued, Idle, database
<1>16. ASSUME NEW r \in Requests, AtItsEnd(r)
       PROVE  Issued(r) \subseteq Sessions \X (1 .. made)
  <2>1. req[r].session \in Sessions
    BY <1>16
  <2>2. req[r].fresh \in Nat /\ req[r].fresh <= made /\ made \in Nat
    OBVIOUS
  <2>3. CASE req[r].fresh = 0
    BY <2>3 DEF Issued
  <2>4. CASE req[r].fresh # 0
    BY <2>1, <2>2, <2>4 DEF Issued
  <2> QED
    BY <2>3, <2>4
<1>17. ASSUME NEW r \in Requests, CommitBreaks(r)
       PROVE  RowsInv'
  BY <1>17 DEF CommitBreaks, Reads, database, history
<1>18. ASSUME NEW r \in Requests, CommitLate(r)
       PROVE  RowsInv'
  <2>1. unsent' \subseteq Sessions \X (1 .. made')
    <3>1. Issued(r) \subseteq Sessions \X (1 .. made)
      BY <1>16, <1>18 DEF CommitLate
    <3> QED
      BY <1>18, <3>1 DEF CommitLate, Written
  <2>2. \A q \in Requests : req'[q].presented <= made'
    BY <1>18 DEF CommitLate, Written, End, Idle
  <2>3. req[r].fresh \in Nat /\ req[r].fresh <= made /\ made \in Nat
    OBVIOUS
  <2>4. CASE ~(req[r].writes /\ req[r].fresh # 0)
    <3>1. /\ UNCHANGED <<rows, token, committed, made, lost>>
          /\ open' \subseteq open
      BY <1>18, <2>4 DEF CommitLate, Written
    <3>2. writer' \in [Sessions -> Requests \cup {NoRequest}]
      BY <1>18 DEF CommitLate, Written, Unlock
    <3> QED
      BY <2>1, <2>2, <3>1, <3>2
  <2>5. CASE req[r].writes /\ req[r].fresh # 0
    BY <1>18, <2>1, <2>2, <2>3, <2>5 DEF CommitLate, Written, Unlock
  <2> QED
    BY <2>4, <2>5
<1>19. ASSUME NEW r \in Requests, ResponseLost(r) \/ CloseFails(r)
       PROVE  RowsInv'
  <2>1. Issued(r) \subseteq Sessions \X (1 .. made)
    BY <1>16, <1>19 DEF ResponseLost, CloseFails
  <2>2. lost' \subseteq Sessions \X (1 .. made) /\ unsent' \subseteq Sessions \X (1 .. made)
    BY <1>19, <2>1 DEF ResponseLost, CloseFails
  <2>3. UNCHANGED <<rows, open, token, writer, made, committed>>
    BY <1>19 DEF ResponseLost, CloseFails, database
  <2>4. \A q \in Requests : req'[q].presented <= made
    BY <1>19 DEF ResponseLost, CloseFails, End, Idle
  <2> QED
    BY <2>2, <2>3, <2>4
<1>20. ASSUME Disable
      PROVE  RowsInv'
  BY <1>20 DEF Disable, database, history
<1>21. ASSUME DeleteAccount
      PROVE  RowsInv'
  BY <1>21 DEF DeleteAccount, database, history
<1>22. ASSUME UNCHANGED vars
      PROVE  RowsInv'
  BY <1>22 DEF vars, database, history
<1>23. ASSUME Enable
       PROVE  RowsInv'
  BY <1>23 DEF Enable, At, Lateness
<1>24. ASSUME NEW s \in Sessions, EditSession(s)
       PROVE  RowsInv'
  BY <1>24 DEF EditSession, At, Lateness
<1> QED
  BY <1>1, <1>2, <1>3, <1>4, <1>5, <1>6, <1>7, <1>8, <1>9, <1>10, <1>11, <1>12, <1>13,
     <1>14, <1>15, <1>17, <1>18, <1>19, <1>20, <1>21, <1>22, <1>23, <1>24
     DEF Next, Proceed, Refuse, Refused, Raise, RollbackLate, At

\* Who commits a token is about to respond with it; it is sent, or an error is.
LEMMA OwnerInvStep == AuthInv /\ SortInv' /\ [Next]_vars => OwnerInv'
<1> SUFFICES ASSUME AuthInv, SortInv', [Next]_vars
             PROVE  OwnerInv'
  OBVIOUS
<1> USE AuthAssumption DEF AuthInv, At, Goto, SortInv, OwnerInv
<1>1. ASSUME NEW r \in Requests, BeginSignIn(r)
      PROVE  OwnerInv'
  BY <1>1 DEF BeginSignIn, Begin, database
<1>2. ASSUME NEW r \in Requests, BeginRefresh(r)
      PROVE  OwnerInv'
  BY <1>2 DEF BeginRefresh, Begin, database
<1>3. ASSUME NEW r \in Requests, BeginSignOut(r)
      PROVE  OwnerInv'
  BY <1>3 DEF BeginSignOut, Begin, database
<1>4. ASSUME NEW r \in Requests, BeginProfile(r)
      PROVE  OwnerInv'
  BY <1>4 DEF BeginProfile, Begin, database
<1>5. ASSUME NEW r \in Requests, FindUser(r)
      PROVE  OwnerInv'
  BY <1>5 DEF FindUser, Reads, database, history
<1>6. ASSUME NEW r \in Requests, FindSession(r)
      PROVE  OwnerInv'
  BY <1>6 DEF FindSession, Reads, database, history
<1>7. ASSUME NEW r \in Requests, Match(r)
      PROVE  OwnerInv'
  BY <1>7 DEF Match, Reads, database, history
<1>8. ASSUME NEW r \in Requests, Reread(r)
      PROVE  OwnerInv'
  BY <1>8 DEF Reread, database, history
<1>9. ASSUME NEW r \in Requests, Update(r)
      PROVE  OwnerInv'
  BY <1>9 DEF Update, history
<1>10. ASSUME NEW r \in Requests, Create(r)
      PROVE  OwnerInv'
  BY <1>10 DEF Create, history
<1>11. ASSUME NEW r \in Requests, FindToClose(r)
      PROVE  OwnerInv'
  BY <1>11 DEF FindToClose, Reads, database, history
<1>12. ASSUME NEW r \in Requests, SetInactive(r)
      PROVE  OwnerInv'
  BY <1>12 DEF SetInactive, history
<1>13. ASSUME NEW r \in Requests, ~At(r, "respond"), Rollback(r)
      PROVE  OwnerInv'
  BY <1>13 DEF Rollback, End, Unlock, Idle
<1>14. ASSUME NEW r \in Requests, Commit(r)
      PROVE  OwnerInv'
  BY <1>14 DEF Commit, Written, Unlock
<1>15. ASSUME NEW r \in Requests, At(r, "commit") \/ At(r, "unknown"), Written(r)
       PROVE  committed' \subseteq committed \cup Issued(r)
  BY <1>15 DEF Written, Issued
<1>16. ASSUME NEW r \in Requests, Respond(r) \/ ResponseLost(r) \/ CloseFails(r) \/ CommitLate(r)
      PROVE  OwnerInv'
  <2>1. committed' \subseteq committed \cup Issued(r)
    BY <1>15, <1>16 DEF Respond, ResponseLost, CloseFails, CommitLate
  <2>2. /\ delivered \cup lost \cup unsent \subseteq delivered' \cup lost' \cup unsent'
        /\ Issued(r) \subseteq delivered' \cup lost' \cup unsent'
    BY <1>16 DEF Respond, ResponseLost, CloseFails, CommitLate
  <2>3. \A q \in Requests \ {r} : req'[q] = req[q]
    BY <1>16 DEF Respond, ResponseLost, CloseFails, CommitLate, End
  <2> SUFFICES ASSUME NEW d \in committed', d \notin delivered' \cup lost' \cup unsent'
               PROVE  \E q \in Requests : /\ req'[q].at = "respond"
                                         /\ req'[q].session = d[1]
                                         /\ req'[q].fresh = d[2]
    OBVIOUS
  <2>4. d \in committed /\ d \notin Issued(r) /\ d \notin delivered \cup lost \cup unsent
    BY <2>1, <2>2
  <2>5. PICK q \in Requests : At(q, "respond") /\ req[q].session = d[1] /\ req[q].fresh = d[2]
    BY <2>4
  <2>6. q # r
    <3>1. d = <<d[1], d[2]>> /\ d[2] # 0
      BY <2>4 DEF RowsInv
    <3> QED
      BY <2>4, <2>5, <3>1 DEF Issued
  <2> QED
    BY <2>3, <2>5, <2>6
<1>17. ASSUME NEW r \in Requests, CommitBreaks(r)
       PROVE  OwnerInv'
  BY <1>17 DEF CommitBreaks, Reads, database, history
<1>20. ASSUME Disable
      PROVE  OwnerInv'
  BY <1>20 DEF Disable, database, history
<1>21. ASSUME DeleteAccount
      PROVE  OwnerInv'
  BY <1>21 DEF DeleteAccount, database, history
<1>22. ASSUME UNCHANGED vars
      PROVE  OwnerInv'
  BY <1>22 DEF vars, database, history
<1>23. ASSUME Enable
       PROVE  OwnerInv'
  BY <1>23 DEF Enable, At, Lateness
<1>24. ASSUME NEW s \in Sessions, EditSession(s)
       PROVE  OwnerInv'
  BY <1>24 DEF EditSession, At, Lateness
<1> QED
  BY <1>1, <1>2, <1>3, <1>4, <1>5, <1>6, <1>7, <1>8, <1>9, <1>10, <1>11, <1>12, <1>13,
     <1>14, <1>16, <1>17, <1>20, <1>21, <1>22, <1>23, <1>24
     DEF Next, Proceed, Refuse, Refused, Raise, RollbackLate, At

\* A lock is taken by the last query of a handler, and given back with the end of its
\* transaction.
LEMMA LocksStep == AuthInv /\ LocksAreLive /\ [Next]_vars => LocksAreLive'
<1> SUFFICES ASSUME AuthInv, LocksAreLive, [Next]_vars
             PROVE  LocksAreLive'
  OBVIOUS
<1> DEFINE OthersKept(r) == \A q \in Requests \ {r} : req'[q] = req[q]
           Ending(r) == req'[r].at \in {"commit", "unknown"}
<1>1. /\ writer \in [Sessions -> Requests \cup {NoRequest}]
      /\ \A s \in Sessions : writer[s] # NoRequest =>
            writer[s] \in Requests /\ req[writer[s]].at \in {"commit", "unknown"}
  BY DEF AuthInv, RowsInv, LocksAreLive, At
<1>2. ASSUME NEW r \in Requests, OthersKept(r), UNCHANGED writer,
             At(r, "commit") \/ At(r, "unknown") => Ending(r)
      PROVE  LocksAreLive'
  BY <1>1, <1>2 DEF LocksAreLive, At
<1>3. ASSUME NEW r \in Requests, NEW s \in Sessions, OthersKept(r), Ending(r),
             writer' = [writer EXCEPT ![s] = r]
      PROVE  LocksAreLive'
  BY <1>1, <1>3 DEF LocksAreLive, At
<1>4. ASSUME NEW r \in Requests, OthersKept(r), Unlock(r)
      PROVE  LocksAreLive'
  BY <1>1, <1>4 DEF LocksAreLive, Unlock, At
<1>5. ASSUME UNCHANGED writer, \A q \in Requests : req'[q] = req[q]
      PROVE  LocksAreLive'
  BY <1>1, <1>5 DEF LocksAreLive, At
<1> USE DEF AuthInv, SortInv
<1>6. ASSUME NEW r \in Requests,
             \/ BeginSignIn(r) \/ BeginRefresh(r) \/ BeginSignOut(r) \/ BeginProfile(r)
      PROVE  LocksAreLive'
  BY <1>2, <1>6 DEF BeginSignIn, BeginRefresh, BeginSignOut, BeginProfile, Begin, At, database
<1>7. ASSUME NEW r \in Requests,
             \/ FindUser(r) \/ FindSession(r) \/ Match(r) \/ FindToClose(r) \/ CommitBreaks(r)
      PROVE  LocksAreLive'
  BY <1>2, <1>7 DEF FindUser, FindSession, Match, FindToClose, CommitBreaks, Goto, Reads,
                    At, database
<1>8. ASSUME NEW r \in Requests, Reread(r)
      PROVE  LocksAreLive'
  BY <1>2, <1>8 DEF Reread, Goto, At, database
<1>9. ASSUME NEW r \in Requests, Update(r)
      PROVE  LocksAreLive'
  <2>1. OthersKept(r) /\ Ending(r) /\ ~At(r, "commit") /\ ~At(r, "unknown")
    BY <1>9 DEF Update, At
  <2>2. req[r].session \in Sessions
    BY <1>9 DEF Update, StageInv, AtItsEnd, At
  <2> QED
    BY <1>2, <1>3, <1>9, <2>1, <2>2 DEF Update
<1>10. ASSUME NEW r \in Requests, Create(r)
       PROVE  LocksAreLive'
  BY <1>3, <1>10 DEF Create
<1>11. ASSUME NEW r \in Requests, SetInactive(r)
       PROVE  LocksAreLive'
  <2>1. req[r].session \in Sessions
    BY <1>11 DEF SetInactive, StageInv, AtItsEnd, At
  <2> QED
    BY <1>3, <1>11, <2>1 DEF SetInactive
<1>12. ASSUME NEW r \in Requests, Rollback(r) \/ Commit(r) \/ CommitLate(r)
       PROVE  LocksAreLive'
  BY <1>4, <1>12 DEF Rollback, Commit, CommitLate, Written, End, Goto
<1>13. ASSUME NEW r \in Requests, Respond(r) \/ ResponseLost(r) \/ CloseFails(r)
       PROVE  LocksAreLive'
  BY <1>2, <1>13 DEF Respond, ResponseLost, CloseFails, End, At, database
<1>14. CASE \/ Disable \/ Enable \/ DeleteAccount \/ UNCHANGED vars
            \/ \E s \in Sessions : EditSession(s)
  BY <1>5, <1>14 DEF Disable, Enable, DeleteAccount, EditSession, vars, database
<1> QED
  BY <1>6, <1>7, <1>8, <1>9, <1>10, <1>11, <1>12, <1>13, <1>14
     DEF Next, Proceed, Refuse, Raise, RollbackLate

\* How many tokens are still to be made.
LEMMA FewerToMake ==
    ASSUME AuthInv, NEW W, W = {q \in Requests : WillMake(q)}, NEW V \in SUBSET W
    PROVE  made + Cardinality(V) <= MaxTokens
<1>1. IsFiniteSet(W) /\ IsFiniteSet(V)
  BY AuthAssumption, FS_Subset
<1>2. Cardinality(V) <= Cardinality(W) /\ Cardinality(V) \in Nat /\ Cardinality(W) \in Nat
  BY <1>1, FS_Subset, FS_CardinalityType
<1> QED
  BY <1>2, AuthAssumption DEF AuthInv, SortInv, BoundInv

LEMMA OneMoreToMake ==
    ASSUME AuthInv, MayMake, NEW W, W = {q \in Requests : WillMake(q)}, NEW r,
           NEW V \in SUBSET (W \cup {r})
    PROVE  made + Cardinality(V) <= MaxTokens
<1>1. IsFiniteSet(W)
  BY AuthAssumption, FS_Subset
<1>2. /\ IsFiniteSet(W \cup {r})
      /\ Cardinality(W \cup {r}) = IF r \in W THEN Cardinality(W) ELSE Cardinality(W) + 1
  BY <1>1, FS_AddElement
<1>3. Cardinality(V) <= Cardinality(W \cup {r}) /\ IsFiniteSet(V)
  BY <1>2, FS_Subset
<1>4. Cardinality(V) \in Nat /\ Cardinality(W) \in Nat
  BY <1>1, <1>3, FS_CardinalityType
<1>5. made + Cardinality(W) < MaxTokens
  BY DEF MayMake
<1>6. made \in Nat /\ MaxTokens \in Nat
  BY AuthAssumption DEF AuthInv, SortInv
<1> QED
  BY <1>2, <1>3, <1>4, <1>5, <1>6

LEMMA OneIsMade ==
    ASSUME AuthInv, NEW W, W = {q \in Requests : WillMake(q)}, NEW r \in W,
           NEW V \in SUBSET (W \ {r})
    PROVE  made + 1 + Cardinality(V) <= MaxTokens
<1>1. IsFiniteSet(W)
  BY AuthAssumption, FS_Subset
<1>2. IsFiniteSet(W \ {r}) /\ Cardinality(W \ {r}) = Cardinality(W) - 1
  BY <1>1, FS_RemoveElement
<1>3. Cardinality(V) <= Cardinality(W \ {r}) /\ IsFiniteSet(V)
  BY <1>2, FS_Subset
<1>4. Cardinality(V) \in Nat /\ Cardinality(W) \in Nat
  BY <1>1, <1>3, FS_CardinalityType
<1>5. made + Cardinality(W) <= MaxTokens
  BY DEF AuthInv, BoundInv
<1>6. made \in Nat /\ MaxTokens \in Nat
  BY AuthAssumption DEF AuthInv, SortInv
<1> QED
  BY <1>2, <1>3, <1>4, <1>5, <1>6

\* A request that may make a token begins only when there is a number for it, and
\* makes one at most.
LEMMA BoundInvStep == AuthInv /\ SortInv' /\ [Next]_vars => BoundInv'
<1> SUFFICES ASSUME AuthInv, SortInv', [Next]_vars
             PROVE  BoundInv'
  OBVIOUS
<1> DEFINE W == {q \in Requests : WillMake(q)}
<1>1. ASSUME NEW r \in Requests, BeginSignIn(r) \/ BeginRefresh(r)
      PROVE  BoundInv'
  <2>1. W' \in SUBSET (W \cup {r}) /\ made' = made
    BY <1>1 DEF AuthInv, SortInv, BeginSignIn, BeginRefresh, Begin, WillMake
  <2>2. MayMake
    BY <1>1 DEF BeginSignIn, BeginRefresh
  <2>3. made + Cardinality(W') <= MaxTokens
    BY <2>1, <2>2, OneMoreToMake
  <2> QED
    BY <2>1, <2>3 DEF BoundInv
<1>2. ASSUME NEW r \in Requests, r \in W, W' \in SUBSET (W \ {r}), made' = made + 1
      PROVE  BoundInv'
  <2>1. made + 1 + Cardinality(W') <= MaxTokens
    BY <1>2, OneIsMade
  <2> QED
    BY <1>2, <2>1 DEF BoundInv
<1>3. ASSUME W' \in SUBSET W, made' = made
      PROVE  BoundInv'
  <2>1. made + Cardinality(W') <= MaxTokens
    BY <1>3, FewerToMake
  <2> QED
    BY <1>3, <2>1 DEF BoundInv
<1>4. ASSUME NEW r \in Requests, Reread(r) \/ Create(r)
      PROVE  BoundInv'
  <2>1. r \in W
    BY <1>4 DEF AuthInv, SortInv, StageInv, Reread, Create, At, AtItsEnd, WillMake
  <2>2. CASE Reread(r) /\ req[r].session \notin rows
    <3>1. W' \in SUBSET W /\ made' = made
      BY <2>2 DEF AuthInv, SortInv, Reread, Goto, WillMake
    <3> QED
      BY <3>1, <1>3
  <2>3. CASE Create(r) \/ req[r].session \in rows
    <3>1. made' = made + 1 /\ made \in Nat
      BY <1>4, <2>3 DEF AuthInv, SortInv, Reread, Create
    <3>2. req'[r].fresh = made + 1 /\ \A q \in Requests \ {r} : req'[q] = req[q]
      <4>1. CASE Create(r)
        BY <4>1 DEF AuthInv, SortInv, Create
      <4>2. CASE Reread(r) /\ req[r].session \in rows
        BY <4>2 DEF AuthInv, SortInv, Reread
      <4> QED
        BY <1>4, <2>3, <4>1, <4>2
    <3>3. W' \in SUBSET (W \ {r})
      BY <3>1, <3>2 DEF WillMake
    <3> QED
      BY <1>2, <2>1, <3>1, <3>3
  <2> QED
    BY <1>4, <2>2, <2>3
<1>5. ASSUME NEW r \in Requests, BeginSignOut(r) \/ BeginProfile(r)
      PROVE  W' \in SUBSET W /\ made' = made
  BY <1>5 DEF AuthInv, SortInv, BeginSignOut, BeginProfile, Begin, WillMake
<1>6. ASSUME NEW r \in Requests,
             \/ FindUser(r) \/ FindSession(r) \/ Match(r) \/ Update(r) \/ FindToClose(r)
             \/ SetInactive(r) \/ Commit(r) \/ CommitBreaks(r)
      PROVE  W' \in SUBSET W /\ made' = made
  <2>1. made' = made
    BY <1>6 DEF FindUser, FindSession, Match, Update, FindToClose, SetInactive, Commit,
                Written, CommitBreaks, Reads
  <2>2. \A q \in Requests : req'[q].op = req[q].op /\ req'[q].fresh = req[q].fresh
    BY <1>6 DEF AuthInv, SortInv, FindUser, FindSession, Match, Update, FindToClose,
                SetInactive, Commit, CommitBreaks, Goto
  <2> QED
    BY <2>1, <2>2 DEF WillMake
<1>7. ASSUME NEW r \in Requests,
             \/ Rollback(r) \/ Respond(r) \/ ResponseLost(r) \/ CloseFails(r) \/ CommitLate(r)
      PROVE  W' \in SUBSET W /\ made' = made
  <2>1. End(r) /\ made' = made
    BY <1>7 DEF Rollback, Respond, ResponseLost, CloseFails, CommitLate, Written
  <2> QED
    BY <2>1 DEF AuthInv, SortInv, End, Idle, WillMake
<1>8. ASSUME \/ Disable \/ Enable \/ DeleteAccount \/ UNCHANGED vars
             \/ \E s \in Sessions : EditSession(s)
      PROVE  W' \in SUBSET W /\ made' = made
  BY <1>8 DEF Disable, Enable, DeleteAccount, EditSession, vars, WillMake
<1> HIDE DEF W
<1> QED
  BY <1>1, <1>3, <1>4, <1>5, <1>6, <1>7, <1>8
     DEF Next, Proceed, Refuse, Raise, RollbackLate

\* No session, no request and no token: the invariant holds.
LEMMA AuthInvInit == Init => AuthInv
<1> SUFFICES ASSUME Init PROVE AuthInv
  OBVIOUS
<1>1. SortInv /\ StageInv /\ FreshInv /\ LateInv /\ CommitInv
  BY DEF Init, Idle, SortInv, StageInv, FreshInv, LateInv, CommitInv, At, Operations,
         Stages, Lateness
<1>2. RowsInv /\ OwnerInv
  BY DEF Init, Idle, RowsInv, OwnerInv
<1>3. {q \in Requests : WillMake(q)} = {}
  BY DEF Init, Idle, WillMake
<1>4. BoundInv
  BY <1>3, AuthAssumption, FS_EmptySet DEF Init, BoundInv
<1> QED
  BY <1>1, <1>2, <1>4 DEF AuthInv

\* In every behaviour a request is stopped by the check it came too late for:
\* the inductive invariant of sign-in, refresh, sign-out and the administrator.
THEOREM Invariant == Spec => []AuthInv
<1>1. AuthInv /\ [Next]_vars => AuthInv'
  BY SortInvStep, StageInvStep, FreshInvStep, LateInvStep, CommitInvStep, RowsInvStep,
     BoundInvStep, OwnerInvStep DEF AuthInv
<1> QED
  BY <1>1, AuthInvInit, PTL DEF Spec

\* A refresh token replaced before a refresh with it began buys nothing: the
\* comparison in RefreshTokenAPIView stops that refresh in every interleaving in
\* which no administrator puts the token back.
THEOREM ReplacedBuysNothing == Spec => []RotatedTokenIsDead
<1>1. AuthInv => RotatedTokenIsDead
  BY DEF AuthInv, StageInv, LateInv, RotatedTokenIsDead, At, AtItsEnd
<1> QED
  BY <1>1, Invariant, PTL

\* A session closed before a refresh of it began stays closed to that refresh,
\* although _update_session opens whatever session it finds, unless an administrator
\* opens it with the token that the refresh presents.
THEOREM ClosedStaysClosed == Spec => []ClosedToLateRefresh
<1>1. AuthInv => ClosedToLateRefresh
  BY DEF AuthInv, StageInv, LateInv, ClosedToLateRefresh, At, AtItsEnd
<1> QED
  BY <1>1, Invariant, PTL

\* A request that begins when the account is disabled or gone is given no tokens, by
\* whichever way it asks for them, unless an administrator enables the account before
\* the request has looked it up.
THEOREM DisabledIsLockedOut == Spec => []DisabledGetsNothing
<1>1. AuthInv => DisabledGetsNothing
  BY DEF AuthInv, StageInv, LateInv, DisabledGetsNothing, At, AtItsEnd
<1> QED
  BY <1>1, Invariant, PTL

\* While the account is there, every token a client was given was committed
\* before: the response is sent after the transaction of the request.
THEOREM CommittedBeforeGiven == Spec => []NothingUncommittedLeaks
<1>1. AuthInv => NothingUncommittedLeaks
  BY DEF AuthInv, CommitInv, NothingUncommittedLeaks
<1> QED
  BY <1>1, Invariant, PTL

\* The token an open session accepts is with a client, on its way to one, was sent and
\* lost, or is that of a request which was answered with an error after its COMMIT had
\* been sent: refreshes that overtake one another, rollbacks and the forms of an
\* administrator leave no session with any other token.
THEOREM OwnersOfSessions == Spec => []OpenSessionHasOwner
<1>1. AuthInv => OpenSessionHasOwner
  <2> SUFFICES ASSUME AuthInv, NEW s \in open,
                      <<s, token[s]>> \notin delivered \cup lost \cup unsent
               PROVE  \E r \in Requests : At(r, "respond") /\ <<s, token[s]>> \in Issued(r)
    BY DEF OpenSessionHasOwner
  <2>1. <<s, token[s]>> \in committed /\ token[s] # 0
    BY DEF AuthInv, SortInv, RowsInv
  <2>2. PICK r \in Requests : At(r, "respond") /\ req[r].session = s /\ req[r].fresh = token[s]
    BY <2>1 DEF AuthInv, OwnerInv
  <2> QED
    BY <2>1, <2>2 DEF Issued
<1> QED
  BY <1>1, Invariant, PTL

\* Whoever holds the lock of a row awaits its COMMIT alone: _update_session and sign-out
\* write as the last thing they do, and every end of a transaction gives its lock back.
THEOREM RowLocksAreLive == Spec => []LocksAreLive
<1>1. Init => LocksAreLive
  BY DEF Init, LocksAreLive
<1> QED
  BY <1>1, LocksStep, Invariant, PTL DEF Spec

\* The values of all variables have their types, and no more tokens are made than
\* there are numbers.
THEOREM TypeCorrect == Spec => []TypeOK
<1>1. AuthInv => TypeOK
  <2> SUFFICES ASSUME AuthInv PROVE TypeOK
    OBVIOUS
  <2>1. made \in 0 .. MaxTokens
    <3>1. IsFiniteSet({q \in Requests : WillMake(q)})
      BY AuthAssumption, FS_Subset
    <3>2. Cardinality({q \in Requests : WillMake(q)}) \in Nat
      BY <3>1, FS_CardinalityType
    <3> QED
      BY <3>2, AuthAssumption DEF AuthInv, SortInv, BoundInv
  <2>2. req \in [Requests -> [op : Operations, at : Stages,
                              session : Sessions \cup {NoSession},
                              presented : 0 .. MaxTokens, fresh : 0 .. MaxTokens,
                              writes : BOOLEAN]]
    BY <2>1, AuthAssumption DEF AuthInv, SortInv, FreshInv, RowsInv
  <2>3. token \in [Sessions -> 0 .. MaxTokens]
    BY <2>1, AuthAssumption DEF AuthInv, SortInv, RowsInv
  <2>4. 1 .. made \subseteq Tokens
    BY <2>1, AuthAssumption DEF Tokens
  <2>5. /\ lost \subseteq Sessions \X Tokens /\ unsent \subseteq Sessions \X Tokens
        /\ committed \subseteq Sessions \X Tokens
    BY <2>4 DEF AuthInv, RowsInv
  <2>6. delivered \subseteq Sessions \X Tokens
    BY <2>1, <2>4 DEF AuthInv, SortInv, FreshInv
  <2> QED
    BY <2>1, <2>2, <2>3, <2>5, <2>6 DEF AuthInv, SortInv, RowsInv, TypeOK
<1> QED
  BY <1>1, Invariant, PTL
=============================================================================

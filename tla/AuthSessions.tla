---------------------------- MODULE AuthSessions ----------------------------
(***************************************************************************)
(* contrib/auth: the sessions of one account and the requests that open,   *)
(* refresh, use and close them.  Each request is a database transaction of *)
(* its own (common/http/base_endpoint.py): it reads committed rows one     *)
(* query at a time, holds the lock of a row from its UPDATE to its end,    *)
(* commits when the handler returns, rolls back when it raises, and sends  *)
(* the response after that.                                                *)
(*                                                                         *)
(* A refresh token is a number: the order in which it was made.  A JWT     *)
(* names its session; that it may have expired is a request that fails.    *)
(***************************************************************************)
EXTENDS Naturals, FiniteSets

CONSTANTS
    Requests,   \* the requests in progress at a time
    Sessions,   \* public ids (uuid4)
    NoSession,  \* the session of a sign-in that has made none yet
    NoRequest,  \* the holder of a row lock that is free
    Forms,      \* the edit forms administrators use: "account", "session"
    MaxTokens   \* bound on the refresh tokens made

ASSUME AuthAssumption ==
    /\ NoSession \notin Sessions
    /\ NoRequest \notin Requests
    /\ Forms \subseteq {"account", "session"}
    /\ MaxTokens \in Nat
    /\ IsFiniteSet(Requests)

VARIABLES
    account,    \* the row of auth_users: "active", "disabled", or "gone"
    rows,       \* the committed rows of auth_sessions
    open,       \* those with is_active
    token,      \* their refresh_token; 0 when there is no row
    writer,     \* the transaction that holds the lock of the row
    req,        \* the request in each slot
    made,       \* how many refresh tokens have been made
    delivered,  \* the tokens clients have received: <<session, refresh token>>
    lost,       \* history: those that were sent in a response and did not arrive
    unsent,     \* history: those that an error after the COMMIT was sent in place of
    committed,  \* history: every <<session, refresh token>> ever committed
    late        \* history: what has been over ever since the request began

database == <<account, rows, open, token, writer>>
history == <<lost, unsent, committed, late>>
vars == <<database, req, made, delivered, history>>

Tokens == 1 .. MaxTokens

Operations == {"sign_in", "refresh", "sign_out", "profile"}

Stages == {"idle",
           "user",     \* about to look up the account
           "session",  \* authenticate_user: about to look up the session
           "match",    \* refresh: about to look it up again and compare tokens
           "reread",   \* _update_session: about to look it up once more
           "update",   \* _update_session: about to write
           "create",   \* _create_session: about to insert
           "find",     \* sign-out: about to look it up again
           "close",    \* sign-out: about to write
           "commit",   \* the handler has returned
           "unknown",  \* the COMMIT was sent, its reply is lost
           "respond"}  \* committed

Idle == [op |-> "profile", at |-> "idle", session |-> NoSession, presented |-> 0,
         fresh |-> 0, writes |-> FALSE]

Lateness == {"replaced", "closed", "disabled"}

TypeOK ==
    /\ account \in {"active", "disabled", "gone"}
    /\ rows \subseteq Sessions
    /\ open \subseteq rows
    /\ token \in [Sessions -> 0 .. MaxTokens]
    /\ \A s \in Sessions : token[s] # 0 <=> s \in rows
    /\ writer \in [Sessions -> Requests \cup {NoRequest}]
    /\ req \in [Requests -> [op : Operations, at : Stages,
                             session : Sessions \cup {NoSession},
                             presented : 0 .. MaxTokens, fresh : 0 .. MaxTokens,
                             writes : BOOLEAN]]
    /\ made \in 0 .. MaxTokens
    /\ delivered \subseteq Sessions \X Tokens
    /\ lost \subseteq Sessions \X Tokens
    /\ unsent \subseteq Sessions \X Tokens
    /\ committed \subseteq Sessions \X Tokens
    /\ late \in [Requests -> SUBSET Lateness]

Init ==
    /\ account = "active"
    /\ rows = {} /\ open = {}
    /\ token = [s \in Sessions |-> 0]
    /\ writer = [s \in Sessions |-> NoRequest]
    /\ req = [r \in Requests |-> Idle]
    /\ made = 0
    /\ delivered = {} /\ lost = {} /\ unsent = {} /\ committed = {}
    /\ late = [r \in Requests |-> {}]

-----------------------------------------------------------------------------
(* Requests.                                                               *)

Begin(r, op, s, t) ==
    /\ req[r].at = "idle"
    /\ req' = [req EXCEPT ![r] = [op |-> op, at |-> "user", session |-> s, presented |-> t,
                                  fresh |-> 0, writes |-> FALSE]]
    /\ late' = [late EXCEPT ![r] =
                  {l \in Lateness : \/ l = "disabled" /\ account # "active"
                                    \/ l = "closed" /\ op # "sign_in" /\ s \notin open
                                    \/ l = "replaced" /\ op = "refresh" /\ t # token[s]}]
    /\ UNCHANGED <<database, made, delivered, lost, unsent, committed>>

\* The bound: there is a token left for every request that may make one.
WillMake(q) == req[q].op \in {"sign_in", "refresh"} /\ req[q].fresh = 0
MayMake == made + Cardinality({q \in Requests : WillMake(q)}) < MaxTokens

\* A client uses what it was given: an access token names the session, a
\* refresh token is the one of some response.  Passwords are right.
BeginSignIn(r) == MayMake /\ Begin(r, "sign_in", NoSession, 0)
BeginRefresh(r) == MayMake /\ \E d \in delivered : Begin(r, "refresh", d[1], d[2])
BeginSignOut(r) == \E d \in delivered : Begin(r, "sign_out", d[1], 0)
BeginProfile(r) == \E d \in delivered : Begin(r, "profile", d[1], 0)

At(r, stage) == req[r].at = stage
Goto(r, stage) == req' = [req EXCEPT ![r].at = stage]

\* Seeded defects: User.async_get for get_active, and is_active left out.
AnyUserFound == account # "gone"
FoundClosed(s) == s \in rows

\* The queries that look for an active user and an active session.
UserFound == account = "active"
Found(s) == s \in rows /\ s \in open

Reads == UNCHANGED <<database, made, delivered, history>>

FindUser(r) ==
    /\ At(r, "user") /\ UserFound
    /\ Goto(r, IF req[r].op = "sign_in" THEN "create" ELSE "session")
    /\ Reads

FindSession(r) ==
    /\ At(r, "session") /\ Found(req[r].session)
    /\ Goto(r, CASE req[r].op = "refresh" -> "match"
                 [] req[r].op = "sign_out" -> "find"
                 [] req[r].op = "profile" -> "commit")
    /\ Reads

\* Seeded defect: the token is not compared with the one of the session.
MatchAnyToken(r) ==
    /\ At(r, "match") /\ Found(req[r].session)
    /\ Goto(r, "reread")
    /\ Reads

Match(r) ==
    /\ At(r, "match")
    /\ Found(req[r].session) /\ token[req[r].session] = req[r].presented
    /\ Goto(r, "reread")
    /\ Reads

\* The session is read without a look at is_active.
Reread(r) ==
    /\ At(r, "reread")
    /\ IF req[r].session \in rows
         THEN /\ made' = made + 1
              /\ req' = [req EXCEPT ![r].at = "update", ![r].fresh = made + 1]
         ELSE /\ Goto(r, "create")
              /\ UNCHANGED made
    /\ UNCHANGED <<database, delivered, history>>

\* UPDATE waits for the lock of the row; when the row has gone it writes
\* nothing, and nothing is made of that.
Update(r) ==
    LET s == req[r].session IN
    /\ At(r, "update")
    /\ writer[s] = NoRequest
    /\ req' = [req EXCEPT ![r].at = "commit", ![r].writes = s \in rows]
    /\ writer' = IF s \in rows THEN [writer EXCEPT ![s] = r] ELSE writer
    /\ UNCHANGED <<account, rows, open, token, made, delivered, history>>

\* INSERT of a new row; the foreign key wants the account to exist.
Create(r) ==
    /\ At(r, "create") /\ account # "gone"
    /\ made' = made + 1
    /\ \E s \in Sessions :
         /\ \A d \in committed : d[1] # s
         /\ \A q \in Requests : req[q].session # s
         /\ req' = [req EXCEPT ![r].at = "commit", ![r].session = s,
                               ![r].fresh = made + 1, ![r].writes = TRUE]
         /\ writer' = [writer EXCEPT ![s] = r]
    /\ UNCHANGED <<account, rows, open, token, delivered, history>>

\* Without an active session sign-out has nothing to do.
FindToClose(r) ==
    /\ At(r, "find")
    /\ Goto(r, IF Found(req[r].session) THEN "close" ELSE "commit")
    /\ Reads

SetInactive(r) ==
    LET s == req[r].session IN
    /\ At(r, "close")
    /\ writer[s] = NoRequest /\ s \in rows
    /\ req' = [req EXCEPT ![r].at = "commit", ![r].writes = TRUE]
    /\ writer' = [writer EXCEPT ![s] = r]
    /\ UNCHANGED <<account, rows, open, token, made, delivered, history>>

-----------------------------------------------------------------------------
(* The end of a request.                                                   *)

\* Seeded defect: a refresh answers with an access token alone.
IssuedAtSignIn(r) ==
    IF req[r].fresh = 0 \/ req[r].op # "sign_in"
      THEN {} ELSE {<<req[r].session, req[r].fresh>>}

\* The refresh token in the response, with the session it is for.
Issued(r) == IF req[r].fresh = 0 THEN {} ELSE {<<req[r].session, req[r].fresh>>}

Unlock(r) == writer' = [s \in Sessions |-> IF writer[s] = r THEN NoRequest ELSE writer[s]]

End(r) ==
    /\ req' = [req EXCEPT ![r] = Idle]
    /\ late' = [late EXCEPT ![r] = {}]

\* Seeded defect: the transaction of a failed request is not ended.
RollbackKeepsLocks(r) ==
    /\ End(r)
    /\ UNCHANGED <<database, made, delivered, lost, unsent, committed>>

\* The handler raises what the client is told, after a rollback.
Rollback(r) ==
    /\ Unlock(r) /\ End(r)
    /\ UNCHANGED <<account, rows, open, token, made, delivered, lost, unsent, committed>>

Refused(r) ==
    LET s == req[r].session IN
    \/ At(r, "user") /\ ~UserFound
    \/ At(r, "session") /\ ~Found(s)
    \/ At(r, "match") /\ ~(Found(s) /\ token[s] = req[r].presented)
    \/ At(r, "create") /\ account = "gone"
    \/ At(r, "close") /\ s \notin rows

Refuse(r) == Refused(r) /\ Rollback(r)

\* Seeded defect: a commit that fails is not noticed.
RaiseUnnoticed(r) ==
    /\ ~At(r, "idle") /\ ~At(r, "unknown") /\ ~At(r, "respond")
    /\ Unlock(r) /\ End(r)
    /\ delivered' = IF At(r, "commit") THEN delivered \cup Issued(r)
                                       ELSE delivered
    /\ UNCHANGED <<account, rows, open, token, made, lost, unsent, committed>>

\* An expired token, or an error of the database: also of a COMMIT it refuses.
Raise(r) == ~At(r, "idle") /\ ~At(r, "unknown") /\ ~At(r, "respond") /\ Rollback(r)

\* Seeded defect: sign-out clears the token of the session.
WrittenWithoutToken(r) ==
    LET s == req[r].session
        writes == req[r].writes
        makes == writes /\ req[r].fresh # 0 IN
    /\ rows' = IF makes THEN rows \cup {s} ELSE rows
    /\ open' = IF makes THEN open \cup {s} ELSE IF writes THEN open \ {s} ELSE open
    /\ token' = IF writes THEN [token EXCEPT ![s] = req[r].fresh] ELSE token
    /\ committed' = IF makes THEN committed \cup {<<s, req[r].fresh>>} ELSE committed
    /\ Unlock(r)
    /\ UNCHANGED <<account, made>>

\* What a transaction has written becomes visible at once.
Written(r) ==
    LET s == req[r].session
        writes == req[r].writes
        makes == writes /\ req[r].fresh # 0 IN
    /\ rows' = IF makes THEN rows \cup {s} ELSE rows
    /\ open' = IF makes THEN open \cup {s} ELSE IF writes THEN open \ {s} ELSE open
    /\ token' = IF makes THEN [token EXCEPT ![s] = req[r].fresh] ELSE token
    /\ committed' = IF makes THEN committed \cup {<<s, req[r].fresh>>} ELSE committed
    /\ Unlock(r)
    /\ UNCHANGED <<account, made>>

Commit(r) ==
    /\ At(r, "commit")
    /\ Written(r)
    /\ Goto(r, "respond")
    /\ UNCHANGED <<delivered, lost, unsent, late>>

\* The connection breaks, or the request is cancelled, while COMMIT is on its way.
\* The client is told of an error; the server may not have come to it yet ...
CommitBreaks(r) == At(r, "commit") /\ Goto(r, "unknown") /\ Reads

\* ... and commits, or finds the connection gone and rolls back.
CommitLate(r) ==
    /\ At(r, "unknown")
    /\ Written(r) /\ End(r)
    /\ unsent' = unsent \cup Issued(r)
    /\ UNCHANGED <<delivered, lost>>

RollbackLate(r) == At(r, "unknown") /\ Rollback(r)

Respond(r) ==
    /\ At(r, "respond")
    /\ delivered' = delivered \cup Issued(r)
    /\ End(r)
    /\ UNCHANGED <<database, made, lost, unsent, committed>>

\* The client has gone when the response is sent.
ResponseLost(r) ==
    /\ At(r, "respond")
    /\ lost' = lost \cup Issued(r)
    /\ End(r)
    /\ UNCHANGED <<database, made, delivered, unsent, committed>>

\* Closing the database session raises, and that is what is sent.
CloseFails(r) ==
    /\ At(r, "respond")
    /\ unsent' = unsent \cup Issued(r)
    /\ End(r)
    /\ UNCHANGED <<database, made, delivered, lost, committed>>

-----------------------------------------------------------------------------
(* The administrator (contrib/auth/admin.py).                              *)

\* The edit form of UserView, with its field is_active.
Disable ==
    /\ "account" \in Forms
    /\ account = "active"
    /\ account' = "disabled"
    /\ UNCHANGED <<rows, open, token, writer, req, made, delivered, history>>

Enable ==
    /\ "account" \in Forms
    /\ account = "disabled"
    /\ account' = "active"
    /\ late' = [r \in Requests |-> late[r] \ {"disabled"}]
    /\ UNCHANGED <<rows, open, token, writer, req, made, delivered, lost, unsent, committed>>

\* That of UserSessionView: every field is written as the form has it, is_active as
\* the administrator likes it, the token as it was when the form was opened.
EditSession(s) ==
    /\ "session" \in Forms
    /\ s \in rows /\ writer[s] = NoRequest
    /\ open' \in {open \cup {s}, open \ {s}}
    /\ \E t \in Tokens : <<s, t>> \in committed /\ token' = [token EXCEPT ![s] = t]
    /\ late' = [r \in Requests |->
                  IF req[r].op # "refresh" \/ req[r].session # s \/ req[r].presented # token'[s]
                  THEN late[r]
                  ELSE late[r] \ ({"replaced"} \cup {l \in {"closed"} : s \in open'})]
    /\ UNCHANGED <<account, rows, writer, req, made, delivered, lost, unsent, committed>>

\* delete_users_cascade waits for the locks on the rows it deletes, and on
\* the account for those of rows about to be inserted.
DeleteAccount ==
    /\ account # "gone"
    /\ \A s \in Sessions : writer[s] = NoRequest
    /\ account' = "gone"
    /\ rows' = {} /\ open' = {}
    /\ token' = [s \in Sessions |-> 0]
    /\ UNCHANGED <<writer, req, made, delivered, history>>

-----------------------------------------------------------------------------
Proceed(r) ==
    \/ FindUser(r) \/ FindSession(r) \/ Match(r) \/ Reread(r) \/ Update(r) \/ Create(r)
    \/ FindToClose(r) \/ SetInactive(r) \/ Refuse(r) \/ Commit(r) \/ Respond(r)
    \/ CommitLate(r) \/ RollbackLate(r)

Next ==
    \/ \E r \in Requests :
         \/ BeginSignIn(r) \/ BeginRefresh(r) \/ BeginSignOut(r) \/ BeginProfile(r)
         \/ Proceed(r) \/ Raise(r) \/ CommitBreaks(r) \/ ResponseLost(r) \/ CloseFails(r)
    \/ Disable \/ Enable \/ DeleteAccount
    \/ \E s \in Sessions : EditSession(s)

Spec == Init /\ [][Next]_vars

-----------------------------------------------------------------------------
(* What is true of the sessions.                                           *)

\* A refresh token that was replaced before a refresh with it began buys
\* nothing: views.py compares it with the row it has just read.  (An administrator
\* whose form puts it back before that ends this.)
RotatedTokenIsDead ==
    \A r \in Requests : req[r].op = "refresh" /\ "replaced" \in late[r] => req[r].fresh = 0

\* A session that was closed before a refresh of it began stays closed to
\* that refresh, whatever other requests of the session do meanwhile, unless an
\* administrator opens it with the very token that the refresh presents.
ClosedToLateRefresh ==
    \A r \in Requests : req[r].op = "refresh" /\ "closed" \in late[r] => req[r].fresh = 0

\* A request that begins when the account is disabled or gone is given no tokens,
\* by whichever way it asks for them, unless the account is enabled meanwhile.
DisabledGetsNothing ==
    \A r \in Requests : "disabled" \in late[r] => req[r].fresh = 0

\* The token an open session accepts is one that a client has, or is about
\* to get, or was sent and did not arrive, or that of a request which failed after
\* its COMMIT was sent: concurrent refreshes that write over one another leave no
\* session without an owner, nor does an administrator that puts a token back.
OpenSessionHasOwner ==
    \A s \in open :
        <<s, token[s]>> \in delivered \cup lost \cup unsent
                              \cup UNION {Issued(r) : r \in {q \in Requests : At(q, "respond")}}

\* A client is never given a token that a rollback has undone.  (When the
\* account is deleted between the last look at the session and its update,
\* the update writes nothing and the client is told it has a session.)
NothingUncommittedLeaks == account # "gone" => delivered \subseteq committed

\* Whoever holds the lock of a row awaits nothing but its COMMIT: requests that wait
\* for a row never wait for one another, and a request that has been answered, with
\* an error too, leaves no lock behind but that of a COMMIT the server has still to
\* come to.
LocksAreLive ==
    \A s \in Sessions :
        writer[s] # NoRequest => At(writer[s], "commit") \/ At(writer[s], "unknown")

\* SignOutAPIView: "deactivate current session on BE (this allows to block
\* use regular or refresh token)".
SignedOutStaysOut == [][\A s \in rows \ open : s \notin open']_vars
=============================================================================

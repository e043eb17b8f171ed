------------------------ MODULE AuthSessionsInvariant ------------------------
(***************************************************************************)
(* Why late requests get nothing and open sessions have an owner: the      *)
(* inductive invariant of AuthSessions.                                    *)
(***************************************************************************)
EXTENDS AuthSessions

\* TypeOK without the bound on the tokens, as far as the argument needs it.
SortInv ==
    /\ account \in {"active", "disabled", "gone"}
    /\ rows \subseteq Sessions
    /\ open \subseteq Sessions
    /\ token \in [Sessions -> Nat]
    /\ req \in [Requests -> [op : Operations, at : Stages,
                             session : Sessions \cup {NoSession},
                             presented : Nat, fresh : Nat, writes : BOOLEAN]]
    /\ made \in Nat
    /\ delivered \subseteq Sessions \X Nat
    /\ committed \subseteq Sessions \X Nat
    /\ late \in [Requests -> SUBSET Lateness]

AtItsEnd(r) == At(r, "commit") \/ At(r, "unknown") \/ At(r, "respond")

\* A request is where its view can be, and a refresh presents what its client
\* was given.
StageInv ==
    \A r \in Requests :
        /\ At(r, "match") \/ At(r, "reread") \/ At(r, "update") => req[r].op = "refresh"
        /\ At(r, "session") => req[r].op # "sign_in"
        /\ At(r, "create") => req[r].op \in {"sign_in", "refresh"}
        /\ At(r, "find") \/ At(r, "close") => req[r].op = "sign_out"
        /\ ~At(r, "idle") /\ (req[r].op = "sign_in" => AtItsEnd(r)) =>
             req[r].session \in Sessions
        /\ req[r].fresh # 0 => At(r, "update") \/ AtItsEnd(r)
        /\ req[r].op = "refresh" => <<req[r].session, req[r].presented>> \in delivered

\* A token in the making is nobody else's, and no client has it.
FreshInv ==
    /\ \A r \in Requests : req[r].fresh <= made
    /\ \A r, q \in Requests : req[r].fresh = req[q].fresh /\ req[r].fresh # 0 => r = q
    /\ \A d \in delivered : /\ d[2] # 0 /\ d[2] <= made
                            /\ \A r \in Requests : req[r].fresh # d[2]

\* A request that came too late has not got past the check that stops it.
LateInv ==
    \A r \in Requests :
        /\ req[r].op = "refresh" /\ "replaced" \in late[r] =>
             /\ token[req[r].session] # req[r].presented
             /\ At(r, "user") \/ At(r, "session") \/ At(r, "match")
        /\ req[r].op = "refresh" /\ "closed" \in late[r] =>
             /\ \/ req[r].session \notin open
                \/ token[req[r].session] # req[r].presented
             /\ At(r, "user") \/ At(r, "session") \/ At(r, "match")
        /\ "disabled" \in late[r] => account # "active" /\ At(r, "user")

\* While the account is there so are its sessions, and what was given out was
\* committed before.
CommitInv ==
    account # "gone" =>
        /\ \A d \in committed : d[1] \in rows
        /\ delivered \subseteq committed
        /\ \A r \in Requests :
             /\ req[r].op = "refresh" => ~At(r, "create")
             /\ (At(r, "commit") \/ At(r, "unknown")) /\ req[r].fresh # 0 => req[r].writes
             /\ At(r, "respond") /\ req[r].fresh # 0 =>
                  <<req[r].session, req[r].fresh>> \in committed

\* A row has a token that was committed, and is not open without being there.
RowsInv ==
    /\ open \subseteq rows
    /\ \A s \in Sessions : token[s] <= made /\ (token[s] # 0 <=> s \in rows)
    /\ \A s \in rows : <<s, token[s]>> \in committed
    /\ writer \in [Sessions -> Requests \cup {NoRequest}]
    /\ lost \subseteq Sessions \X (1 .. made)
    /\ unsent \subseteq Sessions \X (1 .. made)
    /\ committed \subseteq Sessions \X (1 .. made)
    /\ \A r \in Requests : req[r].presented <= made

\* There is a number left for every token that is still to be made.
BoundInv == made + Cardinality({q \in Requests : WillMake(q)}) <= MaxTokens

\* A token that was committed was sent, or could not be because of an error that
\* was sent in its place, or is in a response that is still to be sent.
OwnerInv ==
    \A d \in committed :
        \/ d \in delivered \cup lost \cup unsent
        \/ \E r \in Requests : /\ At(r, "respond")
                              /\ req[r].session = d[1]
                              /\ req[r].fresh = d[2]

AuthInv ==
    /\ SortInv /\ StageInv /\ FreshInv /\ LateInv /\ CommitInv
    /\ RowsInv /\ BoundInv /\ OwnerInv
=============================================================================

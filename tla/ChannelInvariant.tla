-------------------------- MODULE ChannelInvariant --------------------------
(***************************************************************************)
(* Why the channel keeps order and loses nothing: the inductive invariant  *)
(* of Channel.                                                             *)
(***************************************************************************)
EXTENDS Channel

\* What the listener is at work on.
Handling == listener \in {"locking", "sending"}

\* s has yet to be handed the event that the listener is at work on.
Awaits(s) == \/ listener = "locking"
             \/ listener = "sending" /\ s \in pending

\* The manager lock is held by whoever awaits the layer, and a closed channel has
\* no subscribers.
LockInv ==
    /\ lock # Nobody => pc[lock] \in {"subscribing", "unsubscribing"}
    /\ \A s \in Subs : pc[s] \in {"subscribing", "unsubscribing"} => lock = s
    /\ listener # "dead" => chan = "open"
    /\ chan = "closed" => /\ \A s \in Subs : pc[s] \in {"out", "gone", "raised"}
                          /\ \A g \in Groups : subscribers[g] = {}

\* Who iterates is in the set of its group; a group that is being subscribed or
\* unsubscribed is empty.
MembersInv ==
    /\ \A g \in Groups : \A s \in subscribers[g] :
         GroupOf[s] = g /\ pc[s] \in {"in", "leaving", "raised"}
    /\ \A s \in Subs : pc[s] = "in" => s \in subscribers[GroupOf[s]]
    /\ \A s \in Subs : pc[s] \in {"subscribing", "unsubscribing"} =>
         subscribers[GroupOf[s]] = {}

\* Nobody's call about g broke off.
Undisturbed(g) == \A s \in Subs : GroupOf[s] = g => Orderly(s)

StoppedBy(s, g) == s # Nobody /\ GroupOf[s] = g /\ pc[s] = "unsubscribing"

\* A layer has commands and a lost connection as it is its kind.  While it has a
\* connection it passes on the groups that have subscribers, and over its first one
\* no other but for that which is being unsubscribed and those whose calls broke off.
LayerInv ==
    /\ layer # "redis" => commands = <<>> /\ link # "again"
    /\ layer = "memory" => link # "lost"
    /\ chan # "closed" => link # "none"
    /\ opens = 0 => link = "none"
    /\ link = "none" => layerSubs = {} /\ commands = <<>>
    /\ link = "lost" => commands = <<>>
    /\ \A g \in Groups : subscribers[g] # {} =>
         PassesOn(g) \/ (layer = "postgres" /\ link = "lost")
    /\ \A g \in Groups :
         link = "up" /\ PassesOn(g) /\ Undisturbed(g)
           => subscribers[g] # {} \/ StoppedBy(lock, g)

\* Connections that nobody closed are PostgreSQL's, and of earlier entries.
LeftInv ==
    /\ left # {} => layer = "postgres"
    /\ late # {} => left # {}

\* What is on the wire is younger than what the listener is at work on, and that
\* is younger than what a subscriber that awaits it has.  Where an old connection
\* puts in its events, they are at least of the past and for who gets them.
OrderInv ==
    /\ Len(published) <= MaxEvents
    /\ \A k \in DOMAIN wire : wire[k] <= Len(published)
    /\ \A p \in late : p[2] <= Len(published)
    /\ Handling => event \in 1 .. Len(published)
    /\ \A s \in pending : listener = "sending" /\ GroupOf[s] = published[event]
    /\ \A s \in Subs : \A i \in DOMAIN received[s] :
         received[s][i] <= Len(published) /\ OfGroup(s, received[s][i])
    /\ left = {} =>
         /\ \A k \in DOMAIN wire :
              /\ \A j \in DOMAIN wire : j < k => wire[j] < wire[k]
              /\ Handling => event < wire[k]
         /\ \A s \in Subs : \A i \in DOMAIN received[s] :
              /\ \A j \in DOMAIN received[s] : i < j => received[s][i] < received[s][j]
              /\ \A k \in DOMAIN wire : received[s][i] < wire[k]
              /\ Handling => received[s][i] <= event
              /\ Awaits(s) => received[s][i] < event

\* How many events have been taken off the wire of the in-memory layer.
Taken == Len(published) - Len(wire)

\* On the in-memory layer every event is on the wire until it is taken, and of
\* those that were taken since its last a subscriber has at most one to come.
MemoryInv ==
    /\ \A s \in Subs : pc[s] \in {"out", "joining", "subscribing"} => received[s] = <<>>
    /\ layer = "memory" /\ listener # "dead" =>
         /\ Len(wire) <= Len(published)
         /\ \A k \in DOMAIN wire : wire[k] = Taken + k
         /\ Handling => event = Taken
         /\ \A s \in Subs : pc[s] = "in" /\ received[s] # <<>> =>
              \A e \in received[s][Len(received[s])] + 1 .. Taken :
                OfGroup(s, e) => e = event /\ Awaits(s)

ChannelInv ==
    /\ TypeOK /\ LockInv /\ MembersInv /\ LayerInv /\ LeftInv /\ OrderInv
    /\ MemoryInv /\ NoGaps /\ NothingMissed
=============================================================================

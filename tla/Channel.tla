------------------------------- MODULE Channel -------------------------------
(***************************************************************************)
(* common/channels: Channel fans the events of a channel layer out to      *)
(* subscribers.  One listener task takes events off the layer one by one   *)
(* and hands each to every subscriber of its group over an unbuffered      *)
(* stream; it takes the next only when all have it.  The set of            *)
(* subscribers of a group changes under a manager lock, which is held over *)
(* the call that subscribes the layer to the group (for the first to come) *)
(* or unsubscribes it (for the last to go).                                *)
(*                                                                         *)
(* The layer is the in-memory one, Redis PUBSUB or PostgreSQL LISTEN.  The *)
(* connection to a broker can be lost, which the listener of Redis is told *)
(* and that of PostgreSQL is not; and a block that ends because the        *)
(* listener failed, or is cancelled, never disconnects its layer: what is  *)
(* left of it is there when the channel is entered again.                  *)
(***************************************************************************)
EXTENDS Naturals, Sequences

CONSTANTS
    Groups,
    Subs,        \* the calls of channel.subscribe(), each used once
    GroupOf,     \* GroupOf[s]: the group s subscribes to
    Layers,      \* the channel layers considered: "memory", "redis", "postgres"
    MayCancel,   \* those that can be cancelled before they are subscribed
    BlockCancel, \* whether the block of the channel can be cancelled from outside
    LayerFaults, \* what Redis and PostgreSQL may do: "stall" a call beyond
                 \* EXIT_MAX_DELAY, fail it with an "error", "disconnect"
    Nobody,      \* the holder of a lock that is free
    MaxEvents,   \* bound on the events published
    MaxOpens     \* bound on how often the channel is entered

ASSUME ChannelAssumption ==
    /\ GroupOf \in [Subs -> Groups]
    /\ Layers \subseteq {"memory", "redis", "postgres"}
    /\ MayCancel \subseteq Subs
    /\ BlockCancel \in BOOLEAN
    /\ LayerFaults \subseteq {"stall", "error", "disconnect"}
    /\ Nobody \notin Subs
    /\ MaxEvents \in Nat /\ MaxOpens \in Nat

VARIABLES
    layer,        \* _channel_layer, chosen when the channel is made
    chan,         \* the async with block of the channel
    opens,        \* how often it has been entered
    pc,           \* where each call of subscribe() is
    lock,         \* the holder of _manager_lock
    subscribers,  \* _subscribers, by group
    link,         \* the connection of the layer, see Links
    layerSubs,    \* the groups the layer passes on while it is connected
    commands,     \* Redis: SUBSCRIBE and UNSUBSCRIBE on their way to the server
    wire,         \* events between publish() and next_published()
    left,         \* PostgreSQL: the groups that connections of earlier entries,
                  \* which nobody closed, still listen to
    late,         \* ... and the events that they have yet to hand over
    listener,     \* where the listener task is
    event,        \* the event it handles
    pending,      \* the subscribers that have yet to get it
    published,    \* history: the group of every event published, in order
    received,     \* history: the events each subscriber got
    joinedAt      \* history: how many had been published when it subscribed

layerVars == <<link, layerSubs, commands, wire, left, late>>
listenerVars == <<listener, event, pending>>
history == <<published, received, joinedAt>>
vars == <<layer, chan, opens, pc, lock, subscribers, layerVars, listenerVars, history>>

Events == 1 .. MaxEvents

Points == {"out",            \* not called yet
           "joining",        \* waits for the manager lock
           "subscribing",    \* has it, awaits layer.subscribe
           "in",             \* iterates over its events
           "leaving",        \* in finally, waits for the manager lock
           "unsubscribing",  \* has it, awaits layer.unsubscribe
           "gone",
           "raised"}         \* ended with an error from its finally clause

Links == {"none",   \* disconnected
          "up",
          "lost",   \* the connection broke
          "again"}  \* Redis: and was made again

TypeOK ==
    /\ layer \in Layers
    /\ chan \in {"closed", "open", "failed"}
    /\ opens \in 0 .. MaxOpens
    /\ pc \in [Subs -> Points]
    /\ lock \in Subs \cup {Nobody}
    /\ subscribers \in [Groups -> SUBSET Subs]
    /\ link \in Links
    /\ layerSubs \subseteq Groups
    /\ commands \in Seq([subscribe: BOOLEAN, group: Groups])
    /\ wire \in Seq(Events)
    /\ left \subseteq (1 .. MaxOpens) \X Groups
    /\ late \subseteq (1 .. MaxOpens) \X Events
    /\ listener \in {"next", "locking", "sending", "dead"}
    /\ event \in Events \cup {0}
    /\ pending \subseteq Subs
    /\ published \in Seq(Groups)
    /\ received \in [Subs -> Seq(Events)]
    /\ joinedAt \in [Subs -> 0 .. MaxEvents]

Init ==
    /\ layer \in Layers
    /\ chan = "closed"
    /\ opens = 0
    /\ pc = [s \in Subs |-> "out"]
    /\ lock = Nobody
    /\ subscribers = [g \in Groups |-> {}]
    /\ link = "none"
    /\ layerSubs = {}
    /\ commands = <<>>
    /\ wire = <<>>
    /\ left = {}
    /\ late = {}
    /\ listener = "dead"
    /\ event = 0
    /\ pending = {}
    /\ published = <<>>
    /\ received = [s \in Subs |-> <<>>]
    /\ joinedAt = [s \in Subs |-> 0]

Goto(s, point) == pc' = [pc EXCEPT ![s] = point]

-----------------------------------------------------------------------------
\* async with channel: connect the layer, start the listener.  What the last exit
\* left connected stays so on Redis (and is connected again if it broke); the
\* in-memory layer keeps the groups, with a new stream; PostgreSQL has a new
\* connection, and the old one still calls _listener of the same layer.
Open ==
    /\ chan = "closed" /\ opens < MaxOpens
    /\ chan' = "open"
    /\ opens' = opens + 1
    /\ listener' = "next"
    /\ link' = CASE layer = "redis" /\ link \in {"lost", "again"} -> "again"
                 [] OTHER -> "up"
    /\ IF layer = "postgres"
       THEN layerSubs' = {} /\ left' = left \cup ({opens} \X layerSubs)
       ELSE UNCHANGED <<layerSubs, left>>
    /\ wire' = IF layer = "redis" THEN wire ELSE <<>>
    /\ UNCHANGED <<layer, pc, lock, subscribers, commands, late, event, pending, history>>

\* The tasks that subscribe live inside the block, so they have all ended.
AllEnded == \A s \in Subs : pc[s] \in {"out", "gone", "raised"}

\* __aexit__ of the channel up to the end of its task group.
BlockEnds ==
    /\ AllEnded
    /\ chan' = "closed"
    /\ subscribers' = [g \in Groups |-> {}]
    /\ listener' = "dead"
    /\ event' = 0
    /\ pending' = {}
    /\ UNCHANGED <<layer, opens, pc, lock, left, late, history>>

\* The end of the block: the listener is cancelled and the layer disconnected.
Close ==
    /\ chan = "open"
    /\ BlockEnds
    /\ link' = "none"
    /\ layerSubs' = {}
    /\ commands' = <<>>
    /\ wire' = <<>>

\* The task group raises: the listener's error, or the cancellation of the listener
\* next to that of the block; disconnect() is not reached.  Or it is and fails.
CloseRaises ==
    /\ \/ chan = "failed"
       \/ BlockCancel /\ chan = "open" /\ listener # "dead"
       \/ /\ {"error", "stall"} \cap LayerFaults # {} /\ layer # "memory"
          /\ chan = "open"
    /\ BlockEnds
    /\ UNCHANGED <<link, layerSubs, commands, wire>>

-----------------------------------------------------------------------------
\* The event goes out to whoever passes its group on.
PassedOn(g, e) ==
    /\ wire' = IF \/ layer = "memory"
                  \/ link \in {"up", "again"} /\ g \in layerSubs
               THEN Append(wire, e) ELSE wire
    /\ late' = late \cup {<<k, e>> : k \in {j \in 1 .. MaxOpens : <<j, g>> \in left}}

\* Defect: events are numbered from zero.
PublishFromZero(g) ==
    /\ layer = "memory" => chan = "open"
    /\ Len(published) < MaxEvents
    /\ published' = Append(published, g)
    /\ PassedOn(g, Len(published))
    /\ UNCHANGED <<layer, chan, opens, pc, lock, subscribers, link, layerSubs, commands,
                   left, listenerVars, received, joinedAt>>

\* layer.publish: the in-memory layer queues the publisher until the listener
\* takes its event; a broker, to which others publish as well, passes the event
\* on to the connections that are subscribed.
Publish(g) ==
    /\ layer = "memory" => chan = "open"
    /\ Len(published) < MaxEvents
    /\ published' = Append(published, g)
    /\ PassedOn(g, Len(published) + 1)
    /\ UNCHANGED <<layer, chan, opens, pc, lock, subscribers, link, layerSubs, commands,
                   left, listenerVars, received, joinedAt>>

\* layer.subscribe and layer.unsubscribe.  PubSub.subscribe of Redis returns when
\* the command is sent, the others when it has taken effect; over a connection that
\* is lost it is remembered for the next, an unsubscription is not.
LayerSubscribe(g) ==
    IF layer = "redis" /\ link # "lost"
    THEN /\ commands' = Append(commands, [subscribe |-> TRUE, group |-> g])
         /\ UNCHANGED layerSubs
    ELSE layerSubs' = layerSubs \cup {g} /\ UNCHANGED commands

LayerUnsubscribe(g) ==
    IF layer = "redis"
    THEN /\ commands' = IF link = "lost" THEN commands
                        ELSE Append(commands, [subscribe |-> FALSE, group |-> g])
         /\ UNCHANGED layerSubs
    ELSE layerSubs' = layerSubs \ {g} /\ UNCHANGED commands

\* The Redis server takes the next command of the connection.
ServerCommand ==
    /\ commands # <<>>
    /\ layerSubs' = IF Head(commands).subscribe
                    THEN layerSubs \cup {Head(commands).group}
                    ELSE layerSubs \ {Head(commands).group}
    /\ commands' = Tail(commands)
    /\ joinedAt' = [s \in Subs |-> IF GroupOf[s] = Head(commands).group
                                   THEN Len(published) ELSE joinedAt[s]]
    /\ UNCHANGED <<layer, chan, opens, pc, lock, subscribers, link, wire, left, late,
                   listenerVars, published, received>>

\* The connection breaks.  What has not arrived of its events and its commands is
\* lost.  PubSub of Redis remembers what it subscribed to, with the groups whose
\* UNSUBSCRIBE it has not seen the answer of; asyncpg drops its listeners.
ConnectionLost ==
    /\ "disconnect" \in LayerFaults /\ layer # "memory"
    /\ link \in {"up", "again"}
    /\ link' = "lost"
    /\ IF layer = "postgres"
       THEN layerSubs' = {}
       ELSE \E unanswered \in SUBSET Groups :
              layerSubs' = layerSubs \cup unanswered
                             \cup {commands[k].group :
                                     k \in {j \in DOMAIN commands : commands[j].subscribe}}
    /\ commands' = <<>>
    /\ \E n \in 0 .. Len(wire) : wire' = SubSeq(wire, 1, n)
    /\ UNCHANGED <<layer, chan, opens, pc, lock, subscribers, left, late, listenerVars, history>>

\* The next call of PubSub connects, and subscribes to what it remembers.
Reconnect ==
    /\ layer = "redis" /\ chan # "closed" /\ link = "lost"
    /\ link' = "again"
    /\ UNCHANGED <<layer, chan, opens, pc, lock, subscribers, layerSubs, commands, wire, left,
                   late, listenerVars, history>>

\* A connection that was never closed hands its next event to the layer.
LeftoverPasses ==
    \E k \in 1 .. MaxOpens, e \in Events :
        /\ <<k, e>> \in late /\ \A f \in Events : <<k, f>> \in late => e <= f
        /\ late' = late \ {<<k, e>>}
        /\ wire' = Append(wire, e)
        /\ UNCHANGED <<layer, chan, opens, pc, lock, subscribers, link, layerSubs, commands,
                       left, listenerVars, history>>

-----------------------------------------------------------------------------
\* channel.subscribe(group) up to the manager lock.
Subscribe(s) ==
    /\ chan = "open" /\ pc[s] = "out"
    /\ Goto(s, "joining")
    /\ UNCHANGED <<layer, chan, opens, lock, subscribers, layerVars, listenerVars, history>>

\* s is subscribed, and about to iterate.
Joined(s) ==
    /\ subscribers' = [subscribers EXCEPT ![GroupOf[s]] = @ \cup {s}]
    /\ joinedAt' = [joinedAt EXCEPT ![s] = Len(published)]
    /\ Goto(s, "in")

\* The group is subscribed already.
JoinGroup(s) ==
    /\ pc[s] = "joining" /\ lock = Nobody
    /\ subscribers[GroupOf[s]] # {}
    /\ Joined(s)
    /\ UNCHANGED <<layer, chan, opens, lock, layerVars, listenerVars, published, received>>

\* The first of its group awaits the layer, with the lock held ...
StartGroup(s) ==
    /\ pc[s] = "joining" /\ lock = Nobody
    /\ subscribers[GroupOf[s]] = {}
    /\ lock' = s
    /\ Goto(s, "subscribing")
    /\ UNCHANGED <<layer, chan, opens, subscribers, layerVars, listenerVars, history>>

\* ... and is subscribed when it answers; asyncpg raises if the connection is lost.
GroupStarted(s) ==
    /\ pc[s] = "subscribing"
    /\ layer = "postgres" => link # "lost"
    /\ LayerSubscribe(GroupOf[s])
    /\ Joined(s)
    /\ lock' = Nobody
    /\ UNCHANGED <<layer, chan, opens, link, wire, left, late, listenerVars, published, received>>

\* Defect: acquire and release without a context manager.
CancelJoinKeepsLock(s) ==
    /\ s \in MayCancel \/ chan = "failed"
    /\ \/ pc[s] = "joining"
       \/ pc[s] = "subscribing" /\ layer # "memory"
    /\ Goto(s, "leaving")
    /\ UNCHANGED <<layer, chan, opens, lock, subscribers, layerVars, listenerVars, history>>

\* The call of the layer ends with an error or a cancellation; the in-memory layer
\* does not suspend and knows neither.  A broker may have taken the command or not.
CallBreaks(call) ==
    /\ layer # "memory"
    /\ lock' = Nobody
    /\ call \/ UNCHANGED <<layerSubs, commands>>

\* An error of the layer before s is subscribed.
SubscribeFails(s) ==
    /\ "error" \in LayerFaults \/ link = "lost"
    /\ pc[s] = "subscribing"
    /\ CallBreaks(LayerSubscribe(GroupOf[s]))
    /\ Goto(s, "leaving")
    /\ UNCHANGED <<layer, chan, opens, subscribers, link, wire, left, late, listenerVars, history>>

\* A cancellation before s is subscribed.
CancelJoin(s) ==
    /\ s \in MayCancel \/ chan = "failed"
    /\ \/ /\ pc[s] = "joining"
          /\ UNCHANGED <<lock, layerSubs, commands>>
       \/ /\ pc[s] = "subscribing"
          /\ CallBreaks(LayerSubscribe(GroupOf[s]))
    /\ Goto(s, "leaving")
    /\ UNCHANGED <<layer, chan, opens, subscribers, link, wire, left, late, listenerVars, history>>

\* s stops iterating: an exiting message, an error, a cancellation, or the
\* cancellation of the whole block after the channel has failed.
Leave(s) ==
    /\ pc[s] = "in"
    /\ Goto(s, "leaving")
    /\ UNCHANGED <<layer, chan, opens, lock, subscribers, layerVars, listenerVars, history>>

\* finally: s is not the last of its group.
LeaveGroup(s) ==
    /\ pc[s] = "leaving" /\ lock = Nobody
    /\ s \in subscribers[GroupOf[s]] /\ subscribers[GroupOf[s]] # {s}
    /\ subscribers' = [subscribers EXCEPT ![GroupOf[s]] = @ \ {s}]
    /\ Goto(s, "gone")
    /\ UNCHANGED <<layer, chan, opens, lock, layerVars, listenerVars, history>>

\* Defect: the lock is released before the layer is awaited.
StopGroupUnlocked(s) ==
    /\ pc[s] = "leaving" /\ lock = Nobody
    /\ subscribers[GroupOf[s]] = {s}
    /\ subscribers' = [subscribers EXCEPT ![GroupOf[s]] = {}]
    /\ Goto(s, "unsubscribing")
    /\ UNCHANGED <<layer, chan, opens, lock, layerVars, listenerVars, history>>

\* finally: the last of its group drops the group, awaits the layer with the
\* lock held ...
StopGroup(s) ==
    /\ pc[s] = "leaving" /\ lock = Nobody
    /\ subscribers[GroupOf[s]] = {s}
    /\ subscribers' = [subscribers EXCEPT ![GroupOf[s]] = {}]
    /\ lock' = s
    /\ Goto(s, "unsubscribing")
    /\ UNCHANGED <<layer, chan, opens, layerVars, listenerVars, history>>

\* Defect: the lock is not released.
GroupStoppedKeepsLock(s) ==
    /\ pc[s] = "unsubscribing"
    /\ LayerUnsubscribe(GroupOf[s])
    /\ Goto(s, "gone")
    /\ UNCHANGED <<layer, chan, opens, lock, subscribers, link, wire, left, late, listenerVars,
                   history>>

\* ... and ends when it answers.
GroupStopped(s) ==
    /\ pc[s] = "unsubscribing"
    /\ LayerUnsubscribe(GroupOf[s])
    /\ lock' = Nobody
    /\ Goto(s, "gone")
    /\ UNCHANGED <<layer, chan, opens, subscribers, link, wire, left, late, listenerVars, history>>

\* ... with an error if it does not.
UnsubscribeFails(s) ==
    /\ "error" \in LayerFaults \/ link = "lost"
    /\ pc[s] = "unsubscribing"
    /\ CallBreaks(LayerUnsubscribe(GroupOf[s]))
    /\ Goto(s, "raised")
    /\ UNCHANGED <<layer, chan, opens, subscribers, link, wire, left, late, listenerVars, history>>

\* finally: s never got into the set, set.remove or the lookup raises.
LeaveUnknown(s) ==
    /\ pc[s] = "leaving" /\ lock = Nobody
    /\ s \notin subscribers[GroupOf[s]]
    /\ Goto(s, "raised")
    /\ UNCHANGED <<layer, chan, opens, lock, subscribers, layerVars, listenerVars, history>>

\* finally: EXIT_MAX_DELAY is over, waiting for the lock or for the layer.  The
\* stream of s is closed; if it waited for the lock, it stays in the set.
LeaveTimeout(s) ==
    /\ "stall" \in LayerFaults /\ layer # "memory"
    /\ \/ /\ pc[s] = "leaving" /\ lock # Nobody
          /\ UNCHANGED <<lock, layerSubs, commands>>
       \/ /\ pc[s] = "unsubscribing"
          /\ CallBreaks(LayerUnsubscribe(GroupOf[s]))
    /\ Goto(s, "raised")
    /\ UNCHANGED <<layer, chan, opens, subscribers, link, wire, left, late, listenerVars, history>>

-----------------------------------------------------------------------------
\* Defect: a task for every event, so they overtake each other.
NextPublishedUnordered ==
    /\ listener = "next" /\ wire # <<>>
    /\ \E k \in DOMAIN wire :
         /\ wire' = SubSeq(wire, 1, k - 1) \o SubSeq(wire, k + 1, Len(wire))
         /\ listener' = "locking" /\ event' = wire[k]
    /\ UNCHANGED <<layer, chan, opens, pc, lock, subscribers, link, layerSubs, commands, left,
                   late, pending, history>>

\* next_published.  The in-memory layer drops what nobody subscribes to.
NextPublished ==
    /\ listener = "next" /\ wire # <<>>
    /\ wire' = Tail(wire)
    /\ IF layer = "memory" /\ published[Head(wire)] \notin layerSubs
       THEN UNCHANGED <<listener, event>>
       ELSE listener' = "locking" /\ event' = Head(wire)
    /\ UNCHANGED <<layer, chan, opens, pc, lock, subscribers, link, layerSubs, commands, left,
                   late, pending, history>>

\* Defect: the groups are not told apart.
SnapshotOfAll ==
    /\ listener = "locking" /\ lock = Nobody
    /\ pending' = UNION {subscribers[g] : g \in Groups}
    /\ listener' = "sending"
    /\ UNCHANGED <<layer, chan, opens, pc, lock, subscribers, layerVars, event, history>>

\* Who gets the event is settled under the lock, the sending starts after it.
Snapshot ==
    /\ listener = "locking" /\ lock = Nobody
    /\ pending' = subscribers[published[event]]
    /\ listener' = "sending"
    /\ UNCHANGED <<layer, chan, opens, pc, lock, subscribers, layerVars, event, history>>

\* The stream has no buffer: s takes the event when it comes round to it.
Deliver(s) ==
    /\ listener = "sending" /\ s \in pending /\ pc[s] = "in"
    /\ pending' = pending \ {s}
    /\ received' = [received EXCEPT ![s] = Append(@, event)]
    /\ UNCHANGED <<layer, chan, opens, pc, lock, subscribers, layerVars, listener, event,
                   published, joinedAt>>

\* Defect: send_nowait, which drops what is not taken at once.
SentWithoutWaiting ==
    /\ listener = "sending"
    /\ listener' = "next"
    /\ event' = 0
    /\ pending' = {}
    /\ UNCHANGED <<layer, chan, opens, pc, lock, subscribers, layerVars, history>>

\* All have the event.
Sent ==
    /\ listener = "sending" /\ pending = {}
    /\ listener' = "next"
    /\ event' = 0
    /\ UNCHANGED <<layer, chan, opens, pc, lock, subscribers, layerVars, pending, history>>

\* s has stopped iterating: send raises (ClosedResourceError, BrokenResourceError),
\* the listener dies of it, and its task group cancels the block of the channel.
SendFails(s) ==
    /\ listener = "sending" /\ s \in pending /\ pc[s] # "in"
    /\ listener' = "dead"
    /\ chan' = "failed"
    /\ pending' = {}
    /\ UNCHANGED <<layer, opens, pc, lock, subscribers, layerVars, event, history>>

\* Redis: ListenerClosed, because the connection is lost, ends the listener, quietly.
\* That of PostgreSQL waits on its stream for ever.
ListenerCloses ==
    /\ layer = "redis" /\ link = "lost"
    /\ listener = "next" /\ wire = <<>>
    /\ listener' = "dead"
    /\ UNCHANGED <<layer, chan, opens, pc, lock, subscribers, layerVars, event, pending, history>>

\* Redis: any other error of next_published, an event that cannot be read for one.
ListenerFails ==
    /\ "error" \in LayerFaults /\ layer = "redis"
    /\ listener = "next"
    /\ listener' = "dead"
    /\ chan' = "failed"
    /\ UNCHANGED wire \/ (wire # <<>> /\ wire' = Tail(wire))
    /\ UNCHANGED <<layer, opens, pc, lock, subscribers, link, layerSubs, commands, left, late,
                   event, pending, history>>

Listener == NextPublished \/ Snapshot \/ Sent \/ \E s \in Subs : SendFails(s)

\* What a broker and the connection to it do.
Broker == ServerCommand \/ ConnectionLost \/ Reconnect \/ LeftoverPasses

Settling(s) ==
    \/ JoinGroup(s) \/ StartGroup(s) \/ GroupStarted(s) \/ SubscribeFails(s)
    \/ LeaveGroup(s) \/ StopGroup(s) \/ GroupStopped(s) \/ UnsubscribeFails(s)
    \/ LeaveUnknown(s)

Next ==
    \/ Open \/ Close \/ CloseRaises
    \/ Broker \/ Listener \/ ListenerCloses \/ ListenerFails
    \/ \E g \in Groups : Publish(g)
    \/ \E s \in Subs : \/ Subscribe(s) \/ Settling(s) \/ CancelJoin(s) \/ Leave(s)
                       \/ LeaveTimeout(s) \/ Deliver(s)

Spec == Init /\ [][Next]_vars

\* The tasks of one event loop run; anyio.Lock is first come, first served, so
\* whoever waits for the manager lock gets it.  A call of the layer ends, one way
\* or the other.  Subscribers keep iterating and leave when the failed channel
\* cancels them.
Fairness ==
    /\ WF_vars(Listener) /\ WF_vars(ServerCommand)
    /\ \A s \in Subs : /\ WF_vars(Settling(s))
                      /\ WF_vars(Deliver(s))
                      /\ WF_vars(chan = "failed" /\ (Leave(s) \/ CancelJoin(s)))
    /\ WF_vars(chan = "failed" /\ CloseRaises)

FairSpec == Spec /\ Fairness

-----------------------------------------------------------------------------
\* The last command about g that the server has not taken yet.
IsLast(k, g) == /\ commands[k].group = g
                /\ \A j \in DOMAIN commands : j > k => commands[j].group # g

\* Whether the layer passes on g once the server is through with its commands.
PassesOn(g) ==
    \/ \E k \in DOMAIN commands : IsLast(k, g) /\ commands[k].subscribe
    \/ g \in layerSubs /\ \A k \in DOMAIN commands : commands[k].group # g

\* A member of its group, or not yet or no longer to be one.
Orderly(s) == /\ pc[s] # "raised"
              /\ pc[s] = "leaving" => s \in subscribers[GroupOf[s]]

Settled(g) == /\ lock = Nobody /\ chan = "open"
              /\ \A s \in Subs : GroupOf[s] = g => Orderly(s)

\* The manager lock keeps the two sets in step.  While the layer has a connection,
\* a group with subscribers is one it passes on (on Redis even after the connection
\* was lost and made again).  Over the first connection, when nobody holds the lock,
\* it passes on no other, unless a call of the layer about that group broke off.
LayerFollows ==
    \A g \in Groups :
        /\ link \in {"up", "again"} /\ subscribers[g] # {} => PassesOn(g)
        /\ link = "up" /\ PassesOn(g) /\ Settled(g) => subscribers[g] # {}

\* The manager lock is held by one that awaits the layer, so it is free again
\* when the channel is closed, whatever failed.
LockIsLive ==
    /\ lock # Nobody => pc[lock] \in {"subscribing", "unsubscribing"}
    /\ chan = "closed" => lock = Nobody

OfGroup(s, e) == published[e] = GroupOf[s]

\* A subscriber gets events of its group only, and, unless a PostgreSQL connection
\* that an earlier exit left open still listens to something, in the order of
\* publication, each at most once: also when the connection is lost and made again,
\* and when the channel is entered after it has failed.
InOrder ==
    \A s \in Subs : \A k \in DOMAIN received[s] :
        /\ OfGroup(s, received[s][k])
        /\ left = {} /\ k > 1 => received[s][k - 1] < received[s][k]

\* ... and on the in-memory layer none is left out between two that it gets, not
\* even before it subscribed.  (A broker passes nothing on while the group is not
\* subscribed; an event that the listener held meanwhile goes to the next one to
\* subscribe, who then lacks what was published in between.)
NoGaps ==
    layer = "memory" => \A s \in Subs : \A k \in DOMAIN received[s] \ {1} :
        \A e \in received[s][k - 1] + 1 .. received[s][k] - 1 : ~OfGroup(s, e)

Got(s, e) == \E k \in DOMAIN received[s] : received[s][k] = e

OnTheWay(s, e) ==
    \/ \E k \in DOMAIN wire : wire[k] = e
    \/ event = e /\ listener = "locking"
    \/ event = e /\ listener = "sending" /\ s \in pending

\* Nothing about the group of s is on its way to the Redis server.
Heard(s) == \A k \in DOMAIN commands : commands[k].group # GroupOf[s]

\* Whatever is published to its group from then on reaches a subscriber that keeps
\* iterating: it has it or it is on its way, as long as the listener lives and the
\* connection has not been lost.  From when subscribe() has returned, that is, but
\* on Redis from when the server has taken the SUBSCRIBE.
NothingMissed ==
    \A s \in Subs : pc[s] = "in" /\ listener # "dead" /\ link = "up" /\ Heard(s) =>
        \A e \in joinedAt[s] + 1 .. Len(published) :
            OfGroup(s, e) => Got(s, e) \/ OnTheWay(s, e)

\* What is on its way arrives, unless the subscriber leaves, the listener dies or
\* the connection is lost.
Delivered ==
    \A s \in Subs, e \in Events :
        pc[s] = "in" /\ OnTheWay(s, e) /\ OfGroup(s, e)
            ~> Got(s, e) \/ pc[s] # "in" \/ listener = "dead" \/ link # "up"

\* A failed channel does not hang: its tasks are cancelled, they get the manager
\* lock, also from one whose call of the layer fails, and the block ends.
FailureEnds == chan = "failed" ~> chan = "closed"

\* "use it in a scope, where it can be cancelled/stopped ... or simply with an
\* exiting message", docs/receipts/channels.md: that one subscriber stops is no
\* failure of the channel.
LeavingIsHarmless == chan # "failed"
=============================================================================

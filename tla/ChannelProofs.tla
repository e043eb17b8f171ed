---------------------------- MODULE ChannelProofs ----------------------------
(***************************************************************************)
(* Proofs about Channel, for any groups and subscribers, any number of     *)
(* events and of entries, and whatever the layer and its faults.           *)
(***************************************************************************)
EXTENDS ChannelInvariant, SequenceTheorems, TLAPS

\* What a subscriber does but for taking an event.
Subscription(s) == \/ Subscribe(s) \/ Settling(s) \/ CancelJoin(s) \/ Leave(s)
                   \/ LeaveTimeout(s)

\* What becomes of an event that is on its way.
Passage == \/ NextPublished \/ Snapshot \/ Sent \/ ListenerCloses \/ ListenerFails
           \/ \E s \in Subs : Deliver(s) \/ SendFails(s)

\* The subscribers come and go without touching an event.
LEMMA SubscriptionFrame ==
    ASSUME NEW s \in Subs, Subscription(s)
    PROVE  UNCHANGED <<layer, chan, opens, link, wire, left, late, listener, event, pending,
                       published, received>>
  BY DEF Subscription, Settling, Subscribe, JoinGroup, StartGroup, GroupStarted, Joined,
         SubscribeFails, CancelJoin, Leave, LeaveGroup, StopGroup, GroupStopped,
         UnsubscribeFails, LeaveUnknown, LeaveTimeout, layerVars, listenerVars, history

\* The events pass without touching the subscriptions.
LEMMA PassageFrame ==
    ASSUME Passage
    PROVE  UNCHANGED <<layer, opens, pc, lock, subscribers, link, layerSubs, commands, left,
                       late, published, joinedAt>>
  BY DEF Passage, NextPublished, Snapshot, Sent, ListenerCloses, ListenerFails, Deliver,
         SendFails, layerVars, listenerVars, history

\* The broker touches neither.
LEMMA BrokerFrame ==
    ASSUME Broker
    PROVE  /\ UNCHANGED <<layer, chan, opens, pc, lock, subscribers, left, listener, event,
                         pending, published, received>>
           /\ joinedAt' = joinedAt \/ ServerCommand
  BY DEF Broker, ServerCommand, ConnectionLost, Reconnect, LeftoverPasses, layerVars,
         listenerVars, history

LEMMA NextCases ==
    ASSUME Next
    PROVE  \/ Open \/ Close \/ CloseRaises \/ Broker \/ Passage
           \/ \E g \in Groups : Publish(g)
           \/ \E s \in Subs : Subscription(s)
  BY DEF Next, Listener, Passage, Subscription

-----------------------------------------------------------------------------
\* The sequences that grow at one end and shrink at the other.
LEMMA AppendedWire ==
    ASSUME TypeOK, NEW e \in Events
    PROVE  /\ Append(wire, e) \in Seq(Events)
           /\ Len(Append(wire, e)) = Len(wire) + 1
           /\ \A k \in 1 .. Len(wire) : Append(wire, e)[k] = wire[k]
           /\ Append(wire, e)[Len(wire) + 1] = e
  BY AppendProperties DEF TypeOK

LEMMA AppendedPublished ==
    ASSUME TypeOK, NEW g \in Groups
    PROVE  /\ Append(published, g) \in Seq(Groups)
           /\ Len(Append(published, g)) = Len(published) + 1
           /\ \A k \in 1 .. Len(published) : Append(published, g)[k] = published[k]
           /\ Append(published, g)[Len(published) + 1] = g
  BY AppendProperties DEF TypeOK

LEMMA AppendedReceived ==
    ASSUME TypeOK, NEW s \in Subs, NEW e \in Events
    PROVE  /\ Append(received[s], e) \in Seq(Events)
           /\ Len(Append(received[s], e)) = Len(received[s]) + 1
           /\ \A k \in 1 .. Len(received[s]) : Append(received[s], e)[k] = received[s][k]
           /\ Append(received[s], e)[Len(received[s]) + 1] = e
  BY AppendProperties DEF TypeOK

\* ... or are cut off.
LEMMA CutWire ==
    ASSUME TypeOK, NEW n \in 0 .. Len(wire)
    PROVE  /\ SubSeq(wire, 1, n) \in Seq(Events)
           /\ Len(SubSeq(wire, 1, n)) = n /\ n <= Len(wire) /\ n \in Nat
           /\ \A k \in 1 .. n : k \in DOMAIN wire /\ SubSeq(wire, 1, n)[k] = wire[k]
<1>1. wire \in Seq(Events) /\ Len(wire) \in Nat /\ DOMAIN wire = 1 .. Len(wire)
  BY LenProperties DEF TypeOK
<1>2. \A k \in 1 .. n : k \in DOMAIN wire
  BY <1>1
<1>3. \A k \in 1 .. n : wire[k] \in Events
  BY <1>1, <1>2, ElementOfSeq
<1> QED
  BY <1>1, <1>2, <1>3, SubSeqProperties

LEMMA TailOfWire ==
    ASSUME TypeOK, wire # <<>>
    PROVE  /\ Head(wire) \in Events /\ Head(wire) = wire[1] /\ 1 \in DOMAIN wire
           /\ Tail(wire) \in Seq(Events)
           /\ Len(Tail(wire)) = Len(wire) - 1
           /\ \A k \in 1 .. Len(wire) - 1 : Tail(wire)[k] = wire[k + 1]
  BY HeadTailProperties, EmptySeq, LenProperties DEF TypeOK

Command == [subscribe: BOOLEAN, group: Groups]

LEMMA AppendedCommands ==
    ASSUME TypeOK, NEW c \in Command
    PROVE  /\ Append(commands, c) \in Seq(Command)
           /\ Len(Append(commands, c)) = Len(commands) + 1
           /\ \A k \in 1 .. Len(commands) : Append(commands, c)[k] = commands[k]
           /\ Append(commands, c)[Len(commands) + 1] = c
  BY AppendProperties DEF TypeOK, Command

LEMMA TailOfCommands ==
    ASSUME TypeOK, commands # <<>>
    PROVE  /\ Head(commands) \in Command /\ Head(commands) = commands[1]
           /\ 1 \in DOMAIN commands
           /\ Tail(commands) \in Seq(Command)
           /\ Len(Tail(commands)) = Len(commands) - 1
           /\ \A k \in 1 .. Len(commands) - 1 : Tail(commands)[k] = commands[k + 1]
<1>1. commands \in Seq(Command)
  BY DEF TypeOK, Command
<1> QED
  BY <1>1, HeadTailProperties, EmptySeq, LenProperties

\* The calls of the layer keep its variables where they belong.
LEMMA LayerCallType ==
    ASSUME TypeOK, NEW g \in Groups, LayerSubscribe(g) \/ LayerUnsubscribe(g)
    PROVE  layerSubs' \subseteq Groups /\ commands' \in Seq(Command)
<1>1. [subscribe |-> TRUE, group |-> g] \in Command /\ [subscribe |-> FALSE, group |-> g] \in Command
  BY DEF Command
<1>2. commands \in Seq(Command) /\ layerSubs \subseteq Groups
  BY DEF TypeOK, Command
<1> QED
  BY <1>1, <1>2, AppendedCommands DEF LayerSubscribe, LayerUnsubscribe

\* Every action keeps the variables where they belong.
LEMMA TypeStep == ChannelInv /\ [Next]_vars => TypeOK'
<1> SUFFICES ASSUME ChannelInv, [Next]_vars
             PROVE  TypeOK'
  OBVIOUS
<1> USE ChannelAssumption DEF layerVars, listenerVars, history, Points, Goto
<1>a. TypeOK /\ OrderInv
  BY DEF ChannelInv
<1>1. CASE Open
  <2>1. wire' \in Seq(Events) /\ link' \in Links
    BY <1>a, <1>1, EmptySeq DEF TypeOK, Open, Links
  <2>2. left' \subseteq (1 .. MaxOpens) \X Groups /\ layerSubs' \subseteq Groups
    <3>1. layerSubs \subseteq Groups /\ left \subseteq (1 .. MaxOpens) \X Groups
      BY <1>a DEF TypeOK
    <3>2. layerSubs # {} => opens \in 1 .. MaxOpens
      BY <1>a DEF TypeOK, ChannelInv, LayerInv, LockInv
    <3>3. {opens} \X layerSubs \subseteq (1 .. MaxOpens) \X Groups
      BY <3>1, <3>2
    <3> QED
      BY <1>1, <3>1, <3>3 DEF Open
  <2> QED
    BY <1>a, <1>1, <2>1, <2>2 DEF TypeOK, Open
<1>2. CASE Close
  BY <1>a, <1>2, EmptySeq DEF TypeOK, Close, BlockEnds, Links
<1>3. CASE Broker
  <2>1. CASE ServerCommand
    <3>1. Len(published) \in 0 .. MaxEvents
      BY <1>a, LenProperties DEF TypeOK, OrderInv
    <3> QED
      BY <1>a, <2>1, <3>1, TailOfCommands DEF TypeOK, ServerCommand, Command
  <2>2. CASE ConnectionLost
    <3>1. layerSubs' \subseteq Groups
      <4>1. \A k \in DOMAIN commands : commands[k].group \in Groups
        <5>1. commands \in Seq(Command)
          BY <1>a DEF TypeOK, Command
        <5>2. \A k \in DOMAIN commands : commands[k] \in Command
          BY <5>1, ElementOfSeq, LenProperties
        <5> QED
          BY <5>2 DEF Command
      <4>2. layerSubs \subseteq Groups
        BY <1>a DEF TypeOK
      <4> QED
        BY <2>2, <4>1, <4>2 DEF ConnectionLost
    <3>2. wire' \in Seq(Events)
      BY <1>a, <2>2, CutWire DEF ConnectionLost
    <3>3. commands' \in Seq(Command)
      BY <2>2, EmptySeq DEF ConnectionLost
    <3> QED
      BY <1>a, <2>2, <3>1, <3>2, <3>3 DEF TypeOK, ConnectionLost, Command, Links
  <2>3. CASE Reconnect
    BY <1>a, <2>3 DEF TypeOK, Reconnect, Links
  <2>4. CASE LeftoverPasses
    <3>1. wire' \in Seq(Events) /\ late' \subseteq late
      BY <1>a, <2>4, AppendedWire DEF LeftoverPasses
    <3> QED
      BY <1>a, <2>4, <3>1 DEF TypeOK, LeftoverPasses
  <2> QED
    BY <1>3, <2>1, <2>2, <2>3, <2>4 DEF Broker
<1>4. ASSUME NEW g \in Groups, Publish(g)
      PROVE  TypeOK'
  <2>1. Len(published) \in Nat /\ Len(published) + 1 \in Events
    BY <1>a, <1>4, LenProperties DEF TypeOK, Publish, Events
  <2>2. wire' \in Seq(Events) /\ published' \in Seq(Groups)
    BY <1>a, <1>4, <2>1, AppendedWire, AppendedPublished DEF TypeOK, Publish, PassedOn
  <2>3. late' \subseteq (1 .. MaxOpens) \X Events
    <3>1. late \subseteq (1 .. MaxOpens) \X Events
      BY <1>a DEF TypeOK
    <3>2. late' = late \cup {<<k, Len(published) + 1>> : k \in {j \in 1 .. MaxOpens : <<j, g>> \in left}}
      BY <1>4 DEF Publish, PassedOn
    <3>3. \A k \in 1 .. MaxOpens : <<k, Len(published) + 1>> \in (1 .. MaxOpens) \X Events
      BY <2>1
    <3> QED
      BY <3>1, <3>2, <3>3
  <2> QED
    BY <1>a, <1>4, <2>2, <2>3 DEF TypeOK, Publish
<1>5. ASSUME NEW s \in Subs, Subscription(s)
      PROVE  TypeOK'
  <2>1. GroupOf[s] \in Groups /\ Len(published) \in 0 .. MaxEvents
    BY <1>a, LenProperties DEF TypeOK, OrderInv
  <2>2. CASE Subscribe(s)
    BY <1>a, <2>2 DEF TypeOK, Subscribe
  <2>3. CASE JoinGroup(s)
    BY <1>a, <2>1, <2>3 DEF TypeOK, JoinGroup, Joined
  <2>4. CASE StartGroup(s)
    BY <1>a, <2>4 DEF TypeOK, StartGroup
  <2>5. CASE GroupStarted(s)
    BY <1>a, <2>1, <2>5, LayerCallType DEF TypeOK, GroupStarted, Joined, Command
  <2>6. CASE LeaveGroup(s)
    BY <1>a, <2>1, <2>6 DEF TypeOK, LeaveGroup
  <2>7. CASE StopGroup(s)
    BY <1>a, <2>1, <2>7 DEF TypeOK, StopGroup
  <2>8. CASE GroupStopped(s)
    BY <1>a, <2>1, <2>8, LayerCallType DEF TypeOK, GroupStopped, Command
  <2>9. CASE LeaveUnknown(s)
    BY <1>a, <2>9 DEF TypeOK, LeaveUnknown
  <2>10. CASE CancelJoin(s)
    BY <1>a, <2>1, <2>10, LayerCallType DEF TypeOK, CancelJoin, CallBreaks, Command
  <2>11. CASE Leave(s)
    BY <1>a, <2>11 DEF TypeOK, Leave
  <2>12. CASE LeaveTimeout(s)
    BY <1>a, <2>1, <2>12, LayerCallType DEF TypeOK, LeaveTimeout, CallBreaks, Command
  <2>13. CASE SubscribeFails(s)
    BY <1>a, <2>1, <2>13, LayerCallType DEF TypeOK, SubscribeFails, CallBreaks, Command
  <2>14. CASE UnsubscribeFails(s)
    BY <1>a, <2>1, <2>14, LayerCallType DEF TypeOK, UnsubscribeFails, CallBreaks, Command
  <2> QED
    BY <1>5, <2>2, <2>3, <2>4, <2>5, <2>6, <2>7, <2>8, <2>9, <2>10, <2>11, <2>12, <2>13, <2>14
       DEF Subscription, Settling
<1>6. CASE NextPublished
  BY <1>a, <1>6, TailOfWire DEF TypeOK, NextPublished
<1>7. CASE Snapshot
  <2>1. published[event] \in Groups
    BY <1>a, <1>7, ElementOfSeq DEF TypeOK, OrderInv, Handling, Snapshot
  <2> QED
    BY <1>a, <1>7, <2>1 DEF TypeOK, Snapshot
<1>8. CASE Sent
  BY <1>a, <1>8 DEF TypeOK, Sent
<1>9. CASE ListenerCloses
  BY <1>a, <1>9 DEF TypeOK, ListenerCloses
<1>10. ASSUME NEW s \in Subs, Deliver(s)
       PROVE  TypeOK'
  <2>1. event \in Events
    BY <1>a, <1>10, LenProperties DEF TypeOK, OrderInv, Handling, Deliver, Events
  <2> QED
    BY <1>a, <1>10, <2>1, AppendedReceived DEF TypeOK, Deliver
<1>11. ASSUME NEW s \in Subs, SendFails(s)
       PROVE  TypeOK'
  BY <1>a, <1>11 DEF TypeOK, SendFails
<1>12. CASE UNCHANGED vars
  BY <1>a, <1>12 DEF TypeOK, vars
<1>13. CASE CloseRaises
  BY <1>a, <1>13 DEF TypeOK, CloseRaises, BlockEnds
<1>14. CASE ListenerFails
  BY <1>a, <1>14, TailOfWire DEF TypeOK, ListenerFails
<1> QED
  BY <1>1, <1>2, <1>3, <1>4, <1>5, <1>6, <1>7, <1>8, <1>9, <1>10, <1>11, <1>12, <1>13, <1>14,
     NextCases
     DEF Passage

\* Whoever takes the manager lock awaits the layer, and lets go of it with the await.
LEMMA LockStep == ChannelInv /\ [Next]_vars => LockInv'
<1> SUFFICES ASSUME ChannelInv, [Next]_vars
             PROVE  LockInv'
  OBVIOUS
<1> USE ChannelAssumption DEF layerVars, listenerVars, history, Goto
<1>a. TypeOK /\ LockInv /\ MembersInv
  BY DEF ChannelInv
<1>1. CASE Open
  BY <1>a, <1>1 DEF TypeOK, LockInv, Open
<1>2. CASE Close \/ CloseRaises
  BY <1>a, <1>2 DEF TypeOK, LockInv, Close, CloseRaises, BlockEnds, AllEnded
<1>3. CASE Broker
  BY <1>a, <1>3, BrokerFrame DEF LockInv
<1>4. ASSUME NEW g \in Groups, Publish(g)
      PROVE  LockInv'
  BY <1>a, <1>4 DEF TypeOK, LockInv, Publish
<1>5. ASSUME NEW s \in Subs, Subscription(s)
      PROVE  LockInv'
  <2>1. CASE Subscribe(s)
    BY <1>a, <2>1 DEF TypeOK, LockInv, Subscribe
  <2>2. CASE JoinGroup(s)
    BY <1>a, <2>2 DEF TypeOK, LockInv, JoinGroup, Joined
  <2>3. CASE StartGroup(s)
    BY <1>a, <2>3 DEF TypeOK, LockInv, StartGroup
  <2>4. CASE GroupStarted(s)
    BY <1>a, <2>4 DEF TypeOK, LockInv, GroupStarted, Joined
  <2>5. CASE LeaveGroup(s)
    BY <1>a, <2>5 DEF TypeOK, LockInv, LeaveGroup
  <2>6. CASE StopGroup(s)
    BY <1>a, <2>6 DEF TypeOK, LockInv, StopGroup
  <2>7. CASE GroupStopped(s)
    BY <1>a, <2>7 DEF TypeOK, LockInv, GroupStopped
  <2>8. CASE LeaveUnknown(s)
    BY <1>a, <2>8 DEF TypeOK, LockInv, LeaveUnknown
  <2>9. CASE CancelJoin(s)
    <3>1. chan' # "closed"
      BY <1>a, <2>9 DEF LockInv, CancelJoin
    <3>2. CASE pc[s] = "joining" /\ UNCHANGED lock
      BY <1>a, <2>9, <3>1, <3>2 DEF TypeOK, LockInv, CancelJoin
    <3>3. CASE pc[s] = "subscribing" /\ lock' = Nobody
      BY <1>a, <2>9, <3>1, <3>3 DEF TypeOK, LockInv, CancelJoin
    <3> QED
      BY <2>9, <3>2, <3>3 DEF CancelJoin, CallBreaks
  <2>10. CASE Leave(s)
    BY <1>a, <2>10 DEF TypeOK, LockInv, Leave
  <2>11. CASE LeaveTimeout(s)
    <3>1. chan' # "closed"
      BY <1>a, <2>11 DEF LockInv, LeaveTimeout
    <3>2. CASE pc[s] = "leaving" /\ UNCHANGED lock
      BY <1>a, <2>11, <3>1, <3>2 DEF TypeOK, LockInv, LeaveTimeout
    <3>3. CASE pc[s] = "unsubscribing" /\ lock' = Nobody
      BY <1>a, <2>11, <3>1, <3>3 DEF TypeOK, LockInv, LeaveTimeout
    <3> QED
      BY <2>11, <3>2, <3>3 DEF LeaveTimeout, CallBreaks
  <2>12. CASE SubscribeFails(s)
    BY <1>a, <2>12 DEF TypeOK, LockInv, SubscribeFails, CallBreaks
  <2>13. CASE UnsubscribeFails(s)
    BY <1>a, <2>13 DEF TypeOK, LockInv, UnsubscribeFails, CallBreaks
  <2> QED
    BY <1>5, <2>1, <2>2, <2>3, <2>4, <2>5, <2>6, <2>7, <2>8, <2>9, <2>10, <2>11, <2>12, <2>13
       DEF Subscription, Settling
<1>6. CASE NextPublished
  BY <1>a, <1>6 DEF TypeOK, LockInv, NextPublished
<1>7. CASE Snapshot
  BY <1>a, <1>7 DEF TypeOK, LockInv, Snapshot
<1>8. CASE Sent
  BY <1>a, <1>8 DEF TypeOK, LockInv, Sent
<1>9. CASE ListenerCloses
  BY <1>a, <1>9 DEF TypeOK, LockInv, ListenerCloses
<1>10. ASSUME NEW s \in Subs, Deliver(s)
       PROVE  LockInv'
  BY <1>a, <1>10 DEF TypeOK, LockInv, Deliver
<1>11. ASSUME NEW s \in Subs, SendFails(s)
       PROVE  LockInv'
  BY <1>a, <1>11 DEF TypeOK, LockInv, SendFails
<1>12. CASE UNCHANGED vars
  BY <1>a, <1>12 DEF TypeOK, LockInv, vars
<1>13. CASE ListenerFails
  BY <1>a, <1>13 DEF TypeOK, LockInv, ListenerFails
<1> QED
  BY <1>1, <1>2, <1>3, <1>4, <1>5, <1>6, <1>7, <1>8, <1>9, <1>10, <1>11, <1>12, <1>13, NextCases
     DEF Passage

\* The set of a group has whoever iterates, and changes only while no call of the
\* layer is under way.
LEMMA MembersStep == ChannelInv /\ [Next]_vars => MembersInv'
<1> SUFFICES ASSUME ChannelInv, [Next]_vars
             PROVE  MembersInv'
  OBVIOUS
<1> USE ChannelAssumption DEF layerVars, listenerVars, history, Goto
<1>a. TypeOK /\ LockInv /\ MembersInv
  BY DEF ChannelInv
<1>1. CASE Open
  BY <1>a, <1>1 DEF MembersInv, Open
<1>2. CASE Close \/ CloseRaises
  <2>1. AllEnded /\ pc' = pc /\ \A g \in Groups : subscribers'[g] = {}
    BY <1>2 DEF Close, CloseRaises, BlockEnds
  <2> QED
    BY <1>a, <2>1 DEF MembersInv, AllEnded
<1>3. CASE Broker
  BY <1>a, <1>3, BrokerFrame DEF MembersInv
<1>4. ASSUME NEW g \in Groups, Publish(g)
      PROVE  MembersInv'
  BY <1>a, <1>4 DEF MembersInv, Publish
<1>5. ASSUME NEW s \in Subs, Subscription(s)
      PROVE  MembersInv'
  <2>1. CASE Subscribe(s)
    BY <1>a, <2>1 DEF TypeOK, LockInv, MembersInv, Subscribe
  <2>2. CASE JoinGroup(s)
    BY <1>a, <2>2 DEF TypeOK, LockInv, MembersInv, JoinGroup, Joined
  <2>3. CASE StartGroup(s)
    BY <1>a, <2>3 DEF TypeOK, LockInv, MembersInv, StartGroup
  <2>4. CASE GroupStarted(s)
    BY <1>a, <2>4 DEF TypeOK, LockInv, MembersInv, GroupStarted, Joined
  <2>5. CASE LeaveGroup(s)
    BY <1>a, <2>5 DEF TypeOK, LockInv, MembersInv, LeaveGroup
  <2>6. CASE StopGroup(s)
    BY <1>a, <2>6 DEF TypeOK, LockInv, MembersInv, StopGroup
  <2>7. CASE GroupStopped(s)
    BY <1>a, <2>7 DEF TypeOK, LockInv, MembersInv, GroupStopped
  <2>8. CASE LeaveUnknown(s)
    BY <1>a, <2>8 DEF TypeOK, LockInv, MembersInv, LeaveUnknown
  <2>9. CASE CancelJoin(s)
    BY <1>a, <2>9 DEF TypeOK, LockInv, MembersInv, CancelJoin
  <2>10. CASE Leave(s)
    BY <1>a, <2>10 DEF TypeOK, LockInv, MembersInv, Leave
  <2>11. CASE LeaveTimeout(s)
    BY <1>a, <2>11 DEF TypeOK, LockInv, MembersInv, LeaveTimeout
  <2>12. CASE SubscribeFails(s)
    BY <1>a, <2>12 DEF TypeOK, LockInv, MembersInv, SubscribeFails
  <2>13. CASE UnsubscribeFails(s)
    BY <1>a, <2>13 DEF TypeOK, LockInv, MembersInv, UnsubscribeFails
  <2> QED
    BY <1>5, <2>1, <2>2, <2>3, <2>4, <2>5, <2>6, <2>7, <2>8, <2>9, <2>10, <2>11, <2>12, <2>13
       DEF Subscription, Settling
<1>6. CASE Passage
  BY <1>a, <1>6, PassageFrame DEF MembersInv
<1>7. CASE UNCHANGED vars
  BY <1>a, <1>7 DEF MembersInv, vars
<1> QED
  BY <1>1, <1>2, <1>3, <1>4, <1>5, <1>6, <1>7, NextCases

-----------------------------------------------------------------------------
\* What the layer is to pass on in the end does not change when the server takes
\* a command.
LEMMA CommandTaken ==
    ASSUME TypeOK, ServerCommand, NEW g \in Groups
    PROVE  PassesOn(g)' <=> PassesOn(g)
<1> DEFINE c == Head(commands)
<1>1. /\ c = commands[1] /\ c \in Command /\ 1 \in DOMAIN commands
      /\ commands' = Tail(commands) /\ Len(commands') = Len(commands) - 1
      /\ \A k \in 1 .. Len(commands) - 1 : commands'[k] = commands[k + 1]
      /\ layerSubs' = IF c.subscribe THEN layerSubs \cup {c.group} ELSE layerSubs \ {c.group}
  BY TailOfCommands DEF ServerCommand
<1>2. Len(commands) \in Nat /\ DOMAIN commands = 1 .. Len(commands)
      /\ DOMAIN commands' = 1 .. Len(commands) - 1
  BY <1>1, TailOfCommands, LenProperties DEF TypeOK, ServerCommand
<1> HIDE DEF c
<1>3. ASSUME PassesOn(g)
      PROVE  PassesOn(g)'
  <2>1. CASE g \in layerSubs /\ \A k \in DOMAIN commands : commands[k].group # g
    BY <1>1, <1>2, <2>1 DEF PassesOn
  <2>2. ASSUME NEW k \in DOMAIN commands, IsLast(k, g), commands[k].subscribe
        PROVE  PassesOn(g)'
    <3>1. CASE k = 1
      BY <1>1, <1>2, <2>2, <3>1 DEF PassesOn, IsLast
    <3>2. CASE k # 1
      <4>1. k - 1 \in DOMAIN commands' /\ IsLast(k - 1, g)' /\ commands'[k - 1].subscribe
        BY <1>1, <1>2, <2>2, <3>2 DEF IsLast
      <4> QED
        BY <4>1 DEF PassesOn
    <3> QED
      BY <3>1, <3>2
  <2> QED
    BY <1>3, <2>1, <2>2 DEF PassesOn
<1>4. ASSUME PassesOn(g)'
      PROVE  PassesOn(g)
  <2>1. CASE g \in layerSubs' /\ \A k \in DOMAIN commands' : commands'[k].group # g
    <3>1. \A k \in DOMAIN commands : k > 1 => commands[k].group # g
      <4>1. \A k \in DOMAIN commands : k > 1 => k - 1 \in DOMAIN commands' /\ commands'[k - 1] = commands[k]
        BY <1>1, <1>2
      <4> QED
        BY <2>1, <4>1
    <3>2. CASE c.group = g
      BY <1>1, <1>2, <2>1, <3>1, <3>2 DEF PassesOn, IsLast
    <3>3. CASE c.group # g
      BY <1>1, <1>2, <2>1, <3>1, <3>3 DEF PassesOn
    <3> QED
      BY <3>2, <3>3
  <2>2. ASSUME NEW k \in DOMAIN commands', IsLast(k, g)', commands'[k].subscribe
        PROVE  PassesOn(g)
    <3>1. k + 1 \in DOMAIN commands /\ commands[k + 1].group = g /\ commands[k + 1].subscribe
      BY <1>1, <1>2, <2>2 DEF IsLast
    <3>2. ASSUME NEW j \in DOMAIN commands, j > k + 1
          PROVE  commands[j].group # g
      <4>1. j - 1 \in DOMAIN commands' /\ j - 1 > k /\ commands'[j - 1] = commands[j]
        BY <1>1, <1>2, <2>2, <3>2
      <4> QED
        BY <2>2, <4>1 DEF IsLast
    <3> QED
      BY <3>1, <3>2 DEF PassesOn, IsLast
  <2> QED
    BY <1>4, <2>1, <2>2 DEF PassesOn
<1> QED
  BY <1>3, <1>4

\* No command is on its way to a server.
Speechless == layer # "redis" \/ link = "lost"

\* A call of the layer decides about its own group and no other.
LEMMA LayerTold ==
    ASSUME TypeOK, Speechless => commands = <<>>, NEW g \in Groups,
           NEW on \in BOOLEAN, IF on THEN LayerSubscribe(g) ELSE LayerUnsubscribe(g)
    PROVE  /\ on => PassesOn(g)'
           /\ ~on /\ link # "lost" => ~PassesOn(g)'
           /\ \A h \in Groups \ {g} : PassesOn(h)' <=> PassesOn(h)
           /\ Speechless => commands' = <<>>
<1>1. CASE Speechless
  BY <1>1, EmptySeq DEF Speechless, LayerSubscribe, LayerUnsubscribe, PassesOn
<1>2. CASE ~Speechless
  <2> DEFINE c == [subscribe |-> on, group |-> g]
  <2>1. c \in Command /\ commands' = Append(commands, c) /\ layerSubs' = layerSubs
    BY <1>2 DEF Speechless, Command, LayerSubscribe, LayerUnsubscribe
  <2>2. c.group = g /\ c.subscribe = on
    OBVIOUS
  <2> HIDE DEF c
  <2>3. PICK n \in Nat : n = Len(commands) + 1
    BY LenProperties DEF TypeOK
  <2>4. /\ DOMAIN commands = 1 .. n - 1 /\ DOMAIN commands' = 1 .. n
        /\ commands'[n] = c
        /\ \A k \in DOMAIN commands : commands'[k] = commands[k]
    BY <2>1, <2>3, AppendedCommands, LenProperties DEF TypeOK, Command
  <2>5. PassesOn(g)' <=> on
    <3>1. \A k \in DOMAIN commands' : IsLast(k, g)' => k = n
      BY <2>2, <2>3, <2>4 DEF IsLast
    <3>2. IsLast(n, g)'
      BY <2>2, <2>3, <2>4 DEF IsLast
    <3> QED
      BY <2>2, <2>3, <2>4, <3>1, <3>2 DEF PassesOn, IsLast
  <2>6. ASSUME NEW h \in Groups \ {g}
        PROVE  PassesOn(h)' <=> PassesOn(h)
    <3>1. \A k \in DOMAIN commands : IsLast(k, h)' <=> IsLast(k, h)
      BY <2>2, <2>3, <2>4 DEF IsLast
    <3>2. ~ IsLast(n, h)'
      BY <2>2, <2>3, <2>4 DEF IsLast
    <3> QED
      BY <2>1, <2>2, <2>3, <2>4, <3>1, <3>2 DEF PassesOn
  <2> QED
    BY <1>2, <2>5, <2>6
<1> QED
  BY <1>1, <1>2

\* Where nothing is said to the layer, nothing changes for it.
LEMMA LayerNotTold ==
    ASSUME UNCHANGED <<layerSubs, commands>>
    PROVE  \A g \in Groups : PassesOn(g)' <=> PassesOn(g)
  BY DEF PassesOn, IsLast

\* A subscriber is of no concern to the other groups.
LEMMA OtherGroups ==
    ASSUME ChannelInv, NEW s \in Subs, Subscription(s), NEW h \in Groups, h # GroupOf[s]
    PROVE  /\ subscribers'[h] = subscribers[h]
           /\ PassesOn(h)' <=> PassesOn(h)
           /\ Undisturbed(h)' <=> Undisturbed(h)
           /\ StoppedBy(lock, h) => StoppedBy(lock, h)'
<1> USE ChannelAssumption DEF layerVars, listenerVars, history, Goto
<1>a. TypeOK /\ LockInv /\ LayerInv /\ GroupOf[s] \in Groups /\ (Speechless => commands = <<>>)
  BY DEF ChannelInv, LayerInv, Speechless
<1>b. /\ subscribers'[h] = subscribers[h]
      /\ \A t \in Subs : t # s => pc'[t] = pc[t]
      /\ lock' = lock \/ (lock = Nobody /\ lock' = s) \/ (lock = s /\ lock' = Nobody)
  BY <1>a DEF TypeOK, LockInv, Subscription, Settling, Subscribe, JoinGroup, StartGroup,
     GroupStarted, Joined, LeaveGroup, StopGroup, GroupStopped, LeaveUnknown, CancelJoin,
     Leave, LeaveTimeout, SubscribeFails, UnsubscribeFails, CallBreaks
<1>c. \/ UNCHANGED <<layerSubs, commands>>
      \/ LayerSubscribe(GroupOf[s]) \/ LayerUnsubscribe(GroupOf[s])
  BY DEF Subscription, Settling, Subscribe, JoinGroup, StartGroup,
     GroupStarted, Joined, LeaveGroup, StopGroup, GroupStopped, LeaveUnknown, CancelJoin,
     Leave, LeaveTimeout, SubscribeFails, UnsubscribeFails, CallBreaks
<1>1. PassesOn(h)' <=> PassesOn(h)
  BY <1>a, <1>c, LayerNotTold, LayerTold, Zenon DEF LayerInv
<1>2. Undisturbed(h)' <=> Undisturbed(h)
  BY <1>a, <1>b DEF Undisturbed, Orderly
<1>3. StoppedBy(lock, h) => StoppedBy(lock, h)'
  BY <1>a, <1>b DEF StoppedBy, TypeOK
<1> QED
  BY <1>b, <1>1, <1>2, <1>3

\* While the subscribers of a group come and go the layer follows them: its calls
\* are made by the first and the last of them, with the lock held.
LEMMA OwnGroup ==
    ASSUME ChannelInv, NEW s \in Subs, Subscription(s), NEW g, g = GroupOf[s]
    PROVE  /\ subscribers'[g] # {} => PassesOn(g)' \/ (layer = "postgres" /\ link = "lost")
           /\ link = "up" /\ PassesOn(g)' /\ Undisturbed(g)'
                => subscribers'[g] # {} \/ StoppedBy(lock, g)'
<1> USE ChannelAssumption DEF layerVars, listenerVars, history, Goto
<1>a. /\ TypeOK /\ LockInv /\ MembersInv /\ g \in Groups
      /\ Speechless => commands = <<>>
      /\ subscribers[g] # {} => PassesOn(g) \/ (layer = "postgres" /\ link = "lost")
      /\ link = "up" /\ PassesOn(g) /\ Undisturbed(g) => subscribers[g] # {} \/ StoppedBy(lock, g)
  BY DEF ChannelInv, LayerInv, Speechless
<1>b. UNCHANGED <<layerSubs, commands>> => (PassesOn(g)' <=> PassesOn(g))
  BY <1>a, LayerNotTold
<1>c. LayerSubscribe(g) => PassesOn(g)'
  BY <1>a, LayerTold, Zenon
<1>d. LayerUnsubscribe(g) /\ link # "lost" => ~PassesOn(g)'
  BY <1>a, LayerTold, Zenon
<1>e. subscribers \in [Groups -> SUBSET Subs] /\ pc \in [Subs -> Points]
  BY <1>a DEF TypeOK
<1>1. CASE Subscribe(s)
  BY <1>a, <1>b, <1>e, <1>1 DEF MembersInv, Undisturbed, StoppedBy, Orderly, Subscribe
<1>2. CASE JoinGroup(s)
  BY <1>a, <1>b, <1>e, <1>2 DEF MembersInv, Undisturbed, StoppedBy, Orderly, JoinGroup,
     Joined
<1>3. CASE StartGroup(s)
  BY <1>a, <1>b, <1>e, <1>3 DEF MembersInv, Undisturbed, StoppedBy, Orderly, StartGroup
<1>4. CASE GroupStarted(s)
  BY <1>a, <1>c, <1>e, <1>4 DEF GroupStarted, Joined
<1>5. CASE LeaveGroup(s)
  BY <1>a, <1>b, <1>e, <1>5 DEF MembersInv, Undisturbed, StoppedBy, Orderly, LeaveGroup
<1>6. CASE StopGroup(s)
  BY <1>a, <1>b, <1>e, <1>6 DEF MembersInv, Undisturbed, StoppedBy, Orderly, StopGroup
<1>7. CASE GroupStopped(s)
  BY <1>a, <1>d, <1>e, <1>7 DEF MembersInv, GroupStopped
<1>8. CASE LeaveUnknown(s)
  BY <1>a, <1>b, <1>e, <1>8 DEF MembersInv, Undisturbed, StoppedBy, Orderly, LeaveUnknown
<1>9. CASE CancelJoin(s) \/ SubscribeFails(s)
  <2>1. subscribers'[g] = subscribers[g] /\ ~ Orderly(s)'
    BY <1>a, <1>e, <1>9 DEF MembersInv, Orderly, CancelJoin, SubscribeFails
  <2>2. subscribers[g] # {} => PassesOn(g)' \/ (layer = "postgres" /\ link = "lost")
    BY <1>a, <1>b, <1>9 DEF MembersInv, CancelJoin, SubscribeFails
  <2> QED
    BY <2>1, <2>2 DEF Undisturbed
<1>10. CASE Leave(s)
  BY <1>a, <1>b, <1>e, <1>10 DEF MembersInv, Undisturbed, StoppedBy, Orderly, Leave
<1>11. CASE LeaveTimeout(s) \/ UnsubscribeFails(s)
  <2>1. subscribers'[g] = subscribers[g] /\ ~ Orderly(s)'
    BY <1>a, <1>e, <1>11 DEF Orderly, LeaveTimeout, UnsubscribeFails
  <2>2. subscribers[g] # {} => PassesOn(g)' \/ (layer = "postgres" /\ link = "lost")
    BY <1>a, <1>b, <1>11 DEF MembersInv, LeaveTimeout, UnsubscribeFails
  <2> QED
    BY <1>a, <2>1, <2>2 DEF Undisturbed
<1> QED
  BY <1>1, <1>2, <1>3, <1>4, <1>5, <1>6, <1>7, <1>8, <1>9, <1>10, <1>11
     DEF Subscription, Settling

\* When every subscriber has ended, those that are left in a set broke off.
LEMMA NobodyLeft ==
    ASSUME ChannelInv, AllEnded, NEW g \in Groups, link = "up", PassesOn(g)
    PROVE  ~Undisturbed(g)
<1>1. ~StoppedBy(lock, g)
  BY DEF ChannelInv, TypeOK, AllEnded, StoppedBy
<1>2. \A s \in subscribers[g] : s \in Subs /\ GroupOf[s] = g /\ pc[s] = "raised"
  BY DEF ChannelInv, TypeOK, MembersInv, AllEnded
<1> QED
  BY <1>1, <1>2 DEF ChannelInv, LayerInv, Undisturbed, Orderly

LEMMA LayerStep == ChannelInv /\ [Next]_vars => LayerInv'
<1> SUFFICES ASSUME ChannelInv, [Next]_vars
             PROVE  LayerInv'
  OBVIOUS
<1> USE ChannelAssumption DEF layerVars, listenerVars, history
<1>a. TypeOK /\ LockInv /\ LayerInv
  BY DEF ChannelInv
<1>1. CASE Open
  <2>1. \A g \in Groups : subscribers'[g] = {}
    BY <1>a, <1>1 DEF LockInv, Open
  <2>2. AllEnded /\ UNCHANGED <<layer, pc, subscribers, commands>>
    BY <1>a, <1>1 DEF LockInv, AllEnded, Open
  <2>3. /\ layer # "redis" => commands' = <<>> /\ link' # "again"
        /\ layer = "memory" => link' # "lost"
        /\ link' \in {"up", "again"} /\ opens' # 0
    BY <1>a, <1>1 DEF TypeOK, LayerInv, Open
  <2>4. ASSUME NEW g \in Groups, link' = "up", PassesOn(g)'
        PROVE  ~Undisturbed(g)'
    <3>1. layer # "postgres" /\ UNCHANGED <<layerSubs, commands>>
      BY <1>a, <1>1, <2>4, EmptySeq DEF LayerInv, PassesOn, Open
    <3>2. PassesOn(g)
      BY <2>4, <3>1, LayerNotTold
    <3>3. link # "none"
      BY <1>a, <3>2, EmptySeq DEF LayerInv, PassesOn
    <3>4. link = "up"
      BY <1>a, <1>1, <2>4, <3>1, <3>3 DEF TypeOK, Links, LayerInv, Open
    <3>5. ~Undisturbed(g)
      BY <2>2, <3>2, <3>4, NobodyLeft
    <3> QED
      BY <2>2, <3>5 DEF Undisturbed, Orderly
  <2> QED
    BY <2>1, <2>2, <2>3, <2>4 DEF LayerInv
<1>2. CASE Close
  BY <1>2, EmptySeq DEF LayerInv, PassesOn, Undisturbed, Close, BlockEnds, TypeOK, ChannelInv
<1>3. CASE CloseRaises
  <2>1. /\ AllEnded /\ UNCHANGED <<layer, opens, pc, link, layerSubs, commands>>
        /\ \A g \in Groups : subscribers'[g] = {}
    BY <1>3 DEF CloseRaises, BlockEnds
  <2>2. ASSUME NEW g \in Groups, link' = "up", PassesOn(g)', Undisturbed(g)'
        PROVE  FALSE
    <3>1. ~Undisturbed(g)
      BY <2>1, <2>2, LayerNotTold, NobodyLeft
    <3> QED
      BY <2>1, <2>2, <3>1 DEF Undisturbed, Orderly, AllEnded
  <2> QED
    BY <1>a, <1>3, <2>1, <2>2 DEF LayerInv, CloseRaises, BlockEnds
<1>4. CASE Broker
  <2>1. UNCHANGED <<layer, chan, opens, pc, lock, subscribers>>
    BY <1>4, BrokerFrame
  <2>2. CASE ServerCommand
    <3>1. \A g \in Groups : PassesOn(g)' <=> PassesOn(g)
      BY <1>a, <2>2, CommandTaken
    <3> QED
      BY <1>a, <2>1, <2>2, <3>1 DEF LayerInv, Undisturbed, StoppedBy, Orderly, ServerCommand
  <2>3. CASE ConnectionLost
    <3>1. link' = "lost" /\ commands' = <<>> /\ layer # "memory" /\ link # "none"
      BY <2>3 DEF ConnectionLost
    <3>2. ASSUME NEW g \in Groups, PassesOn(g), layer = "redis"
          PROVE  PassesOn(g)'
      <4>1. g \in layerSubs'
        BY <2>3, <3>2 DEF ConnectionLost, PassesOn, IsLast
      <4> QED
        BY <3>1, <4>1, EmptySeq DEF PassesOn
    <3> QED
      BY <1>a, <2>1, <3>1, <3>2 DEF TypeOK, LayerInv
  <2>4. CASE Reconnect
    BY <1>a, <2>1, <2>4, LayerNotTold DEF LayerInv, Reconnect
  <2>5. CASE LeftoverPasses
    <3>1. UNCHANGED <<link, layerSubs, commands>>
      BY <2>5 DEF LeftoverPasses
    <3> QED
      BY <1>a, <2>1, <3>1, LayerNotTold DEF LayerInv, Undisturbed, StoppedBy, Orderly
  <2> QED
    BY <1>4, <2>2, <2>3, <2>4, <2>5 DEF Broker
<1>5. ASSUME NEW g \in Groups, Publish(g)
      PROVE  LayerInv'
  BY <1>a, <1>5, LayerNotTold DEF LayerInv, Undisturbed, StoppedBy, Orderly, Publish
<1>6. ASSUME NEW s \in Subs, Subscription(s)
      PROVE  LayerInv'
  <2>1. UNCHANGED <<layer, chan, opens, link>>
    BY <1>6, SubscriptionFrame
  <2>2. chan # "closed"
    BY <1>a, <1>6 DEF LockInv, Subscription, Settling, Subscribe, JoinGroup, StartGroup,
       GroupStarted, LeaveGroup, StopGroup, GroupStopped, LeaveUnknown, CancelJoin, Leave,
       LeaveTimeout, SubscribeFails, UnsubscribeFails
  <2>3. Speechless => commands' = <<>>
    BY <1>a, <1>6 DEF LayerInv, Speechless, LayerSubscribe, LayerUnsubscribe, Subscription,
       Settling, Subscribe, JoinGroup, StartGroup, GroupStarted, LeaveGroup, StopGroup,
       GroupStopped, LeaveUnknown, CancelJoin, Leave, LeaveTimeout, SubscribeFails,
       UnsubscribeFails, CallBreaks
  <2>4. ASSUME NEW g \in Groups
        PROVE  /\ subscribers'[g] # {} => PassesOn(g)' \/ (layer = "postgres" /\ link = "lost")
               /\ link = "up" /\ PassesOn(g)' /\ Undisturbed(g)'
                    => subscribers'[g] # {} \/ StoppedBy(lock, g)'
    BY <1>a, <1>6, OwnGroup, OtherGroups DEF LayerInv
  <2> QED
    BY <1>a, <2>1, <2>2, <2>3, <2>4 DEF LayerInv, Speechless
<1>7. CASE Passage
  <2>1. UNCHANGED <<layer, opens, pc, lock, subscribers, link, layerSubs, commands>>
        /\ (chan' # "closed" => chan # "closed")
    BY <1>a, <1>7, PassageFrame DEF LockInv, Passage, NextPublished, Snapshot, Sent,
       ListenerCloses, ListenerFails, Deliver, SendFails
  <2> QED
    BY <1>a, <2>1, LayerNotTold DEF LayerInv, Undisturbed, StoppedBy, Orderly
<1>8. CASE UNCHANGED vars
  BY <1>a, <1>8, LayerNotTold DEF LayerInv, Undisturbed, StoppedBy, Orderly, vars
<1> QED
  BY <1>1, <1>2, <1>3, <1>4, <1>5, <1>6, <1>7, <1>8, NextCases

\* Only a connection that is up when the channel is entered anew is left behind.
LEMMA LeftStep == ChannelInv /\ [Next]_vars => LeftInv' /\ (left' = {} => left = {})
<1> SUFFICES ASSUME ChannelInv, [Next]_vars
             PROVE  LeftInv' /\ (left' = {} => left = {})
  OBVIOUS
<1> USE DEF layerVars, listenerVars, history
<1>a. LeftInv
  BY DEF ChannelInv
<1>1. CASE Open
  BY <1>a, <1>1 DEF LeftInv, Open
<1>2. CASE Close \/ CloseRaises
  BY <1>a, <1>2 DEF LeftInv, Close, CloseRaises, BlockEnds
<1>3. CASE Broker
  <2>1. UNCHANGED <<layer, left>>
    BY <1>3, BrokerFrame
  <2>2. late' # {} => late # {}
    BY <1>3 DEF Broker, ServerCommand, ConnectionLost, Reconnect, LeftoverPasses
  <2> QED
    BY <1>a, <2>1, <2>2 DEF LeftInv
<1>4. ASSUME NEW g \in Groups, Publish(g)
      PROVE  LeftInv' /\ (left' = {} => left = {})
  BY <1>a, <1>4 DEF LeftInv, Publish, PassedOn
<1>5. ASSUME NEW s \in Subs, Subscription(s)
      PROVE  LeftInv' /\ (left' = {} => left = {})
  BY <1>a, <1>5, SubscriptionFrame DEF LeftInv
<1>6. CASE Passage
  BY <1>a, <1>6, PassageFrame DEF LeftInv
<1>7. CASE UNCHANGED vars
  BY <1>a, <1>7 DEF LeftInv, vars
<1> QED
  BY <1>1, <1>2, <1>3, <1>4, <1>5, <1>6, <1>7, NextCases

-----------------------------------------------------------------------------
LEMMA HistoryTypes ==
    ASSUME TypeOK
    PROVE  /\ Len(published) \in Nat /\ Len(wire) \in Nat /\ DOMAIN wire = 1 .. Len(wire)
           /\ \A k \in DOMAIN wire : wire[k] \in Nat /\ wire[k] >= 1
           /\ \A s \in Subs :
                /\ Len(received[s]) \in Nat
                /\ DOMAIN received[s] = 1 .. Len(received[s])
                /\ \A k \in DOMAIN received[s] : received[s][k] \in Nat /\ received[s][k] >= 1
<1>1. \A q \in Seq(Events) : /\ Len(q) \in Nat /\ DOMAIN q = 1 .. Len(q)
                            /\ \A k \in DOMAIN q : q[k] \in Nat /\ q[k] >= 1
  BY LenProperties, ElementOfSeq, ChannelAssumption DEF Events
<1> QED
  BY <1>1, LenProperties DEF TypeOK

\* The wire is a queue, the listener takes one event at a time, and a subscriber
\* is handed that one at most once.
LEMMA OrderStep == ChannelInv /\ [Next]_vars => OrderInv'
<1> SUFFICES ASSUME ChannelInv, [Next]_vars
             PROVE  OrderInv'
  OBVIOUS
<1> USE ChannelAssumption DEF layerVars, listenerVars, history
<1>a. TypeOK /\ LockInv /\ MembersInv /\ LeftInv /\ OrderInv
  BY DEF ChannelInv
<1>l. left' = {} => left = {}
  BY LeftStep
<1>b. /\ Len(published) \in Nat /\ Len(wire) \in Nat /\ DOMAIN wire = 1 .. Len(wire)
      /\ \A k \in DOMAIN wire : wire[k] \in Nat /\ wire[k] >= 1
      /\ \A s \in Subs : /\ Len(received[s]) \in Nat
                         /\ DOMAIN received[s] = 1 .. Len(received[s])
                         /\ \A k \in DOMAIN received[s] : received[s][k] \in Nat /\ received[s][k] >= 1
  BY <1>a, HistoryTypes
<1>1. CASE Open
  <2>1. wire' = <<>> \/ wire' = wire
    BY <1>1 DEF Open
  <2>2. UNCHANGED <<late, published, received, pending>> /\ listener' = "next" /\ listener = "dead"
    BY <1>a, <1>1 DEF TypeOK, LockInv, Open
  <2> QED
    BY <1>a, <1>l, <2>1, <2>2, EmptySeq DEF OrderInv, OfGroup, Handling, Awaits
<1>2. CASE Close \/ CloseRaises
  <2>1. wire' = <<>> \/ wire' = wire
    BY <1>2 DEF Close, CloseRaises
  <2>2. UNCHANGED <<late, published, received>> /\ pending' = {} /\ listener' = "dead"
    BY <1>2 DEF Close, CloseRaises, BlockEnds
  <2> QED
    BY <1>a, <1>l, <2>1, <2>2, EmptySeq DEF OrderInv, OfGroup, Handling, Awaits
<1>3. CASE Broker
  <2>1. UNCHANGED <<left, listener, event, pending, published, received>>
    BY <1>3, BrokerFrame
  <2>2. CASE ServerCommand \/ Reconnect
    <3>1. UNCHANGED <<wire, late>>
      BY <2>2 DEF ServerCommand, Reconnect
    <3> QED
      BY <1>a, <2>1, <3>1 DEF OrderInv, OfGroup, Handling, Awaits
  <2>3. CASE ConnectionLost
    <3>1. PICK n \in 0 .. Len(wire) : wire' = SubSeq(wire, 1, n)
      BY <2>3 DEF ConnectionLost
    <3>2. /\ DOMAIN wire' = 1 .. n /\ late' = late
          /\ \A k \in DOMAIN wire' : k \in DOMAIN wire /\ wire'[k] = wire[k]
      BY <1>a, <2>3, <3>1, CutWire, LenProperties DEF ConnectionLost
    <3> QED
      BY <1>a, <2>1, <3>2 DEF OrderInv, OfGroup, Handling, Awaits
  <2>4. CASE LeftoverPasses
    <3>1. PICK k \in 1 .. MaxOpens, e \in Events :
            <<k, e>> \in late /\ late' = late \ {<<k, e>>} /\ wire' = Append(wire, e)
      BY <2>4 DEF LeftoverPasses
    <3>2. /\ left # {} /\ e <= Len(published)
          /\ \A p \in late' : p \in late
      BY <1>a, <3>1 DEF LeftInv, OrderInv
    <3>3. \A j \in DOMAIN wire' : (j \in DOMAIN wire /\ wire'[j] = wire[j]) \/ wire'[j] = e
      BY <1>a, <1>b, <3>1, AppendedWire, LenProperties
    <3> QED
      BY <1>a, <2>1, <3>2, <3>3 DEF OrderInv, OfGroup, Handling, Awaits
  <2> QED
    BY <1>3, <2>2, <2>3, <2>4 DEF Broker
<1>4. ASSUME NEW g \in Groups, Publish(g)
      PROVE  OrderInv'
  <2>1. /\ Len(published') = Len(published) + 1 /\ Len(published) + 1 \in Events
        /\ \A k \in 1 .. Len(published) : published'[k] = published[k]
        /\ UNCHANGED <<left, listener, event, pending, received>>
    BY <1>a, <1>b, <1>4, AppendedPublished DEF Publish, Events
  <2>2. PICK e \in Events : e = Len(published) + 1
    BY <2>1
  <2>3. \/ wire' = wire
        \/ /\ DOMAIN wire' = 1 .. Len(wire) + 1
           /\ \A k \in DOMAIN wire : wire'[k] = wire[k]
           /\ wire'[Len(wire) + 1] = e
    <3>1. CASE wire' = Append(wire, e)
      BY <1>a, <1>b, <3>1, AppendedWire, LenProperties
    <3> QED
      BY <1>4, <2>2, <3>1 DEF Publish, PassedOn
  <2>4. \A k \in DOMAIN wire' :
           \/ k \in DOMAIN wire /\ wire'[k] = wire[k]
           \/ k = Len(wire) + 1 /\ wire'[k] = e
    BY <1>b, <2>3
  <2>5. \A k \in DOMAIN wire' :
           /\ wire'[k] <= e
           /\ left = {} =>
                /\ Handling => event < wire'[k]
                /\ \A j \in DOMAIN wire' : j < k => wire'[j] < wire'[k]
    BY <1>a, <1>b, <2>2, <2>4 DEF OrderInv
  <2>6. Handling => event \in 1 .. e
    BY <1>a, <1>b, <2>2 DEF OrderInv
  <2>7. \A t \in pending : listener = "sending" /\ GroupOf[t] = published'[event]
    BY <1>a, <2>1 DEF OrderInv, Handling
  <2>8. \A t \in Subs : \A i \in DOMAIN received[t] :
           /\ received[t][i] <= e
           /\ published'[received[t][i]] = GroupOf[t]
           /\ left = {} => \A k \in DOMAIN wire' : received[t][i] < wire'[k]
    BY <1>a, <1>b, <2>1, <2>2, <2>4 DEF OrderInv, OfGroup
  <2>9. \A p \in late' : p[2] <= e
    <3>1. \A p \in late' : p \in late \/ \E k \in 1 .. MaxOpens : p = <<k, e>>
      BY <1>4, <2>2 DEF Publish, PassedOn
    <3>2. \A p \in late : p[2] \in Nat /\ p[2] <= Len(published)
      BY <1>a, ChannelAssumption DEF TypeOK, OrderInv, Events
    <3> QED
      BY <1>b, <2>2, <3>1, <3>2
  <2> QED
    BY <1>a, <1>b, <2>1, <2>2, <2>5, <2>6, <2>7, <2>8, <2>9, MaxEvents \in Nat
       DEF OrderInv, OfGroup, Handling, Awaits, Events
<1>5. ASSUME NEW s \in Subs, Subscription(s)
      PROVE  OrderInv'
  BY <1>a, <1>5, SubscriptionFrame DEF OrderInv, OfGroup, Handling, Awaits
<1>6. CASE NextPublished
  <2>1. /\ wire[1] = Head(wire) /\ 1 \in DOMAIN wire
        /\ DOMAIN wire' = 1 .. Len(wire) - 1
        /\ \A k \in DOMAIN wire' : k + 1 \in DOMAIN wire /\ wire'[k] = wire[k + 1]
        /\ UNCHANGED <<left, late, published, received, pending>>
        /\ pending = {}
    BY <1>a, <1>b, <1>6, TailOfWire, LenProperties DEF OrderInv, NextPublished
  <2>2. /\ \A k \in DOMAIN wire' : wire'[k] <= Len(published)
        /\ left = {} =>
             /\ \A k \in DOMAIN wire' : wire[1] < wire'[k]
             /\ \A k \in DOMAIN wire', j \in DOMAIN wire' : j < k => wire'[j] < wire'[k]
             /\ \A t \in Subs : \A i \in DOMAIN received[t] : \A k \in DOMAIN wire' : received[t][i] < wire'[k]
             /\ \A t \in Subs : \A i \in DOMAIN received[t] : received[t][i] < wire[1]
        /\ wire[1] \in 1 .. Len(published)
    <3>1. \A k \in DOMAIN wire' : k \in Nat /\ k + 1 > 1 /\ k + 1 \in DOMAIN wire
      BY <1>b, <2>1
    <3>2. \A k \in DOMAIN wire', j \in DOMAIN wire' : j < k => j + 1 < k + 1
      BY <3>1
    <3> QED
      BY <1>a, <1>b, <2>1, <3>1, <3>2 DEF OrderInv
  <2>3. UNCHANGED <<listener, event>> \/ event' = wire[1]
    BY <1>6, <2>1 DEF NextPublished
  <2> QED
    BY <1>a, <1>b, <1>6, <2>1, <2>2, <2>3 DEF OrderInv, OfGroup, Handling, Awaits,
       NextPublished
<1>7. CASE Snapshot
  BY <1>a, <1>7, ElementOfSeq DEF TypeOK, MembersInv, OrderInv, OfGroup, Handling,
     Awaits, Snapshot
<1>8. CASE Sent
  BY <1>a, <1>8 DEF OrderInv, OfGroup, Handling, Awaits, Sent
<1>9. CASE ListenerCloses
  BY <1>a, <1>9 DEF OrderInv, OfGroup, Handling, Awaits, ListenerCloses
<1>13. CASE ListenerFails
  <2>1. UNCHANGED <<left, late, published, received, pending>>
        /\ listener = "next" /\ listener' = "dead"
    BY <1>13 DEF ListenerFails
  <2>2. CASE wire' = wire
    BY <1>a, <2>1, <2>2 DEF OrderInv, OfGroup, Handling, Awaits
  <2>3. CASE wire # <<>> /\ wire' = Tail(wire)
    <3>1. /\ DOMAIN wire' = 1 .. Len(wire) - 1
          /\ \A k \in DOMAIN wire' : /\ k \in Nat /\ k + 1 \in DOMAIN wire
                                     /\ wire'[k] = wire[k + 1]
      BY <1>a, <1>b, <2>3, TailOfWire, LenProperties
    <3>2. \A k \in DOMAIN wire', j \in DOMAIN wire' : j < k => j + 1 < k + 1
      BY <3>1
    <3> QED
      BY <1>a, <2>1, <3>1, <3>2 DEF OrderInv, OfGroup, Handling, Awaits
  <2> QED
    BY <1>13, <2>2, <2>3 DEF ListenerFails
<1>10. ASSUME NEW s \in Subs, Deliver(s)
       PROVE  OrderInv'
  <2>1. event \in Events /\ event \in 1 .. Len(published) /\ GroupOf[s] = published[event]
    BY <1>a, <1>10, <1>b DEF TypeOK, OrderInv, Handling, Deliver, Events
  <2>2. /\ DOMAIN received'[s] = 1 .. Len(received[s]) + 1
        /\ \A k \in DOMAIN received[s] : received'[s][k] = received[s][k]
        /\ received'[s][Len(received[s]) + 1] = event
        /\ \A t \in Subs \ {s} : received'[t] = received[t]
    <3>1. /\ Append(received[s], event) \in Seq(Events)
          /\ Len(Append(received[s], event)) = Len(received[s]) + 1
          /\ \A k \in 1 .. Len(received[s]) : Append(received[s], event)[k] = received[s][k]
          /\ Append(received[s], event)[Len(received[s]) + 1] = event
      BY <1>a, <2>1, AppendedReceived
    <3>2. /\ received'[s] = Append(received[s], event)
          /\ \A t \in Subs \ {s} : received'[t] = received[t]
      BY <1>a, <1>10 DEF TypeOK, Deliver
    <3> QED
      BY <1>b, <3>1, <3>2, LenProperties
  <2>3. /\ UNCHANGED <<wire, left, late, listener, event, published>>
        /\ listener = "sending" /\ s \in pending /\ pending' = pending \ {s}
    BY <1>10 DEF Deliver
  <2>4. \A t \in Subs : \A i \in DOMAIN received'[t] :
           /\ received'[t][i] <= Len(published)
           /\ OfGroup(t, received'[t][i])
           /\ left = {} =>
                /\ \A j \in DOMAIN received'[t] : i < j => received'[t][i] < received'[t][j]
                /\ \A k \in DOMAIN wire : received'[t][i] < wire[k]
                /\ received'[t][i] <= event
                /\ t \in pending' => received'[t][i] < event
    <3> SUFFICES ASSUME NEW t \in Subs, NEW i \in DOMAIN received'[t]
                 PROVE  /\ received'[t][i] <= Len(published)
                        /\ OfGroup(t, received'[t][i])
                        /\ left = {} =>
                             /\ \A j \in DOMAIN received'[t] : i < j => received'[t][i] < received'[t][j]
                             /\ \A k \in DOMAIN wire : received'[t][i] < wire[k]
                             /\ received'[t][i] <= event
                             /\ t \in pending' => received'[t][i] < event
      OBVIOUS
    <3>1. CASE t # s
      <4>1. received'[t] = received[t] /\ (t \in pending' => t \in pending)
        BY <2>2, <2>3, <3>1
      <4> QED
        BY <1>a, <2>3, <4>1 DEF OrderInv, Handling, Awaits
    <3>2. CASE t = s /\ i \in DOMAIN received[s]
      <4>1. /\ received'[t][i] = received[s][i]
            /\ received[s][i] <= Len(published) /\ OfGroup(s, received[s][i])
            /\ left = {} => /\ received[s][i] < event
                           /\ \A k \in DOMAIN wire : received[s][i] < wire[k]
        BY <1>a, <2>2, <2>3, <3>2 DEF OrderInv, Awaits
      <4>2. left = {} => \A j \in DOMAIN received'[t] : i < j => received[s][i] < received'[t][j]
        <5>1. left = {} => \A j \in DOMAIN received[s] : i < j => received[s][i] < received'[s][j]
          BY <1>a, <2>2, <3>2 DEF OrderInv
        <5> QED
          BY <1>b, <2>2, <3>2, <4>1, <5>1
      <4> QED
        BY <1>b, <2>1, <3>2, <4>1, <4>2
    <3>3. CASE t = s /\ i = Len(received[s]) + 1
      BY <1>a, <1>b, <2>1, <2>2, <2>3, <3>3 DEF OrderInv, Handling, Awaits, OfGroup
    <3> QED
      BY <1>b, <2>2, <3>1, <3>2, <3>3
  <2> QED
    BY <1>a, <2>1, <2>3, <2>4 DEF OrderInv, OfGroup, Handling, Awaits
<1>11. ASSUME NEW s \in Subs, SendFails(s)
       PROVE  OrderInv'
  BY <1>a, <1>11 DEF OrderInv, OfGroup, Handling, Awaits, SendFails
<1>12. CASE UNCHANGED vars
  BY <1>a, <1>12 DEF OrderInv, OfGroup, Handling, Awaits, vars
<1> QED
  BY <1>1, <1>2, <1>3, <1>4, <1>5, <1>6, <1>7, <1>8, <1>9, <1>10, <1>11, <1>12, <1>13, NextCases
     DEF Passage

-----------------------------------------------------------------------------
\* Where a subscriber is among its events, when neither it nor they move.
LEMMA NothingArrives ==
    ASSUME ChannelInv, UNCHANGED <<layer, published, received>>
    PROVE  NoGaps'
  BY DEF ChannelInv, NoGaps, OfGroup

\* The layer passes on the group of whoever iterates, while it has its connection and
\* no command about the group is on its way.
LEMMA HeardAtOnce ==
    ASSUME ChannelInv, link # "lost", NEW s \in Subs, pc[s] = "in", Heard(s)
    PROVE  GroupOf[s] \in layerSubs
<1>1. PassesOn(GroupOf[s])
  BY ChannelAssumption DEF ChannelInv, MembersInv, LayerInv
<1> QED
  BY <1>1 DEF PassesOn, IsLast, Heard

\* That is always so on the in-memory layer.
LEMMA MemoryHears ==
    ASSUME ChannelInv, layer = "memory", NEW s \in Subs, pc[s] = "in"
    PROVE  GroupOf[s] \in layerSubs
<1>1. commands = <<>> /\ link # "lost"
  BY DEF ChannelInv, LayerInv
<1> QED
  BY <1>1, HeardAtOnce, EmptySeq DEF Heard

\* An event of the in-memory layer that the listener drops is nobody's.
LEMMA MemoryStep == ChannelInv /\ [Next]_vars => MemoryInv' /\ NoGaps'
<1> SUFFICES ASSUME ChannelInv, [Next]_vars
             PROVE  MemoryInv' /\ NoGaps'
  OBVIOUS
<1> USE ChannelAssumption DEF layerVars, listenerVars, history, Goto
<1>a. TypeOK /\ LockInv /\ MembersInv /\ OrderInv /\ MemoryInv /\ NoGaps
  BY DEF ChannelInv
<1>b. /\ Len(published) \in Nat /\ Len(wire) \in Nat /\ DOMAIN wire = 1 .. Len(wire)
      /\ \A k \in DOMAIN wire : wire[k] \in Nat /\ wire[k] >= 1
      /\ \A s \in Subs : /\ Len(received[s]) \in Nat
                         /\ DOMAIN received[s] = 1 .. Len(received[s])
                         /\ \A k \in DOMAIN received[s] : received[s][k] \in Nat /\ received[s][k] >= 1
  BY <1>a, HistoryTypes
<1>c. \A s \in Subs : pc[s] \in {"out", "joining", "subscribing"} => received[s] = <<>>
  BY <1>a DEF MemoryInv
<1>1. CASE Open
  <2>1. NoGaps'
    BY <1>1, NothingArrives DEF Open
  <2>2. /\ \A s \in Subs : pc[s] # "in"
        /\ layer = "memory" => wire' = <<>>
    BY <1>a, <1>1 DEF LockInv, Open
  <2> QED
    BY <1>a, <1>b, <1>1, <2>1, <2>2, EmptySeq DEF MemoryInv, Handling, Taken, Open
<1>2. CASE Close \/ CloseRaises
  BY <1>a, <1>2, NothingArrives DEF MemoryInv, Close, CloseRaises, BlockEnds
<1>3. CASE Broker
  <2>1. UNCHANGED <<layer, pc, listener, event, pending, published, received>>
    BY <1>3, BrokerFrame
  <2>2. layer = "memory" => wire' = wire
    BY <1>a, <1>3 DEF ChannelInv, LayerInv, LeftInv, Broker, ServerCommand, ConnectionLost,
       Reconnect, LeftoverPasses
  <2> QED
    BY <1>a, <2>1, <2>2, NothingArrives DEF MemoryInv, Handling, Awaits, Taken, OfGroup
<1>4. ASSUME NEW g \in Groups, Publish(g)
      PROVE  MemoryInv' /\ NoGaps'
  <2>1. PICK e \in Events : e = Len(published) + 1
    BY <1>b, <1>4 DEF Publish, Events
  <2>2. /\ Len(published') = e /\ UNCHANGED <<layer, pc, listener, event, pending, received>>
        /\ \A k \in 1 .. Len(published) : published'[k] = published[k]
    BY <1>a, <1>4, <2>1, AppendedPublished DEF Publish
  <2>3. layer = "memory" => /\ Len(wire') = Len(wire) + 1
                            /\ DOMAIN wire' = 1 .. Len(wire) + 1
                            /\ \A k \in DOMAIN wire : wire'[k] = wire[k]
                            /\ wire'[Len(wire) + 1] = e
    <3>1. CASE wire' = Append(wire, e)
      BY <1>a, <1>b, <3>1, AppendedWire, LenProperties
    <3> QED
      BY <1>4, <2>1, <3>1 DEF Publish, PassedOn
  <2>4. layer = "memory" => Taken' = Taken
    BY <1>b, <2>1, <2>2, <2>3 DEF Taken
  <2>5. \A s \in Subs : \A k \in DOMAIN received[s] : received[s][k] <= Len(published)
    BY <1>a DEF OrderInv
  <2>6. NoGaps'
    <3>1. ASSUME layer = "memory", NEW s \in Subs, NEW k \in DOMAIN received[s] \ {1},
                 NEW f \in received[s][k - 1] + 1 .. received[s][k] - 1
          PROVE  published'[f] # GroupOf[s]
      <4>1. k - 1 \in DOMAIN received[s] /\ f \in 1 .. Len(published)
        BY <1>b, <2>5, <3>1
      <4> QED
        BY <1>a, <2>2, <3>1, <4>1 DEF NoGaps, OfGroup
    <3> QED
      BY <2>2, <3>1 DEF NoGaps, OfGroup
  <2>7. ASSUME layer = "memory", listener # "dead"
        PROVE  /\ Len(wire') <= Len(published')
               /\ \A k \in DOMAIN wire' : wire'[k] = Taken + k
               /\ \A s \in Subs : pc[s] = "in" /\ received[s] # <<>> =>
                    \A f \in received[s][Len(received[s])] + 1 .. Taken :
                       published'[f] = GroupOf[s] => f = event /\ Awaits(s)
    <3>1. Len(wire) <= Len(published) /\ \A k \in DOMAIN wire : wire[k] = Taken + k
      BY <1>a, <2>7 DEF MemoryInv
    <3>2. Len(wire') <= Len(published') /\ \A k \in DOMAIN wire' : wire'[k] = Taken + k
      <4>1. Taken + (Len(wire) + 1) = e /\ Len(wire) + 1 <= e
        BY <1>b, <2>1, <3>1 DEF Taken
      <4>2. \A k \in DOMAIN wire' : k \in DOMAIN wire \/ k = Len(wire) + 1
        BY <1>b, <2>3, <2>7
      <4> QED
        BY <2>2, <2>3, <2>7, <3>1, <4>1, <4>2
    <3>3. ASSUME NEW s \in Subs, pc[s] = "in", received[s] # <<>>,
                 NEW f \in received[s][Len(received[s])] + 1 .. Taken, published'[f] = GroupOf[s]
          PROVE  f = event /\ Awaits(s)
      <4>1. f \in 1 .. Len(published)
        <5>1. Len(received[s]) \in DOMAIN received[s]
          BY <1>a, <1>b, <3>3, EmptySeq DEF TypeOK
        <5> QED
          BY <1>b, <3>3, <5>1 DEF Taken
      <4> QED
        BY <1>a, <2>2, <2>7, <3>3, <4>1 DEF MemoryInv, OfGroup
    <3> QED
      BY <3>2, <3>3
  <2>8. MemoryInv'
    BY <1>a, <1>c, <2>2, <2>4, <2>7 DEF MemoryInv, Handling, Awaits, OfGroup
  <2> QED
    BY <2>6, <2>8
<1>5. ASSUME NEW s \in Subs, Subscription(s)
      PROVE  MemoryInv' /\ NoGaps'
  <2>1. UNCHANGED <<layer, chan, opens, wire, listener, event, pending, published, received>>
    BY <1>5, SubscriptionFrame
  <2>2. \A t \in Subs : /\ pc'[t] \in {"out", "joining", "subscribing"} =>
                             pc[t] \in {"out", "joining", "subscribing"}
                        /\ pc'[t] = "in" => pc[t] = "in" \/ received[t] = <<>>
    BY <1>a, <1>c, <1>5 DEF TypeOK, Subscription, Settling, Subscribe, JoinGroup, StartGroup,
       GroupStarted, Joined, LeaveGroup, StopGroup, GroupStopped, LeaveUnknown, CancelJoin,
       Leave, LeaveTimeout, SubscribeFails, UnsubscribeFails
  <2> QED
    BY <1>a, <2>1, <2>2, NothingArrives DEF MemoryInv, Handling, Awaits, Taken, OfGroup
<1>6. CASE NextPublished
  <2>1. /\ wire[1] = Head(wire) /\ 1 \in DOMAIN wire
        /\ Len(wire') = Len(wire) - 1 /\ DOMAIN wire' = 1 .. Len(wire) - 1
        /\ \A k \in DOMAIN wire' : k + 1 \in DOMAIN wire /\ wire'[k] = wire[k + 1]
        /\ UNCHANGED <<layer, pc, published, received, pending>>
    BY <1>a, <1>b, <1>6, TailOfWire, LenProperties DEF NextPublished
  <2>2. NoGaps'
    BY <2>1, NothingArrives
  <2>3. CASE layer = "memory"
    <3>1. /\ listener = "next" /\ Len(wire) <= Len(published) /\ wire[1] = Taken + 1
          /\ \A k \in DOMAIN wire' : wire'[k] = Taken + 1 + k
      BY <1>a, <1>b, <1>6, <2>1, <2>3 DEF MemoryInv, NextPublished, Taken
    <3>2. Taken' = Taken + 1 /\ Taken \in Nat
      BY <1>b, <2>1, <3>1 DEF Taken
    <3>3. \A s \in Subs : pc[s] = "in" /\ received[s] # <<>> =>
            \A f \in received[s][Len(received[s])] + 1 .. Taken : ~ OfGroup(s, f)
      BY <1>a, <2>3, <3>1 DEF MemoryInv, Awaits
    <3>4. \/ UNCHANGED <<listener, event>> /\ \A s \in Subs : pc[s] = "in" => ~ OfGroup(s, wire[1])
          \/ listener' = "locking" /\ event' = wire[1]
      BY <1>6, <2>1, <2>3, MemoryHears DEF NextPublished, OfGroup
    <3>5. \A s \in Subs : pc[s] = "in" /\ received[s] # <<>> =>
            \A f \in received[s][Len(received[s])] + 1 .. Taken + 1 :
              OfGroup(s, f) => f = wire[1] /\ listener' = "locking" /\ event' = wire[1]
      <4> SUFFICES ASSUME NEW s \in Subs, pc[s] = "in", received[s] # <<>>,
                          NEW f \in received[s][Len(received[s])] + 1 .. Taken + 1, OfGroup(s, f)
                   PROVE  f = wire[1] /\ listener' = "locking" /\ event' = wire[1]
        OBVIOUS
      <4>1. Len(received[s]) \in DOMAIN received[s]
        BY <1>a, <1>b, EmptySeq DEF TypeOK
      <4>2. f = Taken + 1
        BY <1>b, <3>2, <3>3, <4>1
      <4> QED
        BY <3>1, <3>4, <4>2
    <3>6. Len(wire') <= Len(published')
      BY <1>b, <2>1, <3>1
    <3>7. Handling' => event' = Taken + 1
      BY <3>1, <3>4 DEF Handling
    <3> QED
      BY <1>c, <2>1, <2>2, <3>1, <3>2, <3>5, <3>6, <3>7 DEF MemoryInv, Handling, Awaits,
         OfGroup
  <2>4. CASE layer # "memory"
    BY <1>c, <2>1, <2>2, <2>4 DEF MemoryInv
  <2> QED
    BY <2>3, <2>4
<1>7. CASE Snapshot
  <2>1. UNCHANGED <<layer, pc, wire, event, published, received>>
        /\ listener = "locking" /\ listener' = "sending" /\ pending' = subscribers[published[event]]
    BY <1>7 DEF Snapshot
  <2>2. \A s \in Subs : pc[s] = "in" /\ OfGroup(s, event) => Awaits(s)'
    BY <1>a, <2>1 DEF MembersInv, OfGroup, Awaits
  <2>3. NoGaps'
    BY <2>1, NothingArrives
  <2> QED
    BY <1>a, <2>1, <2>2, <2>3 DEF MemoryInv, Handling, Taken, OfGroup
<1>8. CASE Sent
  BY <1>a, <1>8, NothingArrives DEF MemoryInv, Handling, Awaits, Taken, OfGroup, Sent
<1>9. CASE ListenerCloses
  BY <1>a, <1>9, NothingArrives DEF MemoryInv, ListenerCloses
<1>13. CASE ListenerFails
  BY <1>a, <1>13, NothingArrives DEF MemoryInv, ListenerFails
<1>10. ASSUME NEW s \in Subs, Deliver(s)
       PROVE  MemoryInv' /\ NoGaps'
  <2>1. /\ event \in Events /\ event \in 1 .. Len(published) /\ GroupOf[s] = published[event]
        /\ pc[s] = "in" /\ listener = "sending" /\ s \in pending
        /\ pending' = pending \ {s}
        /\ UNCHANGED <<layer, pc, wire, listener, event, published>>
    BY <1>a, <1>10, <1>b DEF TypeOK, OrderInv, Handling, Deliver, Events
  <2>2. /\ Len(received'[s]) = Len(received[s]) + 1
        /\ DOMAIN received'[s] = 1 .. Len(received[s]) + 1
        /\ \A k \in DOMAIN received[s] : received'[s][k] = received[s][k]
        /\ received'[s][Len(received[s]) + 1] = event
        /\ \A t \in Subs \ {s} : received'[t] = received[t]
    <3>1. /\ Append(received[s], event) \in Seq(Events)
          /\ Len(Append(received[s], event)) = Len(received[s]) + 1
          /\ \A k \in 1 .. Len(received[s]) : Append(received[s], event)[k] = received[s][k]
          /\ Append(received[s], event)[Len(received[s]) + 1] = event
      BY <1>a, <2>1, AppendedReceived
    <3>2. /\ received'[s] = Append(received[s], event)
          /\ \A t \in Subs \ {s} : received'[t] = received[t]
      BY <1>a, <1>10 DEF TypeOK, Deliver
    <3> QED
      BY <1>b, <3>1, <3>2, LenProperties
  <2>3. layer = "memory" => event = Taken
    BY <1>a, <2>1 DEF MemoryInv, Handling
  <2>4. NoGaps'
    <3> SUFFICES ASSUME layer = "memory", NEW t \in Subs, NEW k \in DOMAIN received'[t] \ {1},
                        NEW f \in received'[t][k - 1] + 1 .. received'[t][k] - 1
                 PROVE  ~ OfGroup(t, f)
      BY <2>1 DEF NoGaps, OfGroup
    <3>1. CASE t # s
      BY <1>a, <2>2, <3>1 DEF NoGaps
    <3>2. CASE t = s /\ k \in DOMAIN received[s]
      <4>1. k - 1 \in DOMAIN received[s]
        BY <1>b, <3>2
      <4> QED
        BY <1>a, <2>2, <3>2, <4>1 DEF NoGaps
    <3>3. CASE t = s /\ k = Len(received[s]) + 1
      <4>1. Len(received[s]) \in DOMAIN received[s] /\ k - 1 = Len(received[s]) /\ received[s] # <<>>
        BY <1>b, <2>2, <3>3, EmptySeq
      <4>2. f \in received[s][Len(received[s])] + 1 .. event - 1
        BY <2>2, <3>3, <4>1
      <4>3. f \in received[s][Len(received[s])] + 1 .. Taken /\ f # event
        BY <1>b, <2>1, <2>3, <4>1, <4>2
      <4> QED
        BY <1>a, <2>1, <3>3, <4>1, <4>3 DEF MemoryInv
    <3> QED
      BY <1>b, <2>2, <3>1, <3>2, <3>3
  <2>5. ASSUME layer = "memory", NEW t \in Subs, pc[t] = "in", received'[t] # <<>>,
               NEW f \in received'[t][Len(received'[t])] + 1 .. Taken, OfGroup(t, f)
        PROVE  f = event /\ Awaits(t)'
    <3>1. CASE t # s
      <4>1. received'[t] = received[t] /\ (Awaits(t) => Awaits(t)')
        BY <2>1, <2>2, <3>1 DEF Awaits
      <4> QED
        BY <1>a, <2>1, <2>5, <4>1 DEF MemoryInv
    <3>2. CASE t = s
      BY <2>1, <2>2, <2>3, <2>5, <3>2 DEF Events
    <3> QED
      BY <3>1, <3>2
  <2>6. MemoryInv'
    <3>1. Taken' = Taken /\ Handling' = Handling
      BY <2>1 DEF Taken, Handling
    <3>2. \A t \in Subs : pc[t] \in {"out", "joining", "subscribing"} => received'[t] = <<>>
      BY <1>c, <2>1, <2>2
    <3> QED
      BY <1>a, <2>1, <2>5, <3>1, <3>2 DEF MemoryInv, OfGroup
  <2> QED
    BY <2>4, <2>6
<1>11. ASSUME NEW s \in Subs, SendFails(s)
       PROVE  MemoryInv' /\ NoGaps'
  BY <1>a, <1>11, NothingArrives DEF MemoryInv, SendFails
<1>12. CASE UNCHANGED vars
  BY <1>a, <1>12, NothingArrives DEF MemoryInv, Handling, Awaits, Taken, OfGroup, vars
<1> QED
  BY <1>1, <1>2, <1>3, <1>4, <1>5, <1>6, <1>7, <1>8, <1>9, <1>10, <1>11, <1>12, <1>13, NextCases
     DEF Passage

\* What was published for a subscriber goes from the wire to the listener, from
\* there to those that are in the set, and so to it.
LEMMA NothingMissedStep == ChannelInv /\ [Next]_vars => NothingMissed'
<1> SUFFICES ASSUME ChannelInv, [Next]_vars
             PROVE  NothingMissed'
  OBVIOUS
<1> USE ChannelAssumption DEF layerVars, listenerVars, history, Goto
<1>a. TypeOK /\ LockInv /\ MembersInv /\ OrderInv /\ NothingMissed
  BY DEF ChannelInv
<1>b. /\ Len(published) \in Nat /\ Len(wire) \in Nat /\ DOMAIN wire = 1 .. Len(wire)
      /\ \A k \in DOMAIN wire : wire[k] \in Nat /\ wire[k] >= 1
      /\ \A s \in Subs : /\ Len(received[s]) \in Nat
                         /\ DOMAIN received[s] = 1 .. Len(received[s])
                         /\ \A k \in DOMAIN received[s] : received[s][k] \in Nat /\ received[s][k] >= 1
  BY <1>a, HistoryTypes
<1>1. CASE Open
  BY <1>a, <1>1 DEF LockInv, NothingMissed, Open
<1>2. CASE Close \/ CloseRaises
  BY <1>2 DEF NothingMissed, Close, CloseRaises, BlockEnds
<1>3. CASE Broker
  <2>1. UNCHANGED <<pc, listener, event, pending, published, received>>
    BY <1>3, BrokerFrame
  <2>2. CASE ServerCommand
    <3>1. /\ wire' = wire /\ link' = link
          /\ \A s \in Subs : joinedAt'[s] = IF GroupOf[s] = Head(commands).group
                                           THEN Len(published) ELSE joinedAt[s]
      BY <2>2 DEF ServerCommand
    <3>2. ASSUME NEW s \in Subs, GroupOf[s] # Head(commands).group, Heard(s)'
          PROVE  Heard(s)
      <4>1. \A k \in DOMAIN commands : k # 1 => k - 1 \in DOMAIN commands' /\ commands'[k - 1] = commands[k]
        <5>1. /\ commands # <<>> /\ commands' = Tail(commands)
              /\ Len(commands) \in Nat /\ DOMAIN commands = 1 .. Len(commands)
          BY <1>a, <2>2, LenProperties DEF ServerCommand, TypeOK
        <5>2. DOMAIN commands' = 1 .. Len(commands) - 1
          BY <1>a, <5>1, TailOfCommands, LenProperties
        <5> QED
          BY <1>a, <5>1, <5>2, TailOfCommands
      <4>2. Head(commands) = commands[1]
        BY <1>a, <2>2, TailOfCommands DEF ServerCommand
      <4> QED
        BY <3>2, <4>1, <4>2 DEF Heard
    <3> QED
      BY <1>a, <1>b, <2>1, <3>1, <3>2 DEF NothingMissed, OfGroup, Got, OnTheWay
  <2>3. CASE ConnectionLost \/ Reconnect
    BY <2>3 DEF NothingMissed, ConnectionLost, Reconnect
  <2>4. CASE LeftoverPasses
    <3>1. PICK e \in Events : wire' = Append(wire, e) /\ UNCHANGED <<link, commands, joinedAt>>
      BY <2>4 DEF LeftoverPasses, history
    <3>2. \A k \in DOMAIN wire : k \in DOMAIN wire' /\ wire'[k] = wire[k]
      BY <1>a, <1>b, <3>1, AppendedWire, LenProperties
    <3>3. \A s \in Subs : \A f : OnTheWay(s, f) => OnTheWay(s, f)'
      BY <2>1, <3>2 DEF OnTheWay
    <3> QED
      BY <1>a, <2>1, <3>1, <3>3 DEF NothingMissed, Heard, OfGroup, Got
  <2> QED
    BY <1>3, <2>2, <2>3, <2>4 DEF Broker
<1>4. ASSUME NEW g \in Groups, Publish(g)
      PROVE  NothingMissed'
  <2>1. PICK e \in Events : e = Len(published) + 1
    BY <1>b, <1>4 DEF Publish, Events
  <2>2. /\ Len(published') = e
        /\ UNCHANGED <<pc, listener, event, pending, received, joinedAt, link, layerSubs, commands>>
        /\ \A k \in 1 .. Len(published) : published'[k] = published[k]
        /\ published'[e] = g
    BY <1>a, <1>4, <2>1, AppendedPublished DEF Publish
  <2>3. \/ wire' = wire /\ (link = "up" => g \notin layerSubs)
        \/ /\ DOMAIN wire' = 1 .. Len(wire) + 1
           /\ \A k \in DOMAIN wire : wire'[k] = wire[k]
           /\ wire'[Len(wire) + 1] = e
    <3>1. CASE wire' = Append(wire, e)
      BY <1>a, <1>b, <3>1, AppendedWire, LenProperties
    <3> QED
      BY <1>4, <2>1, <3>1 DEF Publish, PassedOn
  <2>4. ASSUME NEW s \in Subs, pc[s] = "in", listener # "dead", link = "up", Heard(s),
               NEW f \in joinedAt[s] + 1 .. e, published'[f] = GroupOf[s]
        PROVE  Got(s, f) \/ OnTheWay(s, f)'
    <3>1. CASE f = e
      <4>1. g \in layerSubs
        <5>1. GroupOf[s] = g /\ link # "lost"
          BY <2>2, <2>4, <3>1
        <5> QED
          BY <2>4, <5>1, HeardAtOnce
      <4> QED
        BY <1>b, <2>3, <2>4, <3>1, <4>1 DEF OnTheWay
    <3>2. CASE f # e
      <4>1. f \in joinedAt[s] + 1 .. Len(published) /\ f \in 1 .. Len(published)
        BY <1>a, <1>b, <2>1, <2>4, <3>2 DEF TypeOK
      <4>2. Got(s, f) \/ OnTheWay(s, f)
        BY <1>a, <2>2, <2>4, <4>1 DEF NothingMissed, OfGroup
      <4> QED
        BY <1>b, <2>2, <2>3, <4>2 DEF OnTheWay
    <3> QED
      BY <3>1, <3>2
  <2> QED
    BY <2>2, <2>4 DEF NothingMissed, Heard, OfGroup, Got
<1>5. ASSUME NEW s \in Subs, Subscription(s)
      PROVE  NothingMissed'
  <2>1. UNCHANGED <<link, wire, listener, event, pending, published, received>>
    BY <1>5, SubscriptionFrame
  <2>2. \A t \in Subs : pc'[t] = "in" => \/ pc[t] = "in" /\ joinedAt'[t] = joinedAt[t]
                                        \/ joinedAt'[t] = Len(published)
    BY <1>a, <1>5 DEF TypeOK, Subscription, Settling, Subscribe, JoinGroup, StartGroup,
       GroupStarted, Joined, LeaveGroup, StopGroup, GroupStopped, LeaveUnknown, CancelJoin,
       Leave, LeaveTimeout, SubscribeFails, UnsubscribeFails
  <2>4. \A t \in Subs : Heard(t)' => Heard(t)
    <3>1. commands' = commands \/ \E c \in Command : commands' = Append(commands, c)
      <4>1. \/ UNCHANGED <<layerSubs, commands>>
            \/ LayerSubscribe(GroupOf[s]) \/ LayerUnsubscribe(GroupOf[s])
        BY <1>5 DEF Subscription, Settling, Subscribe, JoinGroup, StartGroup,
           GroupStarted, Joined, LeaveGroup, StopGroup, GroupStopped, LeaveUnknown, CancelJoin,
           Leave, LeaveTimeout, SubscribeFails, UnsubscribeFails, CallBreaks
      <4>2. /\ [subscribe |-> TRUE, group |-> GroupOf[s]] \in Command
            /\ [subscribe |-> FALSE, group |-> GroupOf[s]] \in Command
        BY DEF Command
      <4> QED
        BY <4>1, <4>2 DEF LayerSubscribe, LayerUnsubscribe
    <3>2. \A k \in DOMAIN commands : k \in DOMAIN commands' /\ commands'[k] = commands[k]
      <4>1. ASSUME NEW c \in Command, commands' = Append(commands, c)
            PROVE  \A k \in DOMAIN commands : k \in DOMAIN commands' /\ commands'[k] = commands[k]
        BY <1>a, <4>1, AppendedCommands, LenProperties DEF TypeOK, Command
      <4> QED
        BY <3>1, <4>1
    <3> QED
      BY <3>2 DEF Heard
  <2>3. ASSUME NEW t \in Subs, pc'[t] = "in", listener # "dead", link = "up", Heard(t)',
               NEW e \in joinedAt'[t] + 1 .. Len(published), OfGroup(t, e)
        PROVE  Got(t, e) \/ OnTheWay(t, e)
    <3>1. pc[t] = "in" /\ joinedAt'[t] = joinedAt[t]
      BY <1>b, <2>2, <2>3
    <3> QED
      BY <1>a, <2>3, <2>4, <3>1 DEF NothingMissed
  <2> QED
    BY <2>1, <2>3 DEF NothingMissed, OfGroup, Got, OnTheWay
<1>6. CASE NextPublished
  <2>1. /\ wire[1] = Head(wire) /\ 1 \in DOMAIN wire
        /\ DOMAIN wire' = 1 .. Len(wire) - 1
        /\ \A k \in DOMAIN wire' : k + 1 \in DOMAIN wire /\ wire'[k] = wire[k + 1]
        /\ UNCHANGED <<link, commands, pc, published, received, pending, joinedAt>>
        /\ listener = "next"
    BY <1>a, <1>b, <1>6, TailOfWire, LenProperties DEF NextPublished
  <2>2. \A e : (\E k \in DOMAIN wire : wire[k] = e)
               => e = wire[1] \/ \E k \in DOMAIN wire' : wire'[k] = e
    <3>1. ASSUME NEW k \in DOMAIN wire, k # 1
          PROVE  \E j \in DOMAIN wire' : wire'[j] = wire[k]
      <4>1. k - 1 \in DOMAIN wire' /\ wire'[k - 1] = wire[k]
        BY <1>b, <2>1, <3>1
      <4> QED
        BY <4>1
    <3> QED
      BY <3>1
  <2>3. ASSUME NEW s \in Subs, pc[s] = "in", OfGroup(s, wire[1])
        PROVE  listener' = "locking" /\ event' = wire[1]
    BY <1>6, <2>1, <2>3, MemoryHears DEF NextPublished, OfGroup
  <2>4. ASSUME NEW s \in Subs, pc[s] = "in", listener' # "dead", link = "up", Heard(s),
               NEW e \in joinedAt[s] + 1 .. Len(published), OfGroup(s, e)
        PROVE  Got(s, e) \/ OnTheWay(s, e)'
    <3>1. Got(s, e) \/ \E k \in DOMAIN wire : wire[k] = e
      BY <1>a, <2>1, <2>4 DEF NothingMissed, OnTheWay
    <3> QED
      BY <2>2, <2>3, <2>4, <3>1 DEF OnTheWay
  <2> QED
    BY <2>1, <2>4 DEF NothingMissed, Heard, OfGroup, Got
<1>7. CASE Snapshot
  BY <1>a, <1>7 DEF MembersInv, NothingMissed, Heard, OfGroup, Got, OnTheWay, Snapshot
<1>8. CASE Sent
  BY <1>a, <1>8 DEF NothingMissed, Heard, OfGroup, Got, OnTheWay, Sent
<1>9. CASE ListenerCloses \/ ListenerFails
  BY <1>9 DEF NothingMissed, ListenerCloses, ListenerFails
<1>10. ASSUME NEW s \in Subs, Deliver(s)
       PROVE  NothingMissed'
  <2>1. /\ event \in Events /\ listener = "sending" /\ pending' = pending \ {s}
        /\ UNCHANGED <<link, commands, pc, wire, listener, event, published, joinedAt>>
    BY <1>a, <1>10, <1>b DEF TypeOK, OrderInv, Handling, Deliver, Events
  <2>2. /\ DOMAIN received'[s] = 1 .. Len(received[s]) + 1
        /\ \A k \in DOMAIN received[s] : received'[s][k] = received[s][k]
        /\ received'[s][Len(received[s]) + 1] = event
        /\ \A t \in Subs \ {s} : received'[t] = received[t]
    <3>1. /\ Append(received[s], event) \in Seq(Events)
          /\ Len(Append(received[s], event)) = Len(received[s]) + 1
          /\ \A k \in 1 .. Len(received[s]) : Append(received[s], event)[k] = received[s][k]
          /\ Append(received[s], event)[Len(received[s]) + 1] = event
      BY <1>a, <2>1, AppendedReceived
    <3>2. /\ received'[s] = Append(received[s], event)
          /\ \A t \in Subs \ {s} : received'[t] = received[t]
      BY <1>a, <1>10 DEF TypeOK, Deliver
    <3> QED
      BY <1>b, <3>1, <3>2, LenProperties
  <2>3. \A t \in Subs : \A e : Got(t, e) => Got(t, e)'
    BY <1>b, <2>2 DEF Got
  <2>4. Got(s, event)'
    BY <1>b, <2>1, <2>2 DEF Got
  <2>5. \A t \in Subs : \A e : OnTheWay(t, e) => OnTheWay(t, e)' \/ (t = s /\ e = event)
    BY <2>1 DEF OnTheWay
  <2> QED
    BY <1>a, <2>1, <2>3, <2>4, <2>5 DEF NothingMissed, Heard, OfGroup
<1>11. ASSUME NEW s \in Subs, SendFails(s)
       PROVE  NothingMissed'
  BY <1>11 DEF NothingMissed, SendFails
<1>12. CASE UNCHANGED vars
  BY <1>a, <1>12 DEF NothingMissed, Heard, OfGroup, Got, OnTheWay, vars
<1> QED
  BY <1>1, <1>2, <1>3, <1>4, <1>5, <1>6, <1>7, <1>8, <1>9, <1>10, <1>11, <1>12, NextCases
     DEF Passage

-----------------------------------------------------------------------------
LEMMA ChannelInvInit == Init => ChannelInv
<1> SUFFICES ASSUME Init
             PROVE  ChannelInv
  OBVIOUS
<1> USE ChannelAssumption, EmptySeq
<1>1. TypeOK
  BY DEF Init, TypeOK, Points, Links
<1>2. LockInv /\ MembersInv
  BY DEF Init, LockInv, MembersInv
<1>3. LayerInv /\ LeftInv
  BY DEF Init, LayerInv, LeftInv, PassesOn
<1>4. OrderInv /\ MemoryInv /\ NoGaps /\ NothingMissed
  BY DEF Init, OrderInv, MemoryInv, NoGaps, NothingMissed, Handling
<1> QED
  BY <1>1, <1>2, <1>3, <1>4 DEF ChannelInv

\* Every behaviour of the channel keeps the whole of its invariant, whatever the
\* layer does and whoever is cancelled.
THEOREM ChannelInvariance == Spec => []ChannelInv
<1>1. ChannelInv /\ [Next]_vars => ChannelInv'
  BY TypeStep, LockStep, MembersStep, LayerStep, LeftStep, OrderStep, MemoryStep, NothingMissedStep
     DEF ChannelInv
<1> QED
  BY <1>1, ChannelInvInit, PTL DEF Spec

\* The variables keep to their types, and the numbers of events to their bound.
THEOREM ChannelTypes == Spec => []TypeOK
<1>1. ChannelInv => TypeOK
  BY DEF ChannelInv
<1> QED
  BY <1>1, ChannelInvariance, PTL

\* The manager lock is held by one that awaits the layer only, and free when the
\* channel is closed: no failure or cancellation leaves it behind.
THEOREM LockNeverLeaks == Spec => []LockIsLive
<1>1. ChannelInv => LockIsLive
  BY ChannelAssumption DEF ChannelInv, TypeOK, LockInv, LockIsLive
<1> QED
  BY <1>1, ChannelInvariance, PTL

\* While the layer has a connection it passes on every group with subscribers; over
\* its first one, once the lock is free, no other if none of its calls broke off.
THEOREM LayerFollowsSubscribers == Spec => []LayerFollows
<1>1. ChannelInv => LayerFollows
  BY DEF ChannelInv, LayerInv, LayerFollows, Undisturbed, Settled, StoppedBy
<1> QED
  BY <1>1, ChannelInvariance, PTL

\* A subscriber gets events of its group only, and each at most once and in the order
\* in which they were published if no PostgreSQL connection was left open by an exit.
THEOREM OrderIsKept == Spec => []InOrder
<1>1. ChannelInv => InOrder
  <2> SUFFICES ASSUME ChannelInv, NEW s \in Subs, NEW k \in DOMAIN received[s]
               PROVE  /\ OfGroup(s, received[s][k])
                      /\ left = {} /\ k > 1 => received[s][k - 1] < received[s][k]
    BY DEF InOrder
  <2>1. DOMAIN received[s] = 1 .. Len(received[s]) /\ Len(received[s]) \in Nat
    BY HistoryTypes DEF ChannelInv
  <2>2. k > 1 => k - 1 \in DOMAIN received[s] /\ k - 1 < k
    BY <2>1
  <2> QED
    BY <2>2 DEF ChannelInv, OrderInv
<1> QED
  BY <1>1, ChannelInvariance, PTL

\* On the in-memory layer no event of its group is left out between two that a
\* subscriber gets.
THEOREM MemoryLeavesNoGaps == Spec => []NoGaps
<1>1. ChannelInv => NoGaps
  BY DEF ChannelInv
<1> QED
  BY <1>1, ChannelInvariance, PTL

\* What is published to its group after a subscriber has joined (on Redis: after the
\* server has heard of it) has reached it or is on its way, for as long as it
\* iterates, the listener lives and the connection is the first and holds.
THEOREM NothingIsMissed == Spec => []NothingMissed
<1>1. ChannelInv => NothingMissed
  BY DEF ChannelInv
<1> QED
  BY <1>1, ChannelInvariance, PTL
=============================================================================

--------------------------- MODULE LogBrokerProofs ---------------------------
(* The log broker, for any number of jobs, publishers and streams and any     *)
(* size of the channels: types, no send to a closed channel, and the abstract *)
(* feed it implements.                                                        *)
EXTENDS LogBroker, TLAPS

-----------------------------------------------------------------------------
(* The inductive invariant *)

(* the registry holds the streams that have subscribed and not unsubscribed *)
RegistryExact ==
    \A s \in Streams, j \in Jobs :
        s \in subscribers[j] <=> conn[s] \in {"open", "leaving"} /\ topic[s] = j

(* a stream has a topic while it is connected *)
Connected ==
    \A s \in Streams : conn[s] # "off" => topic[s] \in Jobs

(* a goroutine in Publish has a target; it offers lines only inside the lock *)
InPublish ==
    \A p \in Publishers :
        /\ pc[p] # "idle" => target[p] \in Jobs
        /\ pc[p] # "inside" => todo[p] = {}

BrokerInv == BrokerTypeOK /\ RegistryExact /\ Connected /\ InPublish /\ NoSendToClosed

-----------------------------------------------------------------------------

(* The numbers of a publisher's lines stay below Numbers. *)
LEMMA NextNumber ==
    ASSUME NEW n \in 0 .. Numbers - 1
    PROVE  (n + 1) % Numbers \in 0 .. Numbers - 1
  BY BrokerAssumption

(* A line added to a channel with room leaves a channel within its limit. *)
LEMMA SendKeepsLimit ==
    ASSUME NEW q \in Seq(Lines), Len(q) < Capacity, NEW l \in Lines
    PROVE  Append(q, l) \in Seq(Lines) /\ Len(Append(q, l)) <= Capacity
  BY BrokerAssumption

(* A line taken from a channel leaves a channel within its limit. *)
LEMMA ReceiveKeepsLimit ==
    ASSUME NEW q \in Seq(Lines), q # <<>>, Len(q) <= Capacity
    PROVE  Tail(q) \in Seq(Lines) /\ Len(Tail(q)) <= Capacity
  <1>1. Tail(q) \in Seq(Lines) /\ Len(Tail(q)) = Len(q) - 1 /\ Len(q) \in Nat
    OBVIOUS
  <1> QED
    BY <1>1, BrokerAssumption

(* The line a publisher sends is a line. *)
LEMMA LineType ==
    ASSUME BrokerTypeOK, NEW p \in Publishers
    PROVE  Line(p) \in Lines
  BY DEF BrokerTypeOK, Line, Lines

(* Initially no stream is connected and nobody publishes. *)
LEMMA InitInv == BrokerInit => BrokerInv
  <1> SUFFICES ASSUME BrokerInit PROVE BrokerInv
    OBVIOUS
  <1>1. BrokerTypeOK
    <2>1. buffer \in [Streams -> Seq(Lines)] /\ \A s \in Streams : Len(buffer[s]) <= Capacity
      BY BrokerAssumption DEF BrokerInit
    <2>2. current \in [Publishers -> 0 .. Numbers - 1]
      BY BrokerAssumption DEF BrokerInit
    <2> QED
      BY <2>1, <2>2 DEF BrokerInit, BrokerTypeOK, Conns
  <1> QED
    BY <1>1 DEF BrokerInit, BrokerInv, RegistryExact, Connected, InPublish, NoSendToClosed

(* Every step of the broker keeps the types. *)
LEMMA TypeStep ==
    ASSUME BrokerInv, [BrokerNext]_brokerVars
    PROVE  BrokerTypeOK'
  <1> USE DEF BrokerInv, BrokerTypeOK, Conns, registry, publishing
  <1>1. ASSUME NEW s \in Streams, AskToWrite(s) PROVE BrokerTypeOK'
    BY <1>1 DEF AskToWrite
  <1>2. ASSUME NEW s \in Streams, NEW j \in Jobs, OpenStream(s, j) PROVE BrokerTypeOK'
    BY <1>2 DEF OpenStream
  <1>3. ASSUME NEW s \in Streams, Subscribe(s) PROVE BrokerTypeOK'
    BY <1>3 DEF Subscribe, Connected
  <1>4. ASSUME NEW s \in Streams, WriteLine(s) PROVE BrokerTypeOK'
    <2>1. Tail(buffer[s]) \in Seq(Lines) /\ Len(Tail(buffer[s])) <= Capacity
      BY <1>4, ReceiveKeepsLimit DEF WriteLine
    <2>2. /\ buffer' \in [Streams -> Seq(Lines)]
          /\ \A t \in Streams : Len(buffer'[t]) <= Capacity
      BY <1>4, <2>1 DEF WriteLine
    <2> QED
      BY <1>4, <2>2 DEF WriteLine
  <1>5. ASSUME NEW s \in Streams, HangUp(s) PROVE BrokerTypeOK'
    BY <1>5 DEF HangUp
  <1>6. ASSUME NEW s \in Streams, Unsubscribe(s) PROVE BrokerTypeOK'
    <2>1. <<>> \in Seq(Lines) /\ Len(<<>>) <= Capacity
      BY BrokerAssumption
    <2>2. /\ buffer' \in [Streams -> Seq(Lines)]
          /\ \A t \in Streams : Len(buffer'[t]) <= Capacity
      BY <1>6, <2>1 DEF Unsubscribe
    <2> QED
      BY <1>6, <2>2 DEF Unsubscribe, Connected
  <1>7. ASSUME NEW p \in Publishers, NEW j \in Jobs, CallPublish(p, j) PROVE BrokerTypeOK'
    BY <1>7 DEF CallPublish
  <1>8. ASSUME NEW p \in Publishers, BeginPublish(p) PROVE BrokerTypeOK'
    <2>1. (current[p] + 1) % Numbers \in 0 .. Numbers - 1
      BY NextNumber
    <2>2. subscribers[target[p]] \subseteq Streams
      BY <1>8 DEF BeginPublish, InPublish
    <2> QED
      BY <1>8, <2>1, <2>2 DEF BeginPublish
  <1>9. ASSUME NEW p \in Publishers, NEW s \in Streams, Offer(p, s) PROVE BrokerTypeOK'
    <2>1. Line(p) \in Lines
      BY LineType
    <2>2. /\ buffer' \in [Streams -> Seq(Lines)]
          /\ \A t \in Streams : Len(buffer'[t]) <= Capacity
      BY <1>9, <2>1, SendKeepsLimit DEF Offer
    <2> QED
      BY <1>9, <2>2 DEF Offer, Done
  <1>10. ASSUME NEW p \in Publishers, EndPublish(p) PROVE BrokerTypeOK'
    BY <1>10 DEF EndPublish
  <1>11. ASSUME UNCHANGED brokerVars PROVE BrokerTypeOK'
    BY <1>11 DEF brokerVars
  <1> QED
    BY <1>1, <1>2, <1>3, <1>4, <1>5, <1>6, <1>7, <1>8, <1>9, <1>10, <1>11
    DEF BrokerNext, PublishStep

(* Every step keeps the registry exact, and a publisher's subscribers alive:  *)
(* the registry changes only while no publisher is inside.                    *)
LEMMA RegistryStep ==
    ASSUME BrokerInv, [BrokerNext]_brokerVars
    PROVE  (RegistryExact /\ Connected /\ InPublish /\ NoSendToClosed)'
  <1> DEFINE Goal == (RegistryExact /\ Connected /\ InPublish /\ NoSendToClosed)'
  <1> USE DEF BrokerInv, RegistryExact, Connected, InPublish, NoSendToClosed,
              BrokerTypeOK, registry, publishing
  <1>1. ASSUME NEW s \in Streams, AskToWrite(s) PROVE Goal
    BY <1>1 DEF AskToWrite
  <1>2. ASSUME NEW s \in Streams, NEW j \in Jobs, OpenStream(s, j) PROVE Goal
    BY <1>2 DEF OpenStream
  <1>3. ASSUME NEW s \in Streams, Subscribe(s) PROVE Goal
    BY <1>3 DEF Subscribe, MayWrite
  <1>4. ASSUME NEW s \in Streams, WriteLine(s) PROVE Goal
    BY <1>4 DEF WriteLine
  <1>5. ASSUME NEW s \in Streams, HangUp(s) PROVE Goal
    BY <1>5 DEF HangUp
  <1>6. ASSUME NEW s \in Streams, Unsubscribe(s) PROVE Goal
    BY <1>6, BrokerAssumption DEF Unsubscribe, MayWrite
  <1>7. ASSUME NEW p \in Publishers, NEW j \in Jobs, CallPublish(p, j) PROVE Goal
    BY <1>7 DEF CallPublish
  <1>8. ASSUME NEW p \in Publishers, BeginPublish(p) PROVE Goal
    BY <1>8 DEF BeginPublish
  <1>9. ASSUME NEW p \in Publishers, NEW s \in Streams, Offer(p, s) PROVE Goal
    BY <1>9 DEF Offer, Done
  <1>10. ASSUME NEW p \in Publishers, EndPublish(p) PROVE Goal
    BY <1>10 DEF EndPublish
  <1>11. ASSUME UNCHANGED brokerVars PROVE Goal
    BY <1>11 DEF brokerVars
  <1> QED
    BY <1>1, <1>2, <1>3, <1>4, <1>5, <1>6, <1>7, <1>8, <1>9, <1>10, <1>11
    DEF BrokerNext, PublishStep

(* The invariant of the broker, for every value of the constants. *)
THEOREM BrokerInvHolds == BrokerSpec => []BrokerInv
  <1>1. BrokerInit => BrokerInv
    BY InitInv
  <1>2. BrokerInv /\ [BrokerNext]_brokerVars => BrokerInv'
    BY TypeStep, RegistryStep DEF BrokerInv
  <1> QED
    BY <1>1, <1>2, PTL DEF BrokerSpec

(* Types, and the limit of every channel. *)
THEOREM BrokerTypeOKHolds == BrokerSpec => []BrokerTypeOK
  <1>1. BrokerInv => BrokerTypeOK
    BY DEF BrokerInv
  <1> QED
    BY <1>1, BrokerInvHolds, PTL

(* No publisher ever sends to a channel that has been closed, or to a stream  *)
(* of another job, however many publish while streams come and go.            *)
THEOREM NoSendToClosedHolds == BrokerSpec => []NoSendToClosed
  <1>1. BrokerInv => NoSendToClosed
    BY DEF BrokerInv
  <1> QED
    BY <1>1, BrokerInvHolds, PTL

-----------------------------------------------------------------------------
(* The refinement of LogFeed *)

(* Every step of the broker is a step of the feed or changes nothing in it. *)
LEMMA FeedStep ==
    ASSUME BrokerInv, BrokerInv', [BrokerNext]_brokerVars
    PROVE  [Feed!FeedNext]_(Feed!feedVars)
  <1> DEFINE Owed == [s \in Streams |-> {p \in Publishers : s \in todo[p]}]
  <1> DEFINE Topics == [s \in Streams |-> Follows(s)]
  <1> USE DEF registry, publishing
  <1>1. ASSUME UNCHANGED <<conn, topic, buffer, current, todo>>
        PROVE  UNCHANGED Feed!feedVars
    BY <1>1 DEF Feed!feedVars, Follows
  <1>2. ASSUME NEW s \in Streams, AskToWrite(s) PROVE UNCHANGED Feed!feedVars
    BY <1>1, <1>2 DEF AskToWrite
  <1>3. ASSUME NEW s \in Streams, NEW j \in Jobs, OpenStream(s, j)
        PROVE  UNCHANGED Feed!feedVars
    <2>1. Topics' = Topics
      BY <1>3 DEF OpenStream, Follows, BrokerInv, BrokerTypeOK
    <2>2. UNCHANGED <<buffer, current, todo>>
      BY <1>3 DEF OpenStream
    <2> QED
      BY <2>1, <2>2 DEF Feed!feedVars
  <1>4. ASSUME NEW s \in Streams, Subscribe(s) PROVE Feed!FeedNext
    <2>1. topic[s] \in Jobs /\ conn[s] = "subscribing"
      BY <1>4 DEF Subscribe, BrokerInv, Connected
    <2>2. Topics[s] = "none"
      BY <2>1 DEF Follows
    <2>3. Topics' = [Topics EXCEPT ![s] = topic[s]]
      BY <1>4 DEF Subscribe, Follows, BrokerInv, BrokerTypeOK
    <2>4. UNCHANGED <<buffer, current, todo>>
      BY <1>4 DEF Subscribe
    <2>5. Feed!Follow(s, topic[s])
      BY <2>2, <2>3, <2>4 DEF Feed!Follow
    <2> QED
      BY <2>1, <2>5 DEF Feed!FeedNext
  <1>5. ASSUME NEW s \in Streams, WriteLine(s) PROVE Feed!FeedNext
    <2>1. Topics' = Topics
      BY <1>5 DEF WriteLine, Follows, BrokerInv, BrokerTypeOK
    <2>2. Feed!Read(s)
      BY <1>5, <2>1 DEF WriteLine, Feed!Read
    <2> QED
      BY <2>2 DEF Feed!FeedNext
  <1>6. ASSUME NEW s \in Streams, HangUp(s) PROVE UNCHANGED Feed!feedVars
    <2>1. Topics' = Topics
      BY <1>6 DEF HangUp, Follows, BrokerInv, BrokerTypeOK
    <2>2. UNCHANGED <<buffer, current, todo>>
      BY <1>6 DEF HangUp
    <2> QED
      BY <2>1, <2>2 DEF Feed!feedVars
  <1>7. ASSUME NEW s \in Streams, Unsubscribe(s) PROVE Feed!FeedNext
    <2>1. Topics[s] \in Jobs
      BY <1>7 DEF Unsubscribe, Follows, BrokerInv, Connected
    <2>2. Topics' = [Topics EXCEPT ![s] = "none"]
      BY <1>7 DEF Unsubscribe, Follows, BrokerInv, BrokerTypeOK
    <2>3. \A p \in Publishers : todo[p] = {}
      BY <1>7 DEF Unsubscribe, MayWrite, BrokerInv, InPublish
    <2>4. UNCHANGED <<current, todo>>
      BY <1>7 DEF Unsubscribe
    <2>5. Owed' = [Owed EXCEPT ![s] = {}]
      BY <2>3, <2>4
    <2>6. Feed!Leave(s)
      BY <1>7, <2>1, <2>2, <2>4, <2>5, BrokerAssumption DEF Unsubscribe, Feed!Leave
    <2> QED
      BY <2>6 DEF Feed!FeedNext
  <1>8. ASSUME NEW p \in Publishers, NEW j \in Jobs, CallPublish(p, j)
        PROVE  UNCHANGED Feed!feedVars
    BY <1>1, <1>8 DEF CallPublish
  <1>9. ASSUME NEW p \in Publishers, BeginPublish(p) PROVE Feed!FeedNext
    <2>1. target[p] \in Jobs /\ todo[p] = {}
      BY <1>9 DEF BeginPublish, BrokerInv, InPublish
    <2> PICK j \in Jobs : j = target[p]
      BY <2>1
    <2>2. \A s \in Streams : s \in subscribers[j] <=> Topics[s] = j
      BY BrokerAssumption DEF BrokerInv, RegistryExact, Follows
    <2>3. todo' = [todo EXCEPT ![p] = subscribers[j]]
      BY <1>9 DEF BeginPublish
    <2>4. todo \in [Publishers -> SUBSET Streams]
      BY DEF BrokerInv, BrokerTypeOK
    <2>5. Owed' = [s \in Streams |->
                     IF Topics[s] = j THEN Owed[s] \union {p} ELSE Owed[s]]
      BY <2>1, <2>2, <2>3, <2>4
    <2>6. Topics' = Topics
      BY <1>9 DEF BeginPublish, Follows
    <2>7. \A s \in Streams : p \notin Owed[s]
      BY <2>1
    <2>8. Feed!Announce(p, j)
      BY <1>9, <2>5, <2>6, <2>7 DEF BeginPublish, Feed!Announce
    <2> QED
      BY <2>8 DEF Feed!FeedNext
  <1>10. ASSUME NEW p \in Publishers, NEW s \in Streams, Offer(p, s) PROVE Feed!FeedNext
    <2>1. Topics' = Topics
      BY <1>10 DEF Offer, Follows
    <2>2. p \in Owed[s]
      BY <1>10 DEF Offer
    <2>3. todo \in [Publishers -> SUBSET Streams] /\ todo' = [todo EXCEPT ![p] = @ \ {s}]
      BY <1>10 DEF Offer, Done, BrokerInv, BrokerTypeOK
    <2>4. Owed' = [Owed EXCEPT ![s] = @ \ {p}]
      BY <2>3
    <2>5. CASE Len(buffer[s]) < Capacity
      <3>1. buffer' = [buffer EXCEPT ![s] = Append(@, Line(p))]
        BY <1>10, <2>5 DEF Offer
      <3>2. Feed!Deliver(s, p)
        BY <1>10, <2>1, <2>2, <2>4, <3>1 DEF Offer, Feed!Deliver, Feed!Line, Line
      <3> QED
        BY <3>2 DEF Feed!FeedNext
    <2>6. CASE ~(Len(buffer[s]) < Capacity)
      <3>1. Len(buffer[s]) = Capacity
        BY <2>6, BrokerAssumption DEF BrokerInv, BrokerTypeOK
      <3>2. buffer' = buffer
        BY <1>10, <2>6 DEF Offer, BrokerInv, BrokerTypeOK
      <3>3. Feed!Miss(s, p)
        BY <1>10, <2>1, <2>2, <2>4, <3>1, <3>2 DEF Offer, Feed!Miss
      <3> QED
        BY <3>3 DEF Feed!FeedNext
    <2> QED
      BY <2>5, <2>6
  <1>11. ASSUME NEW p \in Publishers, EndPublish(p) PROVE UNCHANGED Feed!feedVars
    BY <1>1, <1>11 DEF EndPublish
  <1>12. ASSUME UNCHANGED brokerVars PROVE UNCHANGED Feed!feedVars
    BY <1>1, <1>12 DEF brokerVars
  <1> QED
    BY <1>2, <1>3, <1>4, <1>5, <1>6, <1>7, <1>8, <1>9, <1>10, <1>11, <1>12
    DEF BrokerNext, PublishStep

(* The broker implements the feed LogFeed promises: who follows a job when a  *)
(* line of it is announced gets it, in each publisher's order and once, and   *)
(* misses one only when Capacity lines behind.                                *)
THEOREM BrokerImplementsFeed == BrokerSpec => FeedHolds
  <1>1. BrokerInit => Feed!FeedInit
    BY DEF BrokerInit, Feed!FeedInit, Follows
  <1>2. BrokerInv /\ BrokerInv' /\ [BrokerNext]_brokerVars
            => [Feed!FeedNext]_(Feed!feedVars)
    BY FeedStep
  <1> QED
    BY <1>1, <1>2, BrokerInvHolds, PTL DEF BrokerSpec, FeedHolds, Feed!FeedSpec

=============================================================================

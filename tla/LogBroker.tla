------------------------------ MODULE LogBroker ------------------------------
(* internal/pubsub and the log stream of the API: goroutines that publish the *)
(* lines of a job's run, and requests that follow them.  Publish reads the    *)
(* registry under the read lock and offers its line to one channel after the  *)
(* other; Subscribe and Unsubscribe change the registry under the write lock. *)
(* A job's subscribers are a set: Publish goes through them in any order.     *)
EXTENDS Naturals, Sequences

CONSTANTS
    Jobs,
    Publishers,  \* goroutines: log scanners, hook readers, workers in runHooks
    Streams,     \* requests for /jobs/:id/logs
    Capacity,    \* of a subscriber's channel: 100 in the code
    Numbers      \* a publisher's lines are numbered modulo this

ASSUME BrokerAssumption ==
    /\ "none" \notin Jobs \union Streams
    /\ Capacity \in Nat \ {0}
    /\ Numbers \in Nat \ {0}

VARIABLES
    subscribers,    \* subscribers[j]: the streams registered for job j
    buffer,         \* buffer[s]: the channel of stream s
    conn,           \* conn[s]: where the handler of s is
    topic,          \* topic[s]: the job it was asked for
    writer,         \* the stream waiting for or holding the write lock
    pc,             \* pc[p]: where publisher p is in Publish
    target,         \* target[p]: the job it publishes for
    current,        \* current[p]: the number of its line
    todo            \* todo[p]: the subscribers it has still to offer it to

brokerVars == <<subscribers, buffer, conn, topic, writer, pc, target, current, todo>>
registry == <<subscribers, buffer, conn, topic, writer>>
publishing == <<pc, target, current, todo>>

Line(p) == [from |-> p, no |-> current[p]]
Lines == [from : Publishers, no : 0 .. Numbers - 1]

Conns == {"off", "subscribing", "open", "leaving"}

BrokerInit ==
    /\ subscribers = [j \in Jobs |-> {}]
    /\ buffer = [s \in Streams |-> <<>>]
    /\ conn = [s \in Streams |-> "off"]
    /\ topic = [s \in Streams |-> "none"]
    /\ writer = "none"
    /\ pc = [p \in Publishers |-> "idle"]
    /\ target = [p \in Publishers |-> "none"]
    /\ current = [p \in Publishers |-> 0]
    /\ todo = [p \in Publishers |-> {}]

-----------------------------------------------------------------------------
(* sync.RWMutex: one writer at a time announces itself, is let in when the    *)
(* readers inside have left, and keeps new readers out until it is done       *)

(* bug: a lock that prefers readers *)
MayReadAlways == TRUE

MayRead == writer = "none"

(* bug: the registry is changed without the lock *)
MayWriteAnyTime(s) == writer = s

MayWrite(s) ==
    /\ writer = s
    /\ \A p \in Publishers : pc[p] # "inside"

AskToWrite(s) ==
    /\ conn[s] \in {"subscribing", "leaving"}
    /\ writer = "none"
    /\ writer' = s
    /\ UNCHANGED <<subscribers, buffer, conn, topic, publishing>>

-----------------------------------------------------------------------------
(* A stream: handleStreamJobLogs *)

OpenStream(s, j) ==
    /\ conn[s] = "off"
    /\ conn' = [conn EXCEPT ![s] = "subscribing"]
    /\ topic' = [topic EXCEPT ![s] = j]
    /\ UNCHANGED <<subscribers, buffer, writer, publishing>>

Subscribe(s) ==
    /\ conn[s] = "subscribing"
    /\ MayWrite(s)
    /\ subscribers' = [subscribers EXCEPT ![topic[s]] = @ \union {s}]
    /\ conn' = [conn EXCEPT ![s] = "open"]
    /\ writer' = "none"
    /\ UNCHANGED <<buffer, topic, publishing>>

(* take a line from the channel and write it to the client, which may fail *)
WriteLine(s) ==
    /\ conn[s] = "open"
    /\ buffer[s] # <<>>
    /\ buffer' = [buffer EXCEPT ![s] = Tail(@)]
    /\ \E next \in {"open", "leaving"} : conn' = [conn EXCEPT ![s] = next]
    /\ UNCHANGED <<subscribers, topic, writer, publishing>>

(* the request's context is done, with or without lines in the channel *)
HangUp(s) ==
    /\ conn[s] = "open"
    /\ conn' = [conn EXCEPT ![s] = "leaving"]
    /\ UNCHANGED <<subscribers, buffer, topic, writer, publishing>>

(* the deferred call: unregister, close the channel *)
Unsubscribe(s) ==
    /\ conn[s] = "leaving"
    /\ MayWrite(s)
    /\ subscribers' = [subscribers EXCEPT ![topic[s]] = @ \ {s}]
    /\ buffer' = [buffer EXCEPT ![s] = <<>>]
    /\ conn' = [conn EXCEPT ![s] = "off"]
    /\ topic' = [topic EXCEPT ![s] = "none"]
    /\ writer' = "none"
    /\ UNCHANGED publishing

-----------------------------------------------------------------------------
(* Publish *)

CallPublish(p, j) ==
    /\ pc[p] = "idle"
    /\ pc' = [pc EXCEPT ![p] = "calling"]
    /\ target' = [target EXCEPT ![p] = j]
    /\ UNCHANGED <<registry, current, todo>>

BeginPublish(p) ==
    /\ pc[p] = "calling"
    /\ MayRead
    /\ pc' = [pc EXCEPT ![p] = "inside"]
    /\ current' = [current EXCEPT ![p] = (@ + 1) % Numbers]
    /\ todo' = [todo EXCEPT ![p] = subscribers[target[p]]]
    /\ UNCHANGED <<registry, target>>

Done(p, s) == todo' = [todo EXCEPT ![p] = @ \ {s}]

(* bug: a send without the default branch *)
OfferBlocking(p, s) ==
    /\ s \in todo[p]
    /\ Len(buffer[s]) < Capacity
    /\ buffer' = [buffer EXCEPT ![s] = Append(@, Line(p))]
    /\ Done(p, s)
    /\ UNCHANGED <<subscribers, conn, topic, writer, pc, target, current>>

(* bug: a full channel loses its oldest line instead of the new one *)
OfferDropsOldest(p, s) ==
    /\ s \in todo[p]
    /\ buffer' = [buffer EXCEPT ![s] =
                    Append(IF Len(@) < Capacity THEN @ ELSE Tail(@), Line(p))]
    /\ Done(p, s)
    /\ UNCHANGED <<subscribers, conn, topic, writer, pc, target, current>>

(* bug: a queue without a limit *)
OfferUnbounded(p, s) ==
    /\ s \in todo[p]
    /\ buffer' = [buffer EXCEPT ![s] = Append(@, Line(p))]
    /\ Done(p, s)
    /\ UNCHANGED <<subscribers, conn, topic, writer, pc, target, current>>

(* send, or drop the line when the channel is full *)
Offer(p, s) ==
    /\ s \in todo[p]
    /\ buffer' = [buffer EXCEPT ![s] =
                    IF Len(@) < Capacity THEN Append(@, Line(p)) ELSE @]
    /\ Done(p, s)
    /\ UNCHANGED <<subscribers, conn, topic, writer, pc, target, current>>

EndPublish(p) ==
    /\ pc[p] = "inside"
    /\ todo[p] = {}
    /\ pc' = [pc EXCEPT ![p] = "idle"]
    /\ target' = [target EXCEPT ![p] = "none"]
    /\ UNCHANGED <<registry, current, todo>>

-----------------------------------------------------------------------------

PublishStep(p) ==
    BeginPublish(p) \/ EndPublish(p) \/ \E s \in Streams : Offer(p, s)

BrokerNext ==
    \/ \E s \in Streams :
        \/ AskToWrite(s) \/ Subscribe(s) \/ Unsubscribe(s)
        \/ WriteLine(s) \/ HangUp(s)
        \/ \E j \in Jobs : OpenStream(s, j)
    \/ \E p \in Publishers :
        \/ PublishStep(p)
        \/ \E j \in Jobs : CallPublish(p, j)

BrokerSpec == BrokerInit /\ [][BrokerNext]_brokerVars

(* Goroutines inside Publish, Subscribe and Unsubscribe run on, and the locks *)
(* of package sync starve nobody.  A client may stay connected for ever and   *)
(* read nothing, and nobody has to publish.                                   *)
BrokerFairness ==
    /\ \A p \in Publishers : SF_brokerVars(PublishStep(p))
    /\ \A s \in Streams :
        SF_brokerVars(AskToWrite(s) \/ Subscribe(s) \/ Unsubscribe(s))

FairBrokerSpec == BrokerSpec /\ BrokerFairness

-----------------------------------------------------------------------------
(* Properties *)

(* Every variable keeps its type; a channel never holds more lines than it    *)
(* was made for, whoever sends and however slowly it is read.                 *)
BrokerTypeOK ==
    /\ subscribers \in [Jobs -> SUBSET Streams]
    /\ buffer \in [Streams -> Seq(Lines)]
    /\ \A s \in Streams : Len(buffer[s]) <= Capacity
    /\ conn \in [Streams -> Conns]
    /\ topic \in [Streams -> Jobs \union {"none"}]
    /\ writer \in Streams \union {"none"}
    /\ pc \in [Publishers -> {"idle", "calling", "inside"}]
    /\ target \in [Publishers -> Jobs \union {"none"}]
    /\ current \in [Publishers -> 0 .. Numbers - 1]
    /\ todo \in [Publishers -> SUBSET Streams]

(* Publish never offers a line to a channel that Unsubscribe has closed, which *)
(* would panic, nor to a stream of another job, although it looks the          *)
(* subscribers up once and then goes through them while requests come and go.  *)
NoSendToClosed ==
    \A p \in Publishers : \A s \in todo[p] :
        conn[s] \in {"open", "leaving"} /\ topic[s] = target[p]

Follows(s) == IF conn[s] \in {"open", "leaving"} THEN topic[s] ELSE "none"

Feed == INSTANCE LogFeed WITH
    follows <- [s \in Streams |-> Follows(s)],
    inbox <- buffer,
    owed <- [s \in Streams |-> {p \in Publishers : s \in todo[p]}]

(* The broker keeps the promise of LogFeed: a stream gets every line announced *)
(* for its job while it follows it, once and in each publisher's order, and    *)
(* loses one only when it is Capacity lines behind.                            *)
FeedHolds == Feed!FeedSpec

(* A run is never held up by those who watch it: Publish returns even if no    *)
(* client reads and others subscribe and hang up all the time.                 *)
PublishReturns ==
    \A p \in Publishers : pc[p] = "calling" ~> pc[p] = "idle"

(* A stream that hung up is unregistered, however busily its job's lines are   *)
(* published meanwhile.                                                        *)
StreamsLeave == \A s \in Streams : conn[s] = "leaving" ~> conn[s] = "off"

=============================================================================

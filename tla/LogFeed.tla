------------------------------- MODULE LogFeed -------------------------------
(* What the log broker promises the readers of log streams: whoever follows a *)
(* job when one of its lines is announced gets that line, the lines of one    *)
(* publisher in the order it announced them and each once, and misses one     *)
(* only when it is Capacity lines behind.  Lines of two publishers may reach  *)
(* two followers in different orders.                                         *)
EXTENDS Naturals, Sequences

CONSTANTS
    Jobs,
    Publishers,
    Streams,
    Capacity,    \* lines a follower may be behind
    Numbers      \* lines of a publisher are numbered modulo this

VARIABLES
    follows,    \* follows[s]: the job stream s follows, or "none"
    inbox,      \* inbox[s]: the lines s has got and not read, oldest first
    current,    \* current[p]: the number of the last line p announced
    owed        \* owed[s]: the publishers whose current line s is yet to get

feedVars == <<follows, inbox, current, owed>>

Line(p) == [from |-> p, no |-> current[p]]

FeedInit ==
    /\ follows = [s \in Streams |-> "none"]
    /\ inbox = [s \in Streams |-> <<>>]
    /\ current = [p \in Publishers |-> 0]
    /\ owed = [s \in Streams |-> {}]

Follow(s, j) ==
    /\ follows[s] = "none"
    /\ follows' = [follows EXCEPT ![s] = j]
    /\ UNCHANGED <<inbox, current, owed>>

Leave(s) ==
    /\ follows[s] # "none"
    /\ follows' = [follows EXCEPT ![s] = "none"]
    /\ inbox' = [inbox EXCEPT ![s] = <<>>]
    /\ owed' = [owed EXCEPT ![s] = {}]
    /\ UNCHANGED current

(* a publisher is done with its last line before it announces the next *)
Announce(p, j) ==
    /\ \A s \in Streams : p \notin owed[s]
    /\ current' = [current EXCEPT ![p] = (@ + 1) % Numbers]
    /\ owed' = [s \in Streams |->
                  IF follows[s] = j THEN owed[s] \union {p} ELSE owed[s]]
    /\ UNCHANGED <<follows, inbox>>

Deliver(s, p) ==
    /\ p \in owed[s]
    /\ inbox' = [inbox EXCEPT ![s] = Append(@, Line(p))]
    /\ owed' = [owed EXCEPT ![s] = @ \ {p}]
    /\ UNCHANGED <<follows, current>>

Miss(s, p) ==
    /\ p \in owed[s]
    /\ Len(inbox[s]) = Capacity
    /\ owed' = [owed EXCEPT ![s] = @ \ {p}]
    /\ UNCHANGED <<follows, inbox, current>>

Read(s) ==
    /\ inbox[s] # <<>>
    /\ inbox' = [inbox EXCEPT ![s] = Tail(@)]
    /\ UNCHANGED <<follows, current, owed>>

FeedNext ==
    \/ \E s \in Streams, j \in Jobs : Follow(s, j)
    \/ \E p \in Publishers, j \in Jobs : Announce(p, j)
    \/ \E s \in Streams, p \in Publishers : Deliver(s, p) \/ Miss(s, p)
    \/ \E s \in Streams : Read(s) \/ Leave(s)

FeedSpec == FeedInit /\ [][FeedNext]_feedVars

=============================================================================

CONSTANTS
    Jobs = {j1, j2}
    Publishers = {p1, p2}
    Streams = {s1, s2}
    Capacity = 1
    Numbers = 2
SPECIFICATION FairBrokerSpec
INVARIANTS BrokerTypeOK NoSendToClosed
PROPERTIES FeedHolds PublishReturns StreamsLeave

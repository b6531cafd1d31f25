SPECIFICATION Spec
CONSTANTS
    Clients = {c1, c2}
    Keys = {ka, kb}
    Values = {v1}
    NoValue = NoValue
    Subscribers = {c2}
    KeyPrefixes = {{ka}, {ka, kb}}
    QueueMax = 2
    Faults = {"io"}
INVARIANTS
    TypeOK
    FeedFollowsStore
    SubscriberCurrent
    ReadsCommitted
PROPERTIES
    CommandsAnswered

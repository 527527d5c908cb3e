SPECIFICATION FairSpec
CONSTANTS
    Kind = {"agent", "menu", "originate", "destroy"}
    MaxEvents = 3
CHECK_DEADLOCK FALSE
INVARIANTS
    TypeOK
    OneReader
    RepliesAccounted
PROPERTIES
    EventsInOrder
    EventsAreHandled
    CommandReturns

SPECIFICATION FairSpec
CONSTANTS
    Kinds <- MCKinds
    MessageCount = 2
    QueueLimit = 1
    Closers <- MCClosers
INVARIANTS NothingStranded EventsOrderly
PROPERTIES QuietAfterDelete SctpThreadReturns
CHECK_DEADLOCK FALSE

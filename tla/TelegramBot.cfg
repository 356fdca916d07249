CONSTANTS
    Replies <- SomeReplies
    Timeout = 2
    Slack = 1
    Limit = 17
    OpenLen = 4
    CloseLen = 3
    EntityLen = 3
    Window = 3
SPECIFICATION FairSpec
INVARIANTS TypeOK ChunksWellFormed NothingLost EntitiesWhole EmptyChunkIsRare BudgetCoversOneRun ReplyInOrder
PROPERTY FinalWord
CHECK_DEADLOCK FALSE

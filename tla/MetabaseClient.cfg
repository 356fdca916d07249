\* Two tool calls, of two queries and of one, that share a client.
CONSTANTS
    x = x  y = y  columns = columns  indexes = indexes  search = search
    Tool = {x, y}
    Task = {columns, indexes, search}
    ToolOf <- TwoAndOne
    MaxExpiries = 2
    MaxErrors = 2
    None = None
SPECIFICATION FairSpec
INVARIANTS TypeOK LockAccounted NoNeedlessLogin LoginsBounded NoStrayQuery
PROPERTY ToolsReturn
CHECK_DEADLOCK FALSE

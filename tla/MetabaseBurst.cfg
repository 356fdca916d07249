\* The two queries of one tool call are enough.
CONSTANTS
    x = x  y = y  columns = columns  indexes = indexes  search = search
    Tool = {x, y}
    Task = {columns, indexes, search}
    ToolOf <- TwoAndOne
    MaxExpiries = 2
    MaxErrors = 2
    None = None
SPECIFICATION Spec
INVARIANT OneLoginPerExpiry
CHECK_DEADLOCK FALSE

\* One refused query is enough.
CONSTANTS
    x = x  y = y  columns = columns  indexes = indexes  search = search
    Tool = {x, y}
    Task = {columns, indexes, search}
    ToolOf <- TwoAndOne
    MaxExpiries = 2
    MaxErrors = 2
    None = None
SPECIFICATION Spec
INVARIANT NotRecoveredWasRetried
CHECK_DEADLOCK FALSE

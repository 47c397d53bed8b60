SPECIFICATION MCSpec
CONSTANTS
    o1 = o1
    o2 = o2
    root1 = root1
    root2 = root2
    root3 = root3
    long = long
    short = short
    empty = empty
    reader = reader
    None = None
    Operators = {o1, o2}
    Roots = {root1, root2, root3}
    Predecessors = 1
    MaxCommits = 2
    MaxRuns = 3
    Releases = {long, short, empty}
    Rows <- MCRows
    Length <- MCLength
    Kinds = {"browse"}
    Limit = 1
    Readers = {reader}
    MaxMoves = 3
    old = old
    new = new
    other = other
    Claims = {old, new, other}
    Imported = {old}
    Corrects <- MCCorrects
    MaxHistory = 5
    MaxUnread = 1
INVARIANT
    BrowseComplete
CHECK_DEADLOCK FALSE

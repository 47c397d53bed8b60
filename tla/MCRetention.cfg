SPECIFICATION Spec
CONSTANTS
    big = big
    half = half
    quarter = quarter
    o1 = o1
    o2 = o2
    r1 = r1
    r2 = r2
    None = None
    Roots = {big, half, quarter}
    Shared = {o1, o2}
    Uses <- MCUses
    Corpus <- MCCorpus
    Refreshers = {r1, r2}
    Predecessors = 1
    MaxBuilds = 2
    MaxSelects = 0
    MaxPrunes = 0
SYMMETRY RefresherSymmetry
PROPERTY PredecessorRetained
CHECK_DEADLOCK FALSE

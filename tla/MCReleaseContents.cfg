SPECIFICATION MCSpec
CONSTANTS
    big = big
    half = half
    quarter = quarter
    o1 = o1
    o2 = o2
    r1 = r1
    r2 = r2
    None = None
    Roots = {big, half, quarter}
    Shared = {o1, o2}
    Uses <- MCUses
    Corpus <- MCCorpus
    Refreshers = {r1, r2}
    Predecessors = 1
    MaxBuilds = 3
    MaxSelects = 1
    MaxPrunes = 1
    p1 = p1
    p2 = p2
    f = f
    g = g
    newer = newer
    new = new
    old = old
    other = other
    Problems = {p1, p2}
    References = {f, g}
    Claims <- MCClaims
    Named <- MCNamed
    Corrects <- MCCorrects
    Whole = {new}
    Changing = {p1, f}
    MaxRoot = 2
    MaxReviews = 2
SYMMETRY RefresherSymmetry
INVARIANTS
    TypeOK
    PointerServable
    SourcesPresent
    BindingsReviewed
    ShownOnOwnProblem
PROPERTIES
    FirstLiveFixed
    ImplementsPointer
    OthersStayBound
CHECK_DEADLOCK FALSE

SPECIFICATION Spec
CONSTANTS
    alice = alice
    bob = bob
    lab = lab
    erdos = erdos
    moser = moser
    c1 = c1
    c2 = c2
    k1 = k1
    k2 = k2
    k3 = k3
    k4 = k4
    k5 = k5
    s1 = s1
    s2 = s2
    None = None
    Accounts = {alice, bob}
    Workspaces = {lab}
    Anchors = {erdos, moser}
    Keys = {k1, k2, k3, k4, k5}
    Contents = {c1, c2}
    Sessions = {s1, s2}
    Granted <- MCGranted
    Requests <- MCRequests
    MaxCalls = 4
SYMMETRY SessionSymmetry
ACTION_CONSTRAINT MakesFirst
INVARIANTS
    VersionsConsumed
    SameThread
    AnchorsExplained
PROPERTIES
    LifecycleLegal
    ImplementsAtomic
CHECK_DEADLOCK FALSE

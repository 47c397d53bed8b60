SPECIFICATION MCSpec
CONSTANTS
    ann = ann
    bob = bob
    i1 = i1
    i2 = i2
    d1 = d1
    d2 = d2
    b1 = b1
    b2 = b2
    lab = lab
    v = v
    w = w
    h1 = h1
    h2 = h2
    admin = admin
    s1 = s1
    s2 = s2
    None = None
    Sessions = {s1, s2}
    Installs = {i1, i2}
    RecordIds = {d1, d2}
    Bodies = {b1, b2}
    Records <- MCRecords
    Past = 1
    Future = 1
    Lag = 1
    Retention = 3
    Hour = 1
    Ceiling = 1
    Budget = 2
    MaxClock = 6
    MaxCalls = 4
    Members = {ann, bob}
    Anchors = {1, 2}
    Slugs = {lab}
    Values = {v, w}
    Forms <- MCForms
    Plans <- MCPlans
    Before <- MCBefore
    Clients = {s1, s2}
    MaxForms = 2
    Planned = v
    Lifecycle <- MCLifecycle
    Reaches = FALSE
    Accounts = {ann, bob}
    Handles = {h1, h2, admin}
    Reserved = {admin}
    Requests <- MCRequests
    MaxSaves = 4
SYMMETRY Symmetry
INVARIANTS
    TypesOK
    RetriesHarmless
    CeilingHeld
    AnchorsAgree
    SubmitsLand
    ProfilesConsistent
    DeletionComplete
PROPERTIES
    RetentionHeld
    NeverReassigned
CHECK_DEADLOCK FALSE

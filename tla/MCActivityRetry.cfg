SPECIFICATION FairSpec
CONSTANTS
    alice = alice
    lab = lab
    garage = garage
    erdos = erdos
    k1 = k1
    k2 = k2
    c1 = c1
    s1 = s1
    s2 = s2
    None = None
    Accounts = {alice}
    Workspaces = {lab, garage}
    Anchors = {erdos}
    Keys = {k1, k2}
    Contents = {c1}
    Sessions = {s1, s2}
    Granted <- MCGranted
    Requests <- MCRequests
    MaxCalls = 3
INVARIANTS
    TypeOK
    AppliedOnce
    NoKeyCollision
    AnswersMatchRecord
PROPERTIES
    ImplementsAtomic
    Answered
CHECK_DEADLOCK FALSE

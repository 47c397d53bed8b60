SPECIFICATION Spec
CONSTANTS
    a1 = a1
    a2 = a2
    q1 = q1
    q2 = q2
    i1 = i1
    r1 = r1
    c1 = c1
    c2 = c2
    None = None
    Installations = {i1}
    Repositories = {r1}
    Accounts = {a1, a2}
    Commits = {c1, c2}
    Installers <- MCInstallers
    Requests = {q1, q2}
    MaxEvents = 4
    MaxRequests = 3
SYMMETRY Symmetric
INVARIANTS
    TypeOK
    OwnedCodebases
    PrivateAttached
PROPERTIES
    RemovalFinal
CHECK_DEADLOCK FALSE

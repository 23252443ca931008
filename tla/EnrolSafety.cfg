\* Two devices of one group given the same name, and faults of every kind.
CONSTANTS
    d1 = d1
    d2 = d2
    n1 = n1
    n2 = n2
    t1 = t1
    t2 = t2
    g1 = g1
    g2 = g2
    None = None
    Devices = {d1, d2}
    NameOf <- SameName
    TokenOf <- OwnTokens
    GroupOf <- SameGroup
    MaxRequests = 4
    MaxFaults = 2
SPECIFICATION FairSpec
INVARIANTS BurnedByAgent OneHolder
PROPERTIES HistoryAttached Resumes

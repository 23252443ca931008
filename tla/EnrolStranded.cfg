\* One device, one fault.
CONSTANTS
    d1 = d1
    d2 = d2
    n1 = n1
    n2 = n2
    t1 = t1
    t2 = t2
    g1 = g1
    g2 = g2
    None = None
    Devices = {d1}
    NameOf <- OneName
    TokenOf <- OneToken
    GroupOf <- OneGroup
    MaxRequests = 4
    MaxFaults = 1
SPECIFICATION Spec
INVARIANT NeverStranded

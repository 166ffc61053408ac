CONSTANTS
    m1 = m1
    m2 = m2
    s1 = s1
    s2 = s2
    a1 = a1
    a2 = a2
    k1 = k1
    k2 = k2
    Mac = {m1, m2}
    Switch = {s1, s2}
    Port = {a1, a2, k1, k2}
    SwitchOf <- Switches
    TypeOf <- Types
    Peer <- Peers
    Access = {"ACCEPT"}
    MaxHops = 3
    Snapshots <- Metrics
    MaxResults = 1
    None = None
SPECIFICATION FairSpec
CHECK_DEADLOCK FALSE
INVARIANTS Inv 
PROPERTIES RequestsAreServed RestorationEnds

CONSTANTS
    s1 = s1
    s2 = s2
    j1 = j1
    j2 = j2
    k1 = k1
    k2 = k2
    e1 = e1
    e2 = e2
    Switch = {s1, s2}
    Port = {j1, j2, k1, k2, e1, e2}
    SwitchOf <- Switches
    Peer <- Peers
    Listed = {j1, k2}
    Lacp <- LacpValues
    StackStates = {"up", "broken"}
    CoalesceSec = 1
    MaxQueue = 0
    MaxChanges = 2
    MaxRestores = 2
    None = None
SPECIFICATION StartSpec
CHECK_DEADLOCK FALSE
INVARIANTS Inv PathIsRight ChangesAreNotPostponed
PROPERTIES TopologyNeverReverts

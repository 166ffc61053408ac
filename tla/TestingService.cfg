CONSTANTS
    m1 = m1
    m2 = m2
    Mac = {m1, m2}
    Port = {p1}
    DeviceVlan = {"unauthenticated", "testing"}
    SegmentVlan = {"segment"}
    UnauthVlan = "unauthenticated"
    Results = {"ERROR", "FAILED"}
    BasePort = 29
    MaxSessions = 2
    MaxMessages = 1
    None = None
SPECIFICATION Spec
SYMMETRY Devices
CHECK_DEADLOCK FALSE
INVARIANTS Inv OneOpenSession TapPortIsKept

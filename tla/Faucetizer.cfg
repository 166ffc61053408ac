CONSTANTS
    m1 = m1
    m2 = m2
    s1 = s1
    p1 = p1
    p2 = p2
    t1 = t1
    t2 = t2
    Mac = {m1, m2}
    Port = {p1, p2}
    Segment = {s1}
    SequesterSegment = testing
    TestingVlan = {t1, t2}
    UnauthenticatedVlan = guest
    SegmentMaps <- Maps
    StructuralPorts <- Structures
    StaticPlacements <- Placements
    DynamicMac = {m2}
    MaxCalls = 1
    None = None
SPECIFICATION PeriodicSpec
CONSTRAINT NoOverlap
INVARIANTS SequesteredIsAlone ReporterIsUpToDate
PROPERTIES TestingVlanIsKept IdleVlanIsDrawn
CHECK_DEADLOCK FALSE

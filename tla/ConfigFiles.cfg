CONSTANTS
    m1 = m1
    m2 = m2
    p1 = p1
    s1 = s1
    s2 = s2
    None = None
    Mac = {m1, m2}
    Place = {p1}
    Segment = {s1, s2}
    PlacementFiles <- MCPlacementFiles
    BehaviorFiles <- MCBehaviorFiles
    MaxChanges = 2
SPECIFICATION FairSpec
INVARIANTS Inv DisabledForAReason
PROPERTIES ChangesAreLoaded

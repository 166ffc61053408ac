CONSTANTS
    m1 = m1
    p1 = p1
    p2 = p2
    s1 = s1
    m2 = m2
    Mac = {m1, m2}
    Port = {p1, p2}
    s2 = s2
    StaticSegment = {s1}
    DynamicSegment = {s2}
    SequesterSegment = testing
    DefaultAutoSequester = TRUE
    SequesterTimeout = TRUE
    TestResultState <- DefaultResults
    Tester = {t1}
    t1 = t1
    Tested = {m1}
    None = None
SPECIFICATION FairSpec
INVARIANTS AuthorizedWhileServed AccessMatchesState SequesteredIsTimed SessionIsPlaced PlacementAgrees
PROPERTIES AccessFollowsAuthorization SequesteringIsRespected SequesteringEnds

CONSTANTS
    m1 = m1
    m2 = m2
    s1 = s1
    Mac = {m1, m2}
    Segment = {s1}
    AnswerCode = {"ACCEPT", "REJECT", "INVALID_RESPONSE", "UNREADABLE", "UNDECODABLE"}
    MayLeave = {m1, m2}
    MayRaise = {m1}
    IdSpace = 2
    MaxRadiusRetries = 1
    MaxRequests = 3
    None = None
SPECIFICATION AnsweringSpec
INVARIANTS NoAccessWithoutSession
PROPERTIES AccessIsServerGranted ReceiverSurvives RequestsAnswered

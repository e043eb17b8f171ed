SPECIFICATION Spec
CONSTANTS
    Requests = {r1, r2}
    Sessions = {s1, s2}
    NoSession = NoSession
    NoRequest = NoRequest
    Forms = {}
    MaxTokens = 2
PROPERTIES
    SignedOutStaysOut
CHECK_DEADLOCK FALSE

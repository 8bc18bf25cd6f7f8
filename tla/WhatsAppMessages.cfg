SPECIFICATION MCSpec
CONSTANTS
    r1 = r1
    r2 = r2
    Requests = {r1, r2}
    MaxTargets = 2
    Gateways = {g1, g2}
    EnvGateway = g2
    MaxSessions = 1
INVARIANT MessagesTypeOK
INVARIANT LogIsTrue
INVARIANT ReportCounts
PROPERTY RequestEnds

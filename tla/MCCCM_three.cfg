\* Three nodes, no environment event, two major transitions, one cookie
\* draw, no minor transition, four pending deliveries: one node forms a
\* cluster alone and the two others join it, a broadcast being three
\* deliveries.
CONSTANTS
    Node <- MCNode3
    RosterSize = 3
    MaxMajor = 2
    MaxMinor = 0
    MaxCookie = 1
    MaxVersionRetry = 0
    MaxFaults = 0
    Collide = {}
    MaxMsgs = 4
SPECIFICATION MCSpec
CONSTRAINT MsgBound
INVARIANT
    Agreement

\* Two nodes, no environment event, two major transitions, at most three
\* pending deliveries, one cookie beyond the first.
CONSTANTS
    Node <- MCNode
    RosterSize = 2
    MaxMajor = 2
    MaxMinor = 1
    MaxCookie = 2
    MaxVersionRetry = 0
    MaxFaults = 0
    Collide = {}
    MaxMsgs = 3
SPECIFICATION MCSpec
CONSTRAINT MsgBound
INVARIANTS
    TypeOK
    Agreement
    AssertsHold

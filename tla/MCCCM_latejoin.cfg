\* Two nodes, no environment event: reordering of pending deliveries alone,
\* two major transitions, three pending deliveries.
CONSTANTS
    Node <- MCNode
    RosterSize = 2
    MaxMajor = 2
    MaxMinor = 1
    MaxCookie = 2
    MaxVersionRetry = 0
    MaxFaults = 0
    Collide = {}
    MaxMsgs = 3
SPECIFICATION MCSpec
CONSTRAINT MsgBound
INVARIANT
    LateJoinSameTransition

\* Two nodes, two environment events (node deaths, client leaves or daemon
\* restarts), two major transitions, two pending deliveries; three cookie
\* draws, all in the same tv_usec phase, so every draw yields one cookie.
CONSTANTS
    Node <- MCNode
    RosterSize = 2
    MaxMajor = 2
    MaxMinor = 1
    MaxCookie = 3
    MaxVersionRetry = 0
    MaxFaults = 2
    Collide = {2, 3}
    MaxMsgs = 2
SPECIFICATION MCSpec
CONSTRAINT MsgBound
INVARIANTS
    TypeOK
    AssertsHold

\* Two live nodes of a roster of six: a version response from a node in a
\* group of fewer than 6/2 - 1 members is dropped, at most MAXDROP times.
CONSTANTS
    Node <- MCNode
    RosterSize = 6
    MaxMajor = 2
    MaxMinor = 1
    MaxCookie = 2
    MaxVersionRetry = 0
    MaxFaults = 0
    Collide = {}
    MaxMsgs = 3
SPECIFICATION MCSpec
CONSTRAINT MsgBound
INVARIANTS
    TypeOK
    Agreement
    AssertsHold

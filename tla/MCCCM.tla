------------------------------- MODULE MCCCM -------------------------------
(* CCM for TLC: a few nodes, small transition and cookie bounds.  The      *)
(* bounds of CCM block actions once a budget is spent; a behaviour that    *)
(* has spent one may stop there, and any other state without a successor  *)
(* is a deadlock of the protocol.                                          *)
EXTENDS CCM

CONSTANT MaxMsgs   \* bound on the number of pending deliveries

MCNode == {1, 2}

MCNode3 == {1, 2, 3}

MsgBound == Cardinality(net) <= MaxMsgs

BudgetSpent ==
    \/ nextCookie = MaxCookie
    \/ \E n \in Node : ccm[n].major = MaxMajor \/ ccm[n].minor = MaxMinor

MCNext == Next \/ (BudgetSpent /\ UNCHANGED vars)

MCSpec == Init /\ [][MCNext]_vars
====

---------------------------- MODULE OcEvRegistry ----------------------------
(***************************************************************************)
(* What the OCF event API of ccmlib_eventapi.c promises a client about its *)
(* handles, stated without tokens, hash tables or pipes.                   *)
(*                                                                         *)
(* Registration r is the r-th call of oc_ev_register. A handle is live     *)
(* from its registration until its own oc_ev_unregister, and gone for      *)
(* ever after: a call on a gone handle changes nothing. A call on a live   *)
(* handle changes that handle's membership class and no other handle.      *)
(***************************************************************************)
EXTENDS Naturals

CONSTANTS MaxReg

VARIABLES
  status,  \* status[r]: "unused", "live" or "gone"
  cls      \* cls[r]: r's membership class: "none", "inactive" or "active"

Reg == 1 .. MaxReg
ClassStates == {"none", "inactive", "active"}

Init ==
  /\ status = [r \in Reg |-> "unused"]
  /\ cls = [r \in Reg |-> "none"]

(* Registrations are numbered in the order they happen.                    *)
Register(r) ==
  /\ status[r] = "unused"
  /\ \A q \in 1 .. r - 1 : status[q] # "unused"
  /\ status' = [status EXCEPT ![r] = "live"]
  /\ UNCHANGED cls

Unregister(r) ==
  /\ status[r] = "live"
  /\ status' = [status EXCEPT ![r] = "gone"]
  /\ cls' = [cls EXCEPT ![r] = "none"]

SetCallback(r) ==
  /\ status[r] = "live"
  /\ cls[r] = "none"
  /\ cls' = [cls EXCEPT ![r] = "inactive"]
  /\ UNCHANGED status

Activate(r) ==
  /\ status[r] = "live"
  /\ cls[r] # "none"
  /\ cls' = [cls EXCEPT ![r] = "active"]
  /\ UNCHANGED status

(* The class stops delivering events (its connection to ccm is lost).      *)
ClassFails(r) ==
  /\ status[r] = "live"
  /\ cls[r] # "none"
  /\ cls' = [cls EXCEPT ![r] = "none"]
  /\ UNCHANGED status

Next ==
  \E r \in Reg :
    \/ Register(r)
    \/ Unregister(r)
    \/ SetCallback(r)
    \/ Activate(r)
    \/ ClassFails(r)

Spec == Init /\ [][Next]_<<status, cls>>

=============================================================================

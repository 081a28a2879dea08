---------------------------- MODULE CcmTestClient ----------------------------
(***************************************************************************)
(* main of src/membership/ccm/ccm_testclient.c over the event API of       *)
(* EventApi: register, set the membership callback, activate, then loop    *)
(* on select and oc_ev_handle_event until it returns non-zero.             *)
(*                                                                         *)
(* The client uses registration 1 only. The callback my_ms_events calls    *)
(* oc_ev_is_my_nodeid and oc_ev_callback_done from inside a successful     *)
(* handle_event, while the class exists; it changes no modelled state.     *)
(***************************************************************************)
EXTENDS Naturals

CONSTANTS Width, MaxReg, MaxFds

VARIABLES token_counter, nreg, handle, tokenhash, memb, pipeOk, fds, fault,
          pc  \* where main is: "register", "setcb", "activate", "unreg",
              \* "loop" or "exit"

E == INSTANCE EventApi

evars == <<token_counter, nreg, handle, tokenhash, memb, pipeOk, fds, fault>>
vars == <<evars, pc>>

Init == E!Init /\ pc = "register"

(* oc_ev_register(&ev_token).                                              *)
Start ==
  /\ pc = "register"
  /\ E!Register
  /\ pc' = "setcb"

(* oc_ev_set_callback(ev_token, OC_EV_MEMB_CLASS, my_ms_events, NULL).     *)
SetCb ==
  /\ pc = "setcb"
  /\ E!SetCallback(1)
  /\ pc' = "activate"

(* oc_ev_activate; a non-zero result leads to oc_ev_unregister and exit.   *)
ActivateStep ==
  /\ pc = "activate"
  /\ E!Activate(1)
  /\ pc' = IF E!RcActivate(1) = "OK" THEN "loop" ELSE "unreg"

Unreg ==
  /\ pc = "unreg"
  /\ E!Unregister(1)
  /\ pc' = "exit"

(* One turn of the for loop in which the class's handle_event fails        *)
(* because its connection to ccm is gone. oc_ev_handle_event returns 0,    *)
(* so the loop goes on; later turns find no class and return 0 with no     *)
(* change.                                                                 *)
LoopClassFails ==
  /\ pc = "loop"
  /\ E!HandleEventFail(1)
  /\ UNCHANGED pc

Next == Start \/ SetCb \/ ActivateStep \/ Unreg \/ LoopClassFails

(* main runs alone in its process and never waits for anything but        *)
(* select, which returns at once: the junk message in the pipe keeps the   *)
(* descriptor ready, as the comment in oc_ev_activate says. So its own     *)
(* steps are weakly fair; whether the class fails is up to ccm.            *)
Spec == Init /\ [][Next]_vars /\ WF_vars(Start \/ SetCb \/ ActivateStep \/ Unreg)

-----------------------------------------------------------------------------

(* When ccm goes away and the membership class fails, the test client      *)
(* leaves its loop ("terminating") and exits.                              *)
ExitsWhenCcmLost ==
  (pc = "loop" /\ memb[1] = "none") ~> pc = "exit"

=============================================================================

------------------------------- MODULE EventApi -------------------------------
(***************************************************************************)
(* The OCF event API of src/membership/ccm/ccmlib_eventapi.c, as one       *)
(* client process calls it.                                                *)
(*                                                                         *)
(* oc_ev_register hands out GUINT_TO_POINTER(token_counter++) and stores   *)
(* a fresh __oc_ev_t under it in tokenhash. Every other call looks its     *)
(* token up there. Registration r is the r-th oc_ev_register call; the     *)
(* __oc_ev_t it allocated is called r too. handle[r] is the token the      *)
(* client got back.                                                        *)
(*                                                                         *)
(* The membership class (oc_ev_memb_class, in ccmlib_memapi.c) is seen     *)
(* only through what this file does with it: it is created, activated,    *)
(* unregistered, or removed when its handle_event fails. The other class   *)
(* types have no constructor (class_construct returns NULL).               *)
(***************************************************************************)
EXTENDS Naturals, FiniteSets

CONSTANTS
  Width,    \* bits of token_counter (guint: 32)
  MaxReg,   \* oc_ev_register calls explored
  MaxFds    \* descriptors the process can still open

ASSUME Width \in Nat \ {0} /\ MaxReg \in Nat /\ MaxFds \in Nat

VARIABLES
  token_counter,  \* static guint token_counter
  nreg,           \* oc_ev_register calls so far
  handle,         \* handle[r]: the token registration r returned
  tokenhash,      \* tokenhash[t]: the __oc_ev_t stored under t, or NoEntry
  memb,           \* memb[r]: r's OC_EV_MEMB_CLASS entry of oc_eventclass
  pipeOk,         \* pipeOk[r]: pipe(r->oc_pipe) succeeded
  fds,            \* descriptors of oc_pipe pairs still open
  fault           \* how the process died: "none", "assert" or "segv"

vars == <<token_counter, nreg, handle, tokenhash, memb, pipeOk, fds, fault>>

Reg == 1 .. MaxReg
Tokens == 0 .. 2^Width - 1
NoEntry == 0
ClassStates == {"none", "inactive", "active"}

(* g_hash_table_lookup(tokenhash, tok) for the handle of registration r.   *)
(* Every __oc_ev_t in tokenhash has oc_flag == EVENT_INIT, so              *)
(* token_invalid rejects only a failed lookup.                             *)
Lookup(r) == tokenhash[handle[r]]
Valid(r) == r <= nreg /\ Lookup(r) # NoEntry /\ fault = "none"

Init ==
  /\ token_counter = 0
  /\ nreg = 0
  /\ handle = [r \in Reg |-> 0]
  /\ tokenhash = [t \in Tokens |-> NoEntry]
  /\ memb = [r \in Reg |-> "none"]
  /\ pipeOk = [r \in Reg |-> FALSE]
  /\ fds = 0
  /\ fault = "none"

(* Mutant of Register: token_counter is read but not incremented.          *)
RegisterNoIncr ==
  /\ fault = "none" /\ nreg < MaxReg
  /\ LET r == nreg + 1
         ok == fds + 2 <= MaxFds
     IN  /\ nreg' = r
         /\ handle' = [handle EXCEPT ![r] = token_counter]
         /\ tokenhash' = [tokenhash EXCEPT ![token_counter] = r]
         /\ pipeOk' = [pipeOk EXCEPT ![r] = ok]
         /\ fds' = IF ok THEN fds + 2 ELSE fds
  /\ UNCHANGED <<token_counter, memb, fault>>

(* oc_ev_register: the token is token_counter++ (modulo 2^Width); a pipe   *)
(* that cannot be opened leaves oc_pipe at -1; g_hash_table_insert         *)
(* replaces whatever was stored under the token. g_malloc aborts rather    *)
(* than return NULL, so the ENOMEM return is unreachable.                  *)
Register ==
  /\ fault = "none" /\ nreg < MaxReg
  /\ LET r == nreg + 1
         ok == fds + 2 <= MaxFds
     IN  /\ nreg' = r
         /\ handle' = [handle EXCEPT ![r] = token_counter]
         /\ token_counter' = (token_counter + 1) % 2^Width
         /\ tokenhash' = [tokenhash EXCEPT ![token_counter] = r]
         /\ pipeOk' = [pipeOk EXCEPT ![r] = ok]
         /\ fds' = IF ok THEN fds + 2 ELSE fds
  /\ UNCHANGED <<memb, fault>>

(* oc_ev_unregister on a valid token: every class is unregistered and      *)
(* freed, the token removed and the __oc_ev_t freed. oc_pipe is not        *)
(* closed. On an unknown token it returns EINVAL and changes nothing.      *)
Unregister(r) ==
  /\ Valid(r)
  /\ memb' = [memb EXCEPT ![Lookup(r)] = "none"]
  /\ tokenhash' = [tokenhash EXCEPT ![handle[r]] = NoEntry]
  /\ UNCHANGED <<token_counter, nreg, handle, pipeOk, fds, fault>>

(* oc_ev_set_callback(tok, OC_EV_MEMB_CLASS, ...): the class is created    *)
(* on first use; later calls only swap the callback function.              *)
SetCallback(r) ==
  /\ Valid(r)
  /\ memb[Lookup(r)] = "none"
  /\ memb' = [memb EXCEPT ![Lookup(r)] = "inactive"]
  /\ UNCHANGED <<token_counter, nreg, handle, tokenhash, pipeOk, fds, fault>>

(* oc_ev_set_callback with OC_EV_CONN_CLASS or OC_EV_GROUP_CLASS:          *)
(* class_construct returns NULL, which is inserted; then                   *)
(* assert(class && class->set_callback) aborts, or, built with NDEBUG,     *)
(* class->set_callback dereferences NULL.                                  *)
SetCallbackOther(r) ==
  /\ Valid(r)
  /\ fault' \in {"assert", "segv"}
  /\ UNCHANGED <<token_counter, nreg, handle, tokenhash, memb, pipeOk, fds>>

(* oc_ev_activate with a class: every class is activated, then a junk      *)
(* message is written to oc_pipe[1]. Without a class it returns EMFILE     *)
(* and changes nothing.                                                    *)
Activate(r) ==
  /\ Valid(r)
  /\ memb[Lookup(r)] # "none"
  /\ memb' = [memb EXCEPT ![Lookup(r)] = "active"]
  /\ UNCHANGED <<token_counter, nreg, handle, tokenhash, pipeOk, fds, fault>>

(* What oc_ev_activate returns: the write fails on oc_pipe[1] = -1, both   *)
(* ends are closed (close(-1) does nothing) and EMFILE is returned.        *)
RcActivate(r) ==
  IF ~Valid(r) THEN "EINVAL"
  ELSE IF memb[Lookup(r)] = "none" \/ ~pipeOk[Lookup(r)] THEN "EMFILE"
  ELSE "OK"

(* oc_ev_handle_event when the class's handle_event fails: handle_func     *)
(* returns TRUE and g_hash_table_foreach_remove drops the class, without   *)
(* unregistering or freeing it; oc_ev_handle_event returns 0. A            *)
(* successful handle_event runs the client's callback and changes no       *)
(* state of this file.                                                     *)
HandleEventFail(r) ==
  /\ Valid(r)
  /\ memb[Lookup(r)] # "none"
  /\ memb' = [memb EXCEPT ![Lookup(r)] = "none"]
  /\ UNCHANGED <<token_counter, nreg, handle, tokenhash, pipeOk, fds, fault>>

(* oc_ev_is_my_nodeid with no membership class: the lookup returns NULL    *)
(* and class->is_my_nodeid dereferences it.                                *)
IsMyNodeidNull(r) ==
  /\ Valid(r)
  /\ memb[Lookup(r)] = "none"
  /\ fault' = "segv"
  /\ UNCHANGED <<token_counter, nreg, handle, tokenhash, memb, pipeOk, fds>>

Next ==
  \/ Register
  \/ \E r \in Reg :
       \/ Unregister(r)
       \/ SetCallback(r)
       \/ SetCallbackOther(r)
       \/ Activate(r)
       \/ HandleEventFail(r)
       \/ IsMyNodeidNull(r)

Spec == Init /\ [][Next]_vars

-----------------------------------------------------------------------------

TypeOK ==
  /\ token_counter \in Tokens
  /\ nreg \in 0 .. MaxReg
  /\ handle \in [Reg -> Tokens]
  /\ tokenhash \in [Tokens -> Reg \cup {NoEntry}]
  /\ memb \in [Reg -> ClassStates]
  /\ pipeOk \in [Reg -> BOOLEAN]
  /\ fds \in 0 .. MaxFds
  /\ fault \in {"none", "assert", "segv"}

(* The refinement mapping: registration r is live while its token still    *)
(* finds its own __oc_ev_t.                                                *)
AbsStatus ==
  [r \in Reg |-> IF r > nreg THEN "unused"
                 ELSE IF tokenhash[handle[r]] = r THEN "live" ELSE "gone"]
AbsCls == [r \in Reg |-> IF AbsStatus[r] = "live" THEN memb[r] ELSE "none"]

Abs == INSTANCE OcEvRegistry WITH status <- AbsStatus, cls <- AbsCls

(* The handles oc_ev_register hands out behave as OcEvRegistry promises:   *)
(* a new registration never takes over the token of a live one, and a      *)
(* handle stays valid until its own oc_ev_unregister.                      *)
Registry == Abs!Spec

(* Registrations still in tokenhash whose pipe() succeeded.                *)
LivePiped == {r \in 1 .. nreg : tokenhash[handle[r]] = r /\ pipeOk[r]}

(* oc_ev_register's pipe() fails only when the pipes of the live handles   *)
(* already hold the descriptors the process can open. Otherwise the new    *)
(* handle keeps oc_pipe = -1, and every oc_ev_activate on it returns       *)
(* EMFILE, though the client has unregistered the handles it no longer    *)
(* uses.                                                                   *)
PipeFailsOnlyWhenExhausted ==
  [][nreg' = nreg + 1 /\ ~pipeOk'[nreg'] => 2 * Cardinality(LivePiped) + 2 > MaxFds]_vars

=============================================================================

-------------------------------- MODULE AppHb --------------------------------
(***************************************************************************)
(* The application heartbeat service: the daemon of                        *)
(* src/telecom/apphbd/apphbd.c and the client library of                   *)
(* src/lib/apphb/apphb.c, joined by one IPC channel per connection.        *)
(*                                                                         *)
(* An application process (App) holds at most one channel at a time        *)
(* (hbcomm). Each channel it opens is a connection <<a, k>>: a's k-th.     *)
(* The daemon keeps an apphb_client_t per connection (cl). A channel is    *)
(* two FIFO queues: requests to the daemon (req), return codes back        *)
(* (rep). Each end can be destroyed (appClosed, dClosed); the daemon sees  *)
(* a destroyed client end as G_IO_HUP.                                     *)
(*                                                                         *)
(* Timer durations are abstracted: a Gmain timeout that is armed may pop   *)
(* at any time. The timeout length is kept only as far as apphbd reads it: *)
(* its sign.                                                               *)
(***************************************************************************)
EXTENDS Integers, Sequences

CONSTANTS
  App,        \* application processes
  MaxConn,    \* channels an application opens over the run
  MaxCalls,   \* library calls of each application explored
  MaxCrash,   \* application process deaths
  MaxRestart  \* apphbd restarts

ASSUME MaxConn \in Nat /\ MaxCalls \in Nat /\ MaxCrash \in Nat /\ MaxRestart \in Nat

VARIABLES
  cl,         \* cl[c]: the daemon's apphb_client_t of connection c
  req,        \* req[c]: messages sent by the library, not yet read
  rep,        \* rep[c]: return codes sent by apphb_putrc, not yet read
  appClosed,  \* appClosed[c]: the library's end is destroyed
  dClosed,    \* dClosed[c]: apphbd's end is destroyed
  lib,        \* lib[a]: the statics of apphb.c in process a, and its call
  calls,      \* calls[a]: library calls made by a so far
  crashes,    \* process deaths so far
  restarts,   \* apphbd restarts so far
  setms       \* history: setms[c] is the last interval a sent on c, or -1

vars == <<cl, req, rep, appClosed, dClosed, lib, calls, crashes, restarts, setms>>

Conn == App \X (1 .. MaxConn)
Owner(c) == c[1]

(* The sign of a timeout in milliseconds: -1, 0 or 1.                      *)
Ms == {-1, 0, 1}
(* apphb_setinterval rejects hbms < 0, so only these are sent.             *)
SentMs == {0, 1}

(* Return codes of apphb_putrc.                                            *)
OK == "0"
RcValues == {OK, "EEXIST", "ESRCH", "EINVAL"}

Msg ==
  [type : {"HEARTBEAT", "REGISTER", "UNREGISTER"}, ms : {0}]
    \cup [type : {"SETINTERVAL"}, ms : SentMs]
HeartbeatMsg == [type |-> "HEARTBEAT", ms |-> 0]
RegisterMsg == [type |-> "REGISTER", ms |-> 0]
UnregisterMsg == [type |-> "UNREGISTER", ms |-> 0]
SetIntervalMsg(m) == [type |-> "SETINTERVAL", ms |-> m]

(* The states of a connection on the daemon side: not opened, opened but   *)
(* not yet accepted, accepted (apphb_client_new), removed                  *)
(* (apphb_client_remove).                                                  *)
ClientStates == {"unused", "pending", "live", "removed"}

(* An apphb_client_t: appname set, timerid # 0, timerms, missinghb,        *)
(* deleteme. apphb_client_remove zeroes the whole record.                  *)
ClientRec ==
  [st : ClientStates, appname : BOOLEAN, timer : BOOLEAN, timerms : Ms,
   missinghb : BOOLEAN, deleteme : BOOLEAN]
Zeroed == [st |-> "removed", appname |-> FALSE, timer |-> FALSE,
           timerms |-> 0, missinghb |-> FALSE, deleteme |-> FALSE]
Unused == [Zeroed EXCEPT !.st = "unused"]

(* The statics of apphb.c: hbcomm (the connection, or 0 for NULL),         *)
(* hbstatus = CH_SUCCESS (ok), and the call blocked in apphb_getrc.        *)
NoConn == <<"none", 0>>
LibRec == [conn : Conn \cup {NoConn}, ok : BOOLEAN,
           wait : {"none", "register", "setinterval", "unregister"}]
LibInit == [conn |-> NoConn, ok |-> FALSE, wait |-> "none"]

-----------------------------------------------------------------------------
(* The daemon, apphbd.c.                                                   *)

(* apphb_client_hb: clear missinghb, remove the timer, and add a new one   *)
(* of timerms if timerms > 0.                                              *)
ClientHb(r) == [r EXCEPT !.missinghb = FALSE, !.timer = r.timerms > 0]

(* Mutant of ProcessMsg: SETINTERVAL stores the interval but does not      *)
(* restart the timer.                                                      *)
ProcessMsgSetNoRearm(r, m) ==
  CASE m.type # "REGISTER" /\ ~r.appname ->
         <<r, IF m.type = "HEARTBEAT" THEN <<>> ELSE <<"ESRCH">>>>
    [] m.type = "HEARTBEAT" -> <<ClientHb(r), <<>>>>
    [] m.type = "REGISTER" ->
         IF r.appname THEN <<r, <<"EEXIST">>>>
         ELSE <<[r EXCEPT !.appname = TRUE], <<OK>>>>
    [] m.type = "SETINTERVAL" -> <<[r EXCEPT !.timerms = m.ms], <<OK>>>>
    [] m.type = "UNREGISTER" -> <<[r EXCEPT !.deleteme = TRUE], <<OK>>>>

(* Mutant of ProcessMsg: HEARTBEAT with senderrno TRUE in hbcmds.          *)
ProcessMsgHbRc(r, m) ==
  CASE m.type # "REGISTER" /\ ~r.appname -> <<r, <<"ESRCH">>>>
    [] m.type = "HEARTBEAT" -> <<ClientHb(r), <<OK>>>>
    [] m.type = "REGISTER" ->
         IF r.appname THEN <<r, <<"EEXIST">>>>
         ELSE <<[r EXCEPT !.appname = TRUE], <<OK>>>>
    [] m.type = "SETINTERVAL" ->
         <<ClientHb([r EXCEPT !.timerms = m.ms]), <<OK>>>>
    [] m.type = "UNREGISTER" -> <<[r EXCEPT !.deleteme = TRUE], <<OK>>>>

(* One request, as apphb_process_msg handles it: the new record and the    *)
(* return code it sends (<<>> when hbcmds says senderrno is FALSE).        *)
(* A client without appname gets ESRCH for every command but REGISTER.     *)
ProcessMsg(r, m) ==
  CASE m.type # "REGISTER" /\ ~r.appname ->
         <<r, IF m.type = "HEARTBEAT" THEN <<>> ELSE <<"ESRCH">>>>
    [] m.type = "HEARTBEAT" -> <<ClientHb(r), <<>>>>
    [] m.type = "REGISTER" ->
         IF r.appname THEN <<r, <<"EEXIST">>>>
         ELSE <<[r EXCEPT !.appname = TRUE], <<OK>>>>
    [] m.type = "SETINTERVAL" ->
         <<ClientHb([r EXCEPT !.timerms = m.ms]), <<OK>>>>
    [] m.type = "UNREGISTER" -> <<[r EXCEPT !.deleteme = TRUE], <<OK>>>>

(* The while loop of apphb_dispatch over the pending messages, as          *)
(* apphb_read_msg receives them (CH_SUCCESS): the record after all of them *)
(* and the return codes sent, in order.                                    *)
RECURSIVE ReadAll(_, _, _)
ReadAll(r, ms, out) ==
  IF ms = <<>> THEN <<r, out>>
  ELSE LET step == ProcessMsg(r, Head(ms))
       IN  ReadAll(step[1], Tail(ms), out \o step[2])

(* apphb_client_remove: sources and timer removed, channel destroyed,      *)
(* record zeroed.                                                          *)
Remove(c) ==
  /\ cl' = [cl EXCEPT ![c] = Zeroed]
  /\ dClosed' = [dClosed EXCEPT ![c] = TRUE]

(* apphb_new_dispatch accepts the connection and apphb_client_new sets up  *)
(* the record: no appname, the DEFAULT_TO timer armed, and timerms left as *)
(* g_new found it, which may be any value.                                 *)
Accept(c) ==
  /\ cl[c].st = "pending"
  /\ \E t \in Ms :
       cl' = [cl EXCEPT ![c] = [st |-> "live", appname |-> FALSE, timer |-> TRUE,
                               timerms |-> t, missinghb |-> FALSE,
                               deleteme |-> FALSE]]
  /\ UNCHANGED <<req, rep, appClosed, dClosed, lib, calls, crashes, restarts, setms>>

(* apphb_prepare removes a client marked deleteme.                         *)
Prepare(c) ==
  /\ cl[c].st = "live"
  /\ cl[c].deleteme
  /\ Remove(c)
  /\ UNCHANGED <<req, rep, appClosed, lib, calls, crashes, restarts, setms>>

(* apphb_dispatch on G_IO_HUP: the client is removed, pending requests     *)
(* unread.                                                                 *)
DispatchHup(c) ==
  /\ cl[c].st = "live"
  /\ appClosed[c]
  /\ Remove(c)
  /\ UNCHANGED <<req, rep, appClosed, lib, calls, crashes, restarts, setms>>

(* apphb_check finds a message pending, and apphb_dispatch, without HUP,   *)
(* reads and processes every pending message;                             *)
(* apphb_putrc sends each return code on the open channel.                 *)
DispatchRead(c) ==
  /\ cl[c].st = "live"
  /\ ~appClosed[c]
  /\ req[c] # <<>>
  /\ LET res == ReadAll(cl[c], req[c], <<>>)
     IN  /\ cl' = [cl EXCEPT ![c] = res[1]]
         /\ rep' = [rep EXCEPT ![c] = @ \o res[2]]
  /\ req' = [req EXCEPT ![c] = <<>>]
  /\ UNCHANGED <<appClosed, dClosed, lib, calls, crashes, restarts, setms>>

(* apphbd dies and is restarted: every client record and the daemon's end  *)
(* of every channel are gone, with the connections not yet accepted.       *)
DaemonRestart ==
  /\ restarts < MaxRestart
  /\ restarts' = restarts + 1
  /\ LET open == {c \in Conn : cl[c].st \in {"pending", "live"}} IN
     /\ cl' = [c \in Conn |-> IF c \in open THEN Zeroed ELSE cl[c]]
     /\ dClosed' = [c \in Conn |-> dClosed[c] \/ c \in open]
  /\ UNCHANGED <<req, rep, appClosed, lib, calls, crashes, setms>>

(* apphb_timer_popped: the client missed its heartbeat.                    *)
TimerPopped(c) ==
  /\ cl[c].st = "live"
  /\ cl[c].timer
  /\ cl' = [cl EXCEPT ![c].missinghb = TRUE, ![c].timer = FALSE]
  /\ UNCHANGED <<req, rep, appClosed, dClosed, lib, calls, crashes, restarts, setms>>

-----------------------------------------------------------------------------
(* The client library, apphb.c, called by application a.                   *)

Call(a) ==
  /\ calls[a] < MaxCalls
  /\ lib[a].wait = "none"
  /\ calls' = [calls EXCEPT ![a] = @ + 1]

(* apphb_register with hbcomm NULL: the channel is opened, REGISTER sent,  *)
(* and the call blocks in apphb_getrc. Connection c is a's next channel.   *)
Register(a) ==
  /\ Call(a)
  /\ lib[a].conn = NoConn
  /\ \E k \in 1 .. MaxConn :
       LET c == <<a, k>> IN
       /\ cl[c].st = "unused"
       /\ \A j \in 1 .. k - 1 : cl[<<a, j>>].st # "unused"
       /\ cl' = [cl EXCEPT ![c].st = "pending"]
       /\ req' = [req EXCEPT ![c] = <<RegisterMsg>>]
       /\ lib' = [lib EXCEPT ![a] = [conn |-> c, ok |-> TRUE, wait |-> "register"]]
  /\ UNCHANGED <<rep, appClosed, dClosed, crashes, restarts, setms>>

(* The calls that need hbcomm and hbstatus == CH_SUCCESS, and a send that  *)
(* succeeds: it fails (EBADF, no state change) once apphbd has destroyed   *)
(* its end.                                                                *)
CanSend(a) ==
  /\ lib[a].conn # NoConn
  /\ lib[a].ok
  /\ ~dClosed[lib[a].conn]

(* apphb_hb: HEARTBEAT is sent; no return code is expected.                *)
Hb(a) ==
  /\ Call(a)
  /\ CanSend(a)
  /\ req' = [req EXCEPT ![lib[a].conn] = Append(@, HeartbeatMsg)]
  /\ UNCHANGED <<cl, rep, appClosed, dClosed, lib, crashes, restarts, setms>>

(* Mutant of SetInterval: the hbms < 0 check is missing, so a negative     *)
(* interval is sent.                                                       *)
SetIntervalNoCheck(a) ==
  /\ Call(a)
  /\ CanSend(a)
  /\ \E m \in Ms :
       /\ req' = [req EXCEPT ![lib[a].conn] = Append(@, SetIntervalMsg(m))]
       /\ setms' = [setms EXCEPT ![lib[a].conn] = m]
  /\ lib' = [lib EXCEPT ![a].wait = "setinterval"]
  /\ UNCHANGED <<cl, rep, appClosed, dClosed, crashes, restarts>>

(* apphb_setinterval(hbms) with hbms >= 0: SETINTERVAL is sent and the     *)
(* call blocks in apphb_getrc.                                             *)
SetInterval(a) ==
  /\ Call(a)
  /\ CanSend(a)
  /\ \E m \in SentMs :
       /\ req' = [req EXCEPT ![lib[a].conn] = Append(@, SetIntervalMsg(m))]
       /\ setms' = [setms EXCEPT ![lib[a].conn] = m]
  /\ lib' = [lib EXCEPT ![a].wait = "setinterval"]
  /\ UNCHANGED <<cl, rep, appClosed, dClosed, crashes, restarts>>

(* apphb_unregister with a working channel: UNREGISTER is sent and the     *)
(* call blocks in apphb_getrc; hbcomm is destroyed when it returns.        *)
Unregister(a) ==
  /\ Call(a)
  /\ CanSend(a)
  /\ req' = [req EXCEPT ![lib[a].conn] = Append(@, UnregisterMsg)]
  /\ lib' = [lib EXCEPT ![a].wait = "unregister"]
  /\ UNCHANGED <<cl, rep, appClosed, dClosed, crashes, restarts, setms>>

(* apphb_unregister when nothing is sent (hbstatus # CH_SUCCESS after a    *)
(* failed registration, or the send fails): hbcomm is destroyed at once.   *)
UnregisterLocal(a) ==
  /\ Call(a)
  /\ lib[a].conn # NoConn
  /\ ~lib[a].ok \/ dClosed[lib[a].conn]
  /\ appClosed' = [appClosed EXCEPT ![lib[a].conn] = TRUE]
  /\ lib' = [lib EXCEPT ![a] = LibInit]
  /\ UNCHANGED <<cl, req, rep, dClosed, crashes, restarts, setms>>

(* apphb_getrc returns the next return code to the blocked call. A failed  *)
(* registration sets hbstatus = -1 but keeps hbcomm; apphb_unregister      *)
(* then destroys hbcomm.                                                   *)
GetRc(a) ==
  /\ lib[a].wait # "none"
  /\ rep[lib[a].conn] # <<>>
  /\ LET c == lib[a].conn
         rc == Head(rep[c])
     IN  /\ rep' = [rep EXCEPT ![c] = Tail(@)]
         /\ CASE lib[a].wait = "register" ->
                   /\ lib' = [lib EXCEPT ![a].wait = "none", ![a].ok = (rc = OK)]
                   /\ UNCHANGED appClosed
               [] lib[a].wait = "setinterval" ->
                   /\ lib' = [lib EXCEPT ![a].wait = "none"]
                   /\ UNCHANGED appClosed
               [] lib[a].wait = "unregister" ->
                   /\ lib' = [lib EXCEPT ![a] = LibInit]
                   /\ appClosed' = [appClosed EXCEPT ![c] = TRUE]
  /\ UNCHANGED <<cl, req, dClosed, calls, crashes, restarts, setms>>

(* Mutant of GetRcBroken: a failed recv is retried instead of returned.     *)
GetRcBrokenRetry(a) ==
  /\ lib[a].wait # "none"
  /\ rep[lib[a].conn] = <<>>
  /\ dClosed[lib[a].conn]
  /\ UNCHANGED vars

(* apphb_getrc when the channel is broken with nothing to read: recv fails *)
(* and the call returns errno. For a registration hbstatus becomes -1; an  *)
(* unregistration destroys hbcomm.                                         *)
GetRcBroken(a) ==
  /\ lib[a].wait # "none"
  /\ rep[lib[a].conn] = <<>>
  /\ dClosed[lib[a].conn]
  /\ LET c == lib[a].conn IN
     CASE lib[a].wait = "register" ->
            /\ lib' = [lib EXCEPT ![a].wait = "none", ![a].ok = FALSE]
            /\ UNCHANGED appClosed
       [] lib[a].wait = "setinterval" ->
            /\ lib' = [lib EXCEPT ![a].wait = "none"]
            /\ UNCHANGED appClosed
       [] lib[a].wait = "unregister" ->
            /\ lib' = [lib EXCEPT ![a] = LibInit]
            /\ appClosed' = [appClosed EXCEPT ![c] = TRUE]
  /\ UNCHANGED <<cl, req, rep, dClosed, calls, crashes, restarts, setms>>

(* The application process dies: its end of the channel is closed and a    *)
(* new process starts with fresh statics.                                  *)
Crash(a) ==
  /\ crashes < MaxCrash
  /\ lib[a].conn # NoConn
  /\ crashes' = crashes + 1
  /\ appClosed' = [appClosed EXCEPT ![lib[a].conn] = TRUE]
  /\ lib' = [lib EXCEPT ![a] = LibInit]
  /\ UNCHANGED <<cl, req, rep, dClosed, calls, restarts, setms>>

-----------------------------------------------------------------------------

Init ==
  /\ cl = [c \in Conn |-> Unused]
  /\ req = [c \in Conn |-> <<>>]
  /\ rep = [c \in Conn |-> <<>>]
  /\ appClosed = [c \in Conn |-> FALSE]
  /\ dClosed = [c \in Conn |-> FALSE]
  /\ lib = [a \in App |-> LibInit]
  /\ calls = [a \in App |-> 0]
  /\ crashes = 0
  /\ restarts = 0
  /\ setms = [c \in Conn |-> -1]

Daemon(c) ==
  \/ Accept(c)
  \/ Prepare(c)
  \/ DispatchHup(c)
  \/ DispatchRead(c)
  \/ TimerPopped(c)

Application(a) ==
  \/ Register(a)
  \/ Hb(a)
  \/ SetInterval(a)
  \/ Unregister(a)
  \/ UnregisterLocal(a)
  \/ GetRc(a)
  \/ GetRcBroken(a)
  \/ Crash(a)

Next ==
  \/ \E c \in Conn : Daemon(c)
  \/ DaemonRestart
  \/ \E a \in App : Application(a)

(* apphbd's main loop polls every source and fires every expired timer, so *)
(* each of its steps is weakly fair. A library call blocked in apphb_getrc *)
(* spins on is_message_pending, so its return is weakly fair too; the IPC  *)
(* layer is taken to report a broken channel as pending, so that recv      *)
(* fails. The application decides freely whether it makes other calls.    *)
Fairness ==
  /\ \A c \in Conn : WF_vars(Daemon(c))
  /\ \A a \in App : WF_vars(GetRc(a) \/ GetRcBroken(a))

Spec == Init /\ [][Next]_vars /\ Fairness

-----------------------------------------------------------------------------

TypeOK ==
  /\ cl \in [Conn -> ClientRec]
  /\ req \in [Conn -> Seq(Msg)]
  /\ rep \in [Conn -> Seq(RcValues)]
  /\ appClosed \in [Conn -> BOOLEAN] /\ dClosed \in [Conn -> BOOLEAN]
  /\ lib \in [App -> LibRec]
  /\ calls \in [App -> 0 .. MaxCalls] /\ crashes \in 0 .. MaxCrash
  /\ restarts \in 0 .. MaxRestart
  /\ setms \in [Conn -> {-1} \cup SentMs]

(* A return code that apphbd queues on a channel the application still     *)
(* holds answers the call blocked in apphb_getrc: the senderrno column of  *)
(* hbcmds must agree with which apphb.c calls wait. A stray code would be  *)
(* read as the answer of the application's next call.                      *)
RepliesAnswerCalls ==
  \A a \in App :
    lib[a].conn # NoConn =>
      Len(rep[lib[a].conn]) <= IF lib[a].wait = "none" THEN 0 ELSE 1

(* A connection that apphbd serves for a registered client that has gone   *)
(* silent.                                                                 *)
Silent(c) ==
  /\ cl[c].st = "live" /\ cl[c].appname
  /\ ~appClosed[c] /\ req[c] = <<>>

(* A registered application that stops heartbeating, and has not switched  *)
(* monitoring off with apphb_setinterval(0), is eventually reported by     *)
(* apphb_timer_popped.                                                     *)
HungClientDetected ==
  \A c \in Conn : <>[](Silent(c) /\ setms[c] # 0) => <>[]cl[c].missinghb

(* An application that set a positive interval with apphb_setinterval and  *)
(* then stops heartbeating is eventually reported by apphb_timer_popped.   *)
IntervalClientDetected ==
  \A c \in Conn : <>[](Silent(c) /\ setms[c] = 1) => <>[]cl[c].missinghb

(* Every library call that waits in apphb_getrc gets its return code.      *)
CallsReturn == \A a \in App : lib[a].wait # "none" ~> lib[a].wait = "none"

=============================================================================

-------------------------------- MODULE CCM --------------------------------
(***************************************************************************)
(* The Consensus Cluster Membership daemon of src/membership/ccm/ccm.c,   *)
(* one instance per node, exchanging protocol messages over the           *)
(* heartbeat transport.                                                    *)
(*                                                                         *)
(* ccm[n] is node n's ccm_info_t together with the file-static state of   *)
(* ccm.c that belongs to the same process (respdrop, old_mem).  The       *)
(* network net holds the pending deliveries <<message, receiver>>; a      *)
(* broadcast (sendclustermsg) is one delivery per node, its sender        *)
(* included.  Deliveries are taken in any order, each at most once; one   *)
(* never taken is a lost message (heartbeat drops duplicates itself).     *)
(*                                                                         *)
(* Time is not modelled: every timeout the code checks may have expired   *)
(* or not when a TIMEOUT event is processed, except that a longer timeout *)
(* of the same timer implies the shorter one.                             *)
(*                                                                         *)
(* The update table, the connectivity graph, the version-request tracker  *)
(* and the node roster live in files that are not part of src/; they are  *)
(* modelled from their contract in spec.md section 4.                     *)
(***************************************************************************)
EXTENDS Integers, FiniteSets, FiniteSetsExt, TLC

CONSTANTS
    Node,             \* node ids 1..N; the order of ids is the order of names
    RosterSize,       \* LLM_GET_NODECOUNT: configured (and live) heartbeat nodes
    MaxMajor,         \* bound on the major transition number
    MaxMinor,         \* bound on the minor transition number
    MaxCookie,        \* bound on the number of cookies generated
    MaxVersionRetry,  \* protoversion retries before a node decides alone
    MaxFaults,        \* bound on environment events: deaths, leaves, restarts
    Collide           \* cookie draws that hit the tv_usec of the first draw

ASSUME Node \subseteq Nat \ {0} /\ Node # {}
\* ccm_control_init goes straight to JOINED when it is the only active node;
\* the model starts from the multi-node branch.
ASSUME Collide \subseteq 2..MaxCookie
ASSUME RosterSize \in Nat /\ RosterSize >= Cardinality(Node) /\ RosterSize >= 2

VARIABLES
    ccm,        \* ccm[n]: node n's protocol context
    net,        \* pending deliveries <<message, receiver>>
    inbox,      \* inbox[n]: the message ccm_readmsg returned, {} or {m}
    nextCookie, \* cookies generated so far; a fresh cookie is nextCookie + 1
    finals,     \* history: every membership a node finalized
    published,  \* history: every client_send_msg membership report
    assertFail, \* history: the assert()s of ccm.c that failed
    leaveq,     \* leaveq[n]: node n's leave_bitmap of deaths not yet processed
    faults      \* environment events so far

vars == <<ccm, net, inbox, nextCookie, finals, published, assertFail, leaveq, faults>>

NoNode    == 0      \* CCM_SET_CL(info, -1)
Broadcast == 0      \* destination of sendclustermsg
NoCookie  == 0      \* CCM_SET_COOKIE(info, "")
MAXDROP   == 3      \* ccm.c: #define MAXDROP 3

\* enum ccm_state
NONE == "NONE"
VERSION_REQUEST == "VERSION_REQUEST"
JOINING == "JOINING"
SENT_MEMLISTREQ == "SENT_MEMLISTREQ"
MEMLIST_RES == "MEMLIST_RES"
JOINED == "JOINED"
States == {NONE, VERSION_REQUEST, JOINING, SENT_MEMLISTREQ, MEMLIST_RES, JOINED}

\* enum ccm_type: the types that cross the wire
PROTOVERSION == "ccmpver"
PROTOVERSION_RESP == "ccmpverresp"
JOIN == "ccmjoin"
REQ_MEMLIST == "ccmreqmlst"
RES_MEMLIST == "ccmresmlst"
FINAL_MEMLIST == "ccmfnlmlst"
ABORT == "ccmabrt"
LEAVE == "ccmlv"
MsgTypes == {PROTOVERSION, PROTOVERSION_RESP, JOIN, REQ_MEMLIST,
             RES_MEMLIST, FINAL_MEMLIST, ABORT, LEAVE}

Cookies == 0..MaxCookie
Majors  == 0..MaxMajor
Minors  == 0..MaxMinor

Msg == [type: MsgTypes, from: Node, to: Node \cup {Broadcast},
        cookie: Cookies, major: Majors, minor: Minors,
        memlist: SUBSET Node, newcookie: Cookies, clsize: 0..Cardinality(Node)]

Info == [state: States, major: Majors, minor: Minors, cookie: Cookies,
         cl: Node \cup {NoNode}, joined: Majors, member: SUBSET Node,
         update: SUBSET Node, memreq: SUBSET (Node \X Majors),
         gv: SUBSET Node, grep: UNION {[D -> SUBSET Node] : D \in SUBSET Node},
         joiners: SUBSET Node, verTries: 0..MaxVersionRetry,
         verActivity: BOOLEAN, respdrop: 0..MAXDROP, oldMem: SUBSET Node]

-----------------------------------------------------------------------------
(* Node roster (llm) and the quorum of report_mbrs.                        *)

\* llm_get_active_nodecount: every configured node is live.
ActiveCount == RosterSize

\* ccm_quorum: more than half of LLM_GET_NODECOUNT are members.
HasQuorum(i) == Cardinality(i.member) >= RosterSize \div 2 + 1

(* Update table (spec 4.2): the set of nodes whose JOIN this round has     *)
(* recorded; the uptime each reported is not modelled.  The leader of a   *)
(* round is its lowest node.                                               *)
UpdateLeader(u) == IF u = {} THEN NoNode ELSE Min(u)

\* update_add_memlist_request: remember the latest request of each node.
AddMemlistReq(i, from, mj) ==
    [i EXCEPT !.memreq = {r \in @ : r[1] # from} \cup {<<from, mj>>}]

(* Connectivity graph (spec 4.3): gv are the vertices expected to report, *)
(* grep the bitmaps reported so far, a function on the reported vertices. *)
NoGraph == [x \in {} |-> {}]

GraphNote(i, x, bm) ==
    IF x \in i.gv THEN [i EXCEPT !.grep = (x :> bm) @@ @] ELSE i

\* graph_filled_all
FilledAll(i) == i.gv \subseteq DOMAIN i.grep

\* ccm_add_membership: a late joiner becomes a vertex and the leader's own
\* bitmap gains it.
GraphAddMember(i, me, x) ==
    [i EXCEPT !.gv = @ \cup {x},
              !.grep = (me :> (@[me] \cup {x})) @@ @]

\* A and B both report each other reachable.
Mutual(g, a, b) == a \in g[b] /\ b \in g[a]

IsClique(g, S) == \A a, b \in S : a # b => Mutual(g, a, b)

\* The total order of spec 4.3 among cliques of equal size: the one with
\* the leader first, then the one holding the lowest id they do not share.
Better(S, T, me) ==
    \/ me \in S /\ me \notin T
    \/ (me \in S) = (me \in T) /\ S # T /\ Min(SymDiff(S, T)) \in S

\* graph_get_maxclique: the largest set of reporting vertices whose
\* reports are pairwise mutual.
MaxClique(i, me) ==
    LET g == i.grep
        C == {S \in SUBSET DOMAIN g : IsClique(g, S)}
        Big == {S \in C : \A T \in C : Cardinality(T) <= Cardinality(S)}
    IN  CHOOSE S \in Big : \A T \in Big \ {S} : Better(S, T, me)

(* Version-request tracker (spec 4.5, VERSION_REQUEST): retry while some  *)
(* other node was seen active or retries remain.                           *)
VersionRetry(i) == i.verActivity \/ i.verTries < MaxVersionRetry

VersionReset(i) == [i EXCEPT !.verTries = 0, !.verActivity = FALSE]

-----------------------------------------------------------------------------
(* Messages, as the ccm_send_* functions build them.                        *)

Message(t, from, to, i) ==
    [type |-> t, from |-> from, to |-> to, cookie |-> i.cookie,
     major |-> i.major, minor |-> i.minor, memlist |-> {},
     newcookie |-> NoCookie, clsize |-> 0]

\* ccm_send_protoversion: carries no context at all.
ProtoVersionMsg(n) ==
    [type |-> PROTOVERSION, from |-> n, to |-> Broadcast, cookie |-> NoCookie,
     major |-> 0, minor |-> 0, memlist |-> {}, newcookie |-> NoCookie,
     clsize |-> 0]

\* ccm_send_joiner_reply counting the cluster size one too high.
JoinerReplyOffByOne(n, i, j) ==
    [Message(PROTOVERSION_RESP, n, j, i)
        EXCEPT !.minor = 0, !.clsize = Cardinality(i.member) + 1]

\* ccm_send_joiner_reply: cookie, major transition and cluster size.
JoinerReply(n, i, j) ==
    [Message(PROTOVERSION_RESP, n, j, i)
        EXCEPT !.minor = 0, !.clsize = Cardinality(i.member)]

JoinMsg(n, i) == Message(JOIN, n, Broadcast, i)
LeaveMsg(n, i) == Message(LEAVE, n, Broadcast, i)
MemlistReqMsg(n, i) == Message(REQ_MEMLIST, n, Broadcast, i)
MemlistResMsg(n, i, to, ml) == [Message(RES_MEMLIST, n, to, i) EXCEPT !.memlist = ml]
FinalMsg(n, i, ml, nc) ==
    [Message(FINAL_MEMLIST, n, Broadcast, i) EXCEPT !.memlist = ml, !.newcookie = nc]
AbortMsg(n, i, to, mj, mn) ==
    [Message(ABORT, n, to, i) EXCEPT !.major = mj, !.minor = mn]

\* ccm_send_join_reply: answer every cached joiner.
JoinReplies(n, i) == {JoinerReply(n, i, j) : j \in i.joiners}

-----------------------------------------------------------------------------
(* The context and its transformations.                                    *)

InitInfo ==
    [state |-> NONE, major |-> 0, minor |-> 0, cookie |-> NoCookie,
     cl |-> NoNode, joined |-> 0, member |-> {}, update |-> {},
     memreq |-> {}, gv |-> {}, grep |-> NoGraph, joiners |-> {},
     verTries |-> 0, verActivity |-> FALSE, respdrop |-> 0, oldMem |-> {}]

\* ccm_reset: back to the state of a node about to join; respdrop is a
\* process static that ccm_reset leaves alone.
Reset(i) == [InitInfo EXCEPT !.respdrop = i.respdrop]

AlreadyJoined(i) == i.joined # 0

\* report_mbrs: with quorum, a membership that differs from the last one
\* reported is sent to the clients (client_send_msg) and remembered.
Reports(i) == HasQuorum(i) /\ i.member # i.oldMem
ReportMbrs(i) == IF Reports(i) THEN [i EXCEPT !.oldMem = i.member] ELSE i
Publish(n, i) ==
    published' = IF Reports(i)
                 THEN published \cup {[node |-> n, major |-> i.major, member |-> i.member]}
                 ELSE published

\* History of finalizations: node n adopted membership i.member as
\* transition i.major under cookie i.cookie.
Finalize(n, i) ==
    finals' = finals \cup {[node |-> n, major |-> i.major, cookie |-> i.cookie,
                            member |-> i.member]}

Fail(a) == assertFail' = assertFail \cup {a}

Receivers(m) == IF m.to = Broadcast THEN Node ELSE {m.to}

\* A node's step: its new context and the messages it sends.  Any event
\* other than a cached leave is read only when leave_bitmap is empty
\* (ccm_readmsg), so the lowest cached node is the one just delivered;
\* ccm_reset empties the cache (leave_reset).
Step(n, i, out) ==
    /\ ccm' = [ccm EXCEPT ![n] = i]
    /\ net' = net \cup UNION {{<<x, r>> : r \in Receivers(x)} : x \in out}
    /\ inbox' = [inbox EXCEPT ![n] = {}]
    /\ leaveq' = [leaveq EXCEPT ![n] = IF i.state = NONE \/ @ = {} THEN {}
                                      ELSE @ \ {Min(@)}]



(* ccm_send_cl_reply: answer every cached memlist request, the believed   *)
(* leader with this round's update table and everyone else with an empty  *)
(* list.  A node that has been a member but sees the leader at another    *)
(* major transition has been evicted: it resets, having answered only the *)
(* requests before the leader's in update-table order.                    *)
ClLeader(i) == UpdateLeader(i.update)
ClRequests(i) == {r \in i.memreq : r[1] = ClLeader(i)}
Evicted(i) == AlreadyJoined(i) /\ \E r \in ClRequests(i) : r[2] # i.major
ClReplied(i) == ~Evicted(i) /\ ClRequests(i) # {}
ClReplyInfo(i) == IF Evicted(i) THEN Reset(i) ELSE [i EXCEPT !.memreq = {}]
ClReplyOut(n, i) ==
    IF Evicted(i)
    THEN {MemlistResMsg(n, i, r[1], {}) : r \in {q \in i.memreq : q[1] < ClLeader(i)}}
    ELSE {MemlistResMsg(n, i, r[1], IF r[1] = ClLeader(i) THEN i.update ELSE {}) :
            r \in i.memreq}

\* ccm_membership_init + ccm_note_my_membership, after the memlist request.
GraphInit(n, i) == [i EXCEPT !.gv = i.update, !.grep = (n :> i.update)]

\* ccm_generate_random_cookie: srandom(tv_usec), then COOKIESIZE-1 calls of
\* random(). The cookie is a function of tv_usec alone, so a draw in the
\* same microsecond phase as the first draw yields the first draw's cookie.
FreshCookie == IF nextCookie + 1 \in Collide THEN 1 ELSE nextCookie + 1

Quiet == UNCHANGED <<nextCookie, finals, published, assertFail>>

-----------------------------------------------------------------------------
(* ccm_control_process, case CCM_STATE_NONE: whatever the event, send a    *)
(* protoversion request, enter VERSION_REQUEST and fall through into       *)
(* ccm_state_version_request with the same event.                         *)

InVersion(n) == ccm[n].state \in {NONE, VERSION_REQUEST}
VI(n) == [ccm[n] EXCEPT !.state = VERSION_REQUEST]
VOut(n) == IF ccm[n].state = NONE THEN {ProtoVersionMsg(n)} ELSE {}

\* the admission filter of ccm_state_version_request
SmallGroup(m) == m.clsize < ActiveCount \div 2 - 1

\* PROTOVERSION_RESP from a small group, while drops remain: drop it and
\* ask again.
VersionRespDrop(n, m) ==
    LET i == VI(n) IN
    /\ InVersion(n) /\ m.type = PROTOVERSION_RESP
    /\ i.respdrop < MAXDROP /\ SmallGroup(m)
    /\ Step(n, [VersionReset(i) EXCEPT !.respdrop = @ + 1, !.state = NONE,
                                       !.joiners = {}], VOut(n))
    /\ Quiet

\* PROTOVERSION_RESP accepted: adopt cookie and major transition, send JOIN.
VersionRespAccept(n, m) ==
    LET i == VI(n)
        j == [i EXCEPT !.respdrop = 0, !.major = m.major, !.minor = 0,
                       !.cookie = m.cookie, !.update = {}, !.state = JOINING,
                       !.joiners = {}]
    IN
    /\ InVersion(n) /\ m.type = PROTOVERSION_RESP
    /\ i.respdrop >= MAXDROP \/ ~SmallGroup(m)
    /\ Step(n, j, VOut(n) \cup {JoinMsg(n, j)})
    /\ Quiet

\* TIMEOUT, version_retry: go back to NONE and ask again.
VersionTimeoutRetry(n) ==
    LET i == VI(n) IN
    /\ InVersion(n) /\ VersionRetry(i)
    /\ Step(n, [i EXCEPT !.state = NONE,
                         !.verTries = IF @ < MaxVersionRetry THEN @ + 1 ELSE @],
            VOut(n))
    /\ Quiet

\* ccm_init_to_joined without generating a cookie.
AloneInfoNoCookie(n, i) ==
    [i EXCEPT !.member = {n}, !.major = 1, !.minor = 0, !.cl = n,
              !.state = JOINED, !.joined = 1, !.joiners = {}]

\* ccm_init_to_joined: a one-node membership, transition 1, a new cookie.
AloneInfo(n, i) ==
    [i EXCEPT !.member = {n}, !.major = 1, !.minor = 0,
              !.cookie = FreshCookie, !.cl = n, !.state = JOINED,
              !.joined = 1, !.joiners = {}]

\* TIMEOUT, no retry, no cached joiner with a higher name: ccm_init_to_joined.
VersionTimeoutAlone(n) ==
    LET i == VI(n)
        j == AloneInfo(n, i)
    IN
    /\ InVersion(n) /\ ~VersionRetry(i)
    /\ \A x \in i.joiners : x <= n
    /\ nextCookie < MaxCookie
    /\ Step(n, ReportMbrs(j), VOut(n))
    /\ nextCookie' = nextCookie + 1
    /\ Finalize(n, j) /\ Publish(n, j) /\ UNCHANGED assertFail

\* TIMEOUT, no retry, a higher joiner is waiting: start over.
VersionTimeoutRestart(n) ==
    LET i == VI(n) IN
    /\ InVersion(n) /\ ~VersionRetry(i)
    /\ \E x \in i.joiners : x > n
    /\ Step(n, [VersionReset(i) EXCEPT !.state = NONE, !.joiners = {}], VOut(n))
    /\ Quiet

\* PROTOVERSION: cache the requester (ccm_add_new_joiner).
VersionProto(n, m) ==
    /\ InVersion(n) /\ m.type = PROTOVERSION
    /\ Step(n, [VI(n) EXCEPT !.joiners = @ \cup {m.from}], VOut(n))
    /\ Quiet

\* JOIN, REQ_MEMLIST, RES_MEMLIST, FINAL_MEMLIST, ABORT: version_some_activity.
VersionActivity(n, m) ==
    /\ InVersion(n)
    /\ m.type \in {JOIN, REQ_MEMLIST, RES_MEMLIST, FINAL_MEMLIST, ABORT}
    /\ Step(n, [VI(n) EXCEPT !.verActivity = TRUE], VOut(n))
    /\ Quiet

\* LEAVE is forgotten; only the NONE case has an effect.
VersionLeave(n, m) ==
    /\ InVersion(n) /\ m.type = LEAVE
    /\ Step(n, VI(n), VOut(n))
    /\ Quiet

-----------------------------------------------------------------------------
(* ccm_state_joining                                                        *)

\* cookie, major and minor checks before the switch
JoiningAccepts(i, m) ==
    m.type = PROTOVERSION \/ (m.cookie = i.cookie /\ m.major >= i.major /\ m.minor >= i.minor)

InJoining(n, m) == ccm[n].state = JOINING /\ JoiningAccepts(ccm[n], m)

\* The leader asks for connectivity and becomes SENT_MEMLISTREQ.
SendMemlistRequest(n, i) ==
    /\ Step(n, [GraphInit(n, i) EXCEPT !.state = SENT_MEMLISTREQ], {MemlistReqMsg(n, i)})
    /\ Quiet

\* ccm_send_cl_reply returned TRUE: finallist_init, MEMLIST_RES.
ToMemlistRes(n, i) ==
    /\ Step(n, [ClReplyInfo(i) EXCEPT !.state = MEMLIST_RES], ClReplyOut(n, i))
    /\ Quiet

\* ccm_send_cl_reply returned FALSE.
ClReplyOnly(n, i) == Step(n, ClReplyInfo(i), ClReplyOut(n, i)) /\ Quiet

\* ccm_joining_to_joined without resetting the minor transition.
JoiningToJoinedKeepsMinor(n, i) ==
    LET j == [i EXCEPT !.member = {n}, !.major = @ + 1,
                       !.cookie = FreshCookie, !.cl = n, !.update = {},
                       !.state = JOINED, !.joined = IF @ = 0 THEN 1 ELSE @]
    IN
    /\ i.major < MaxMajor /\ nextCookie < MaxCookie
    /\ Step(n, ReportMbrs(j), JoinReplies(n, j))
    /\ nextCookie' = nextCookie + 1
    /\ Finalize(n, j) /\ Publish(n, j) /\ UNCHANGED assertFail

\* ccm_joining_to_joined: alone in the round, finalize {n} with a new cookie.
JoiningToJoined(n, i) ==
    LET j == [i EXCEPT !.member = {n}, !.major = @ + 1, !.minor = 0,
                       !.cookie = FreshCookie, !.cl = n, !.update = {},
                       !.state = JOINED, !.joined = IF @ = 0 THEN 1 ELSE @]
    IN
    /\ i.major < MaxMajor /\ nextCookie < MaxCookie
    /\ Step(n, ReportMbrs(j), JoinReplies(n, j))
    /\ nextCookie' = nextCookie + 1
    /\ Finalize(n, j) /\ Publish(n, j) /\ UNCHANGED assertFail

\* The TIMEOUT case, reached once update_timeout_expired(UPDATE_TIMEOUT).
JoiningElect(n, i) ==
    LET leader == UpdateLeader(i.update) IN
    \/ leader = n /\ Cardinality(i.update) = 1 /\ JoiningToJoined(n, i)
    \/ leader = n /\ Cardinality(i.update) > 1 /\ SendMemlistRequest(n, i)
    \/ leader # n /\ ClReplied(i) /\ ToMemlistRes(n, i)
    \/ leader # n /\ ~ClReplied(i) /\ ClReplyOnly(n, i)
    \* UPDATE_LONG_TIMEOUT expired too: send LEAVE and reset
    \/ /\ leader # n /\ ~ClReplied(i)
       /\ Step(n, Reset(ClReplyInfo(i)),
               ClReplyOut(n, i) \cup {LeaveMsg(n, ClReplyInfo(i))})
       /\ Quiet

JoiningTimeout(n) == ccm[n].state = JOINING /\ JoiningElect(n, ccm[n])

\* JOIN at a higher minor transition: restart the round at that minor.
JoiningJoinNewMinor(n, m) ==
    LET j == [ccm[n] EXCEPT !.update = {m.from}, !.minor = m.minor] IN
    /\ InJoining(n, m) /\ m.type = JOIN /\ m.minor > ccm[n].minor
    /\ Step(n, j, {JoinMsg(n, j)}) /\ Quiet

\* JOIN of this round: record it; once every roster node has, elect.
JoiningJoin(n, m) ==
    LET i == [ccm[n] EXCEPT !.update = @ \cup {m.from}]
        leader == UpdateLeader(i.update)
    IN
    /\ InJoining(n, m) /\ m.type = JOIN /\ m.minor = ccm[n].minor
    /\ \/ Cardinality(i.update) # RosterSize /\ Step(n, i, {}) /\ Quiet
       \/ Cardinality(i.update) = RosterSize /\ leader = n /\ SendMemlistRequest(n, i)
       \/ Cardinality(i.update) = RosterSize /\ leader # n /\ ClReplied(i) /\ ToMemlistRes(n, i)
       \/ Cardinality(i.update) = RosterSize /\ leader # n /\ ~ClReplied(i) /\ ClReplyOnly(n, i)

\* REQ_MEMLIST: cache it, then fall through into the TIMEOUT case.
JoiningReqMemlist(n, m) ==
    LET i == AddMemlistReq(ccm[n], m.from, m.major) IN
    /\ InJoining(n, m) /\ m.type = REQ_MEMLIST
    /\ \/ Step(n, i, {}) /\ Quiet
       \/ JoiningElect(n, i)

\* ABORT for the transition in flight: bump the minor and JOIN again.
JoiningAbort(n, m) ==
    LET j == [ccm[n] EXCEPT !.minor = @ + 1] IN
    /\ InJoining(n, m) /\ m.type = ABORT
    /\ m.major = ccm[n].major /\ m.minor = ccm[n].minor
    /\ ccm[n].minor < MaxMinor
    /\ Step(n, j, {JoinMsg(n, j)}) /\ Quiet

\* LEAVE: forget the node's update and its cached version request.
JoiningLeave(n, m) ==
    /\ InJoining(n, m) /\ m.type = LEAVE
    /\ Step(n, [ccm[n] EXCEPT !.update = @ \ {m.from}, !.joiners = @ \ {m.from}], {})
    /\ Quiet

-----------------------------------------------------------------------------
(* Checks of ccm_state_sent_memlistreq, ccm_state_memlist_res and          *)
(* ccm_state_joined: cookie and no earlier major transition.               *)

Accepts(i, m) == m.type = PROTOVERSION \/ (m.cookie = i.cookie /\ m.major >= i.major)

In(n, s, m) == ccm[n].state = s /\ Accepts(ccm[n], m)

\* PROTOVERSION in JOINING, SENT_MEMLISTREQ or MEMLIST_RES: cache the
\* requester (ccm_add_new_joiner); it is answered if this node finalizes.
CacheJoiner(n, m) ==
    /\ ccm[n].state \in {JOINING, SENT_MEMLISTREQ, MEMLIST_RES}
    /\ Accepts(ccm[n], m) /\ m.type = PROTOVERSION
    /\ Step(n, [ccm[n] EXCEPT !.joiners = @ \cup {m.from}], {}) /\ Quiet

\* ccm_memlist_changed: some current member is not in the new list.
MemlistChanged(i, cq) == \E x \in i.member : x \notin cq

\* ccm_compute_and_send_final_memlist: the leader finalizes the maximum
\* clique.  A new cookie is drawn only if some current member is missing
\* from it (ccm_memlist_changed).
ComputeFinal(n, i) ==
    LET cq      == MaxClique(i, n)
        changed == MemlistChanged(i, cq)
        j == [i EXCEPT !.member = cq, !.major = @ + 1, !.minor = 0,
                       !.cookie = IF changed THEN FreshCookie ELSE @,
                       !.cl = IF n \in cq THEN n ELSE NoNode,
                       !.update = {}, !.gv = {}, !.grep = NoGraph,
                       !.state = JOINED,
                       !.joined = IF @ = 0 THEN i.major + 1 ELSE @]
    IN
    /\ i.major < MaxMajor
    /\ changed => nextCookie < MaxCookie
    /\ Step(n, ReportMbrs(j),
            {FinalMsg(n, i, cq, IF changed THEN FreshCookie ELSE NoCookie)}
              \cup JoinReplies(n, j))
    /\ nextCookie' = IF changed THEN nextCookie + 1 ELSE nextCookie
    /\ Finalize(n, j) /\ Publish(n, j)
    \* ccm_get_my_membership_index: assert(0) when the leader is left out
    /\ assertFail' = IF n \in cq THEN assertFail ELSE assertFail \cup {"my_membership_index"}

\* MEMBERSHIP_INFO_TO_FOLLOWERS_TIMEOUT expired: send LEAVE and reset.
LeaderGiveUp(n, i) == Step(n, Reset(i), {LeaveMsg(n, i)}) /\ Quiet

\* What follows ccm_note_membership in the RES_MEMLIST and LEAVE cases.
AfterNote(n, i) ==
    \/ ~FilledAll(i) /\ Step(n, i, {}) /\ Quiet
    \/ FilledAll(i) /\ ComputeFinal(n, i)
    \/ FilledAll(i) /\ LeaderGiveUp(n, i)

(* ccm_state_sent_memlistreq                                                *)

\* A late JOIN: assert same transition, then ccm_add_membership.
SentJoin(n, m) ==
    /\ In(n, SENT_MEMLISTREQ, m) /\ m.type = JOIN
    /\ Step(n, GraphAddMember(ccm[n], n, m.from), {})
    /\ UNCHANGED <<nextCookie, finals, published>>
    /\ assertFail' = IF m.major = ccm[n].major /\ m.minor = ccm[n].minor
                     THEN assertFail ELSE assertFail \cup {"sent_memlistreq_join"}

\* TIMEOUT past MEMBERSHIP_INFO_FROM_FOLLOWERS_TIMEOUT.
SentTimeout(n) ==
    /\ ccm[n].state = SENT_MEMLISTREQ
    /\ \/ ComputeFinal(n, ccm[n])
       \/ LeaderGiveUp(n, ccm[n])

\* Another self-appointed leader asks: answer with an empty list.
SentReqMemlist(n, m) ==
    /\ In(n, SENT_MEMLISTREQ, m) /\ m.type = REQ_MEMLIST /\ m.from # n
    /\ Step(n, ccm[n], {MemlistResMsg(n, ccm[n], m.from, {})}) /\ Quiet

\* A follower's connectivity report of this minor transition.
SentResMemlist(n, m) ==
    /\ In(n, SENT_MEMLISTREQ, m) /\ m.type = RES_MEMLIST
    /\ m.minor = ccm[n].minor
    /\ \/ m.major # ccm[n].major /\ Step(n, ccm[n], {})
          /\ UNCHANGED <<nextCookie, finals, published>>
          /\ Fail("sent_memlistreq_res_major")
       \/ m.major = ccm[n].major /\ AfterNote(n, GraphNote(ccm[n], m.from, m.memlist))

\* LEAVE of a node of the update table counts as an empty report.
SentLeave(n, m) ==
    /\ In(n, SENT_MEMLISTREQ, m) /\ m.type = LEAVE /\ m.from \in ccm[n].update
    /\ AfterNote(n, GraphNote(ccm[n], m.from, {}))

-----------------------------------------------------------------------------
(* ccm_state_memlist_res                                                    *)

\* Back to JOINING at the next minor transition (TIMEOUT, leader's LEAVE).
RetryJoin(n) ==
    LET j == [ccm[n] EXCEPT !.update = {}, !.minor = @ + 1, !.state = JOINING] IN
    /\ ccm[n].minor < MaxMinor
    /\ Step(n, j, {JoinMsg(n, j)}) /\ Quiet

\* A JOIN of a later major transition is aborted.
MemresJoinAbort(n, m) ==
    /\ In(n, MEMLIST_RES, m) /\ m.type = JOIN /\ m.major > ccm[n].major
    /\ Step(n, ccm[n], {AbortMsg(n, ccm[n], m.from, m.major, m.minor)}) /\ Quiet

\* A JOIN of a later minor transition restarts the round there.
MemresJoinNewMinor(n, m) ==
    LET j == [ccm[n] EXCEPT !.update = {m.from}, !.minor = m.minor, !.state = JOINING] IN
    /\ In(n, MEMLIST_RES, m) /\ m.type = JOIN
    /\ m.major = ccm[n].major /\ m.minor > ccm[n].minor
    /\ Step(n, j, {JoinMsg(n, j)}) /\ Quiet

\* A memlist request of the same minor gets an empty reply, of another
\* minor makes the node leave and reset.
MemresReqMemlist(n, m) ==
    /\ In(n, MEMLIST_RES, m) /\ m.type = REQ_MEMLIST
    /\ \/ m.minor = ccm[n].minor
          /\ Step(n, ccm[n], {MemlistResMsg(n, ccm[n], m.from, {})}) /\ Quiet
       \/ m.minor # ccm[n].minor
          /\ Step(n, Reset(ccm[n]), {LeaveMsg(n, ccm[n])}) /\ Quiet

\* The leader started its MEMBERSHIP_INFO_TO_FOLLOWERS_TIMEOUT (25) before
\* the follower started its FINALLIST_TIMEOUT (25 + 5), when it sent the
\* request the follower answered: the follower's timer cannot expire while
\* the leader still collects reports for the same transition.
LeaderCollecting(n) ==
    LET l == ClLeader(ccm[n]) IN
    /\ l \in Node
    /\ ccm[l].state = SENT_MEMLISTREQ
    /\ ccm[l].cookie = ccm[n].cookie
    /\ ccm[l].major = ccm[n].major /\ ccm[l].minor = ccm[n].minor

MemresTimeout(n) ==
    /\ ccm[n].state = MEMLIST_RES /\ ~LeaderCollecting(n)
    /\ RetryJoin(n)

MemresLeave(n, m) ==
    /\ In(n, MEMLIST_RES, m) /\ m.type = LEAVE /\ m.from = ClLeader(ccm[n])
    /\ RetryJoin(n)

\* The leader's final list for this transition.
MemresFinal(n, m) ==
    LET i == ccm[n]
        j == [i EXCEPT !.member = m.memlist, !.major = @ + 1, !.minor = 0,
                       !.cookie = IF m.newcookie # NoCookie THEN m.newcookie ELSE @,
                       !.cl = IF m.from \in m.memlist THEN m.from ELSE NoNode,
                       !.update = {}, !.state = JOINED,
                       !.joined = IF @ = 0 THEN i.major + 1 ELSE @]
    IN
    /\ In(n, MEMLIST_RES, m) /\ m.type = FINAL_MEMLIST
    /\ m.from = ClLeader(i) /\ m.major = i.major /\ m.minor = i.minor
    /\ \/ n \notin m.memlist /\ Step(n, Reset(i), {}) /\ Quiet
       \/ /\ n \in m.memlist
          /\ Step(n, ReportMbrs(j), {})
          /\ Finalize(n, j) /\ Publish(n, j) /\ UNCHANGED nextCookie
          /\ assertFail' = IF m.from \in m.memlist THEN assertFail
                           ELSE assertFail \cup {"memlist_res_cl_index"}

-----------------------------------------------------------------------------
(* ccm_state_joined                                                         *)

\* ccm_am_i_leader compares indices; both are -1 when n is not a member.
AmILeader(n, i) == (IF n \in i.member THEN n ELSE NoNode) = i.cl

JoinedProto(n, m) ==
    /\ In(n, JOINED, m) /\ m.type = PROTOVERSION
    /\ Step(n, ccm[n], IF AmILeader(n, ccm[n]) THEN {JoinerReply(n, ccm[n], m.from)} ELSE {})
    /\ UNCHANGED <<nextCookie, finals, published>>
    /\ assertFail' = IF n \in ccm[n].member THEN assertFail
                     ELSE assertFail \cup {"my_membership_index"}

\* JOIN: assert no earlier minor, then start a new round at its minor.
JoinedJoin(n, m) ==
    LET j == [ccm[n] EXCEPT !.update = {m.from}, !.minor = m.minor, !.state = JOINING] IN
    /\ In(n, JOINED, m) /\ m.type = JOIN
    /\ Step(n, j, {JoinMsg(n, j)})
    /\ UNCHANGED <<nextCookie, finals, published>>
    /\ assertFail' = IF m.minor >= ccm[n].minor THEN assertFail
                     ELSE assertFail \cup {"joined_join_minor"}

\* LEAVE of a member: start a new round.
JoinedLeave(n, m) ==
    LET j == [ccm[n] EXCEPT !.state = JOINING] IN
    /\ In(n, JOINED, m) /\ m.type = LEAVE /\ m.from \in ccm[n].member
    /\ Step(n, j, {JoinMsg(n, j)}) /\ Quiet

-----------------------------------------------------------------------------
(* ccm_control_process: one event per step.                                *)

\* Every handler, selected by the node's state and the message type.
Handle(n, m) ==
    \/ VersionRespDrop(n, m) \/ VersionRespAccept(n, m)
    \/ VersionProto(n, m) \/ VersionActivity(n, m) \/ VersionLeave(n, m)
    \/ CacheJoiner(n, m)
    \/ JoiningJoinNewMinor(n, m) \/ JoiningJoin(n, m)
    \/ JoiningReqMemlist(n, m) \/ JoiningAbort(n, m) \/ JoiningLeave(n, m)
    \/ SentJoin(n, m) \/ SentReqMemlist(n, m) \/ SentResMemlist(n, m)
    \/ SentLeave(n, m)
    \/ MemresJoinAbort(n, m) \/ MemresJoinNewMinor(n, m)
    \/ MemresReqMemlist(n, m) \/ MemresLeave(n, m) \/ MemresFinal(n, m)
    \/ JoinedProto(n, m) \/ JoinedJoin(n, m) \/ JoinedLeave(n, m)

\* The TIMEOUT event (timeout_msg_mod), when no message is readable.
Timeout(n) ==
    \/ VersionTimeoutRetry(n) \/ VersionTimeoutAlone(n) \/ VersionTimeoutRestart(n)
    \/ JoiningTimeout(n) \/ SentTimeout(n) \/ MemresTimeout(n)

\* ccm_create_leave_msg: a LEAVE of node d carrying n's own context.
LeaveFrom(n, d) == Message(LEAVE, d, n, ccm[n])

\* The log-and-drop paths of the handlers: checks that fail, message types
\* a state does not expect, and the cases that end in a plain break.
Discard(n, m) ==
    LET i == ccm[n] IN
    \/ i.state = JOINING
       /\ \/ ~JoiningAccepts(i, m)
          \/ m.type \in {PROTOVERSION_RESP, RES_MEMLIST, FINAL_MEMLIST}
          \/ m.type = ABORT /\ (m.major # i.major \/ m.minor # i.minor)
    \/ i.state = SENT_MEMLISTREQ
       /\ \/ ~Accepts(i, m)
          \/ m.type \in {PROTOVERSION_RESP, FINAL_MEMLIST, ABORT}
          \/ m.type = REQ_MEMLIST /\ m.from = n
          \/ m.type = RES_MEMLIST /\ m.minor # i.minor
          \/ m.type = LEAVE /\ m.from \notin i.update
    \/ i.state = MEMLIST_RES
       /\ \/ ~Accepts(i, m)
          \/ m.type \in {PROTOVERSION_RESP, ABORT, RES_MEMLIST}
          \/ m.type = JOIN /\ m.major = i.major /\ m.minor <= i.minor
          \/ m.type = LEAVE /\ m.from # ClLeader(i)
          \/ m.type = FINAL_MEMLIST
             /\ (m.from # ClLeader(i) \/ m.major # i.major \/ m.minor # i.minor)
    \/ i.state = JOINED
       /\ \/ ~Accepts(i, m)
          \/ m.type \in {PROTOVERSION_RESP, REQ_MEMLIST, RES_MEMLIST, FINAL_MEMLIST, ABORT}
          \/ m.type = LEAVE /\ m.from \notin i.member

Drop(n, m) == Discard(n, m) /\ Step(n, ccm[n], {}) /\ Quiet

\* ccm_readmsg: with no cached leave, heartbeat hands over one message.
Take(n) ==
    /\ leaveq[n] = {} /\ inbox[n] = {}
    /\ \E e \in net :
        /\ e[2] = n
        /\ net' = net \ {e}
        /\ inbox' = [inbox EXCEPT ![n] = {e[1]}]
    /\ UNCHANGED <<ccm, nextCookie, finals, published, assertFail, leaveq, faults>>

\* The rest of ccm_control_process for that message.
Process(n) ==
    /\ \E m \in inbox[n] : Handle(n, m) \/ Drop(n, m)
    /\ UNCHANGED faults

\* No message within the wait: timeout_msg_mod.
Tick(n) == leaveq[n] = {} /\ inbox[n] = {} /\ Timeout(n) /\ UNCHANGED faults

\* An environment event, counted against MaxFaults.
Fault == faults < MaxFaults /\ faults' = faults + 1

\* nodelist_update: heartbeat reports a member dead; cache its leave.
NodeDead(n, d) ==
    /\ d # n /\ d \in ccm[n].member /\ d \notin leaveq[n]
    /\ leaveq' = [leaveq EXCEPT ![n] = @ \cup {d}]
    /\ Fault
    /\ UNCHANGED <<ccm, net, inbox, nextCookie, finals, published, assertFail>>

\* ccm_readmsg: the cached leave of the lowest node comes first.
CachedLeave(n) ==
    LET m == LeaveFrom(n, Min(leaveq[n])) IN
    /\ leaveq[n] # {} /\ inbox[n] = {}
    /\ Handle(n, m) \/ Drop(n, m)
    /\ UNCHANGED faults

\* ccm_handle_hbapiclstat: the ccm client of d went away.
ClStat(n, d) ==
    /\ leaveq[n] = {} /\ inbox[n] = {} /\ d # n
    /\ ccm[n].state \notin {NONE, VERSION_REQUEST}
    /\ Handle(n, LeaveFrom(n, d))
    /\ Fault

\* ccm_handle_shutdone for this node itself: ccm_reset, and
\* ccm_control_process returns 1, which ends the daemon; heartbeat
\* respawns it and ccm_control_init starts afresh, process statics
\* (respdrop) included.  A crash of the daemon has the same effect.
ShutDone(n) ==
    /\ leaveq[n] = {} /\ inbox[n] = {}
    /\ ccm[n].state \notin {NONE, VERSION_REQUEST}
    /\ Step(n, InitInfo, {}) /\ Quiet
    /\ Fault

Init ==
    /\ ccm = [n \in Node |-> InitInfo]
    /\ net = {}
    /\ inbox = [n \in Node |-> {}]
    /\ nextCookie = 0
    /\ finals = {}
    /\ published = {}
    /\ assertFail = {}
    /\ leaveq = [n \in Node |-> {}]
    /\ faults = 0

Next ==
    \E n \in Node :
        \/ Take(n)
        \/ Process(n)
        \/ Tick(n)
        \/ CachedLeave(n)
        \/ \E d \in Node : NodeDead(n, d) \/ ClStat(n, d)
        \/ ShutDone(n)

Spec == Init /\ [][Next]_vars

-----------------------------------------------------------------------------
(* Properties.                                                              *)

Asserts == {"my_membership_index", "sent_memlistreq_join",
            "sent_memlistreq_res_major", "memlist_res_cl_index", "joined_join_minor"}

TypeOK ==
    /\ ccm \in [Node -> Info]
    /\ net \subseteq Msg \X Node
    /\ inbox \in [Node -> SUBSET Msg]
    /\ nextCookie \in 0..MaxCookie
    /\ assertFail \subseteq Asserts
    /\ leaveq \in [Node -> SUBSET Node]
    /\ faults \in 0..MaxFaults

\* The asserts of the JOIN case of ccm_state_sent_memlistreq: a JOIN that
\* reaches the leader while it collects reports is of the leader's own
\* major and minor transition.
LateJoinSameTransition == "sent_memlistreq_join" \notin assertFail

\* Spec section 8: two finalizations of the same major transition under the
\* same cookie have the same membership.  The cookie is renewed only when
\* ccm_memlist_changed sees a current member missing from the new list.
Agreement ==
    \A f, g \in finals :
        f.major = g.major /\ f.cookie = g.cookie => f.member = g.member

\* The other assertions of ccm.c hold: neither assert(0) in
\* ccm_get_my_membership_index (a leader or a JOINED node missing from its
\* own list), nor the leader-index check of the FINAL_MEMLIST case of
\* ccm_state_memlist_res, nor the major-transition assert of the RES_MEMLIST
\* case of ccm_state_sent_memlistreq, nor the minor-transition assert of
\* the JOIN case of ccm_state_joined fires.  (The late-JOIN assert of
\* ccm_state_sent_memlistreq is LateJoinSameTransition.)
AssertsHold == assertFail \subseteq {"sent_memlistreq_join"}

=============================================================================

# TLA+ models of heartbeat's membership, event API, application heartbeat and random pool

This directory holds TLA+ specifications of the code under `src/`, the TLC
configurations that check them, and `PROJECT.json`, which records the runs,
the mutants, the source lines each definition models, the findings and the
hazards.

## The system and its parts

| Part | Source | Role | Modelled |
|---|---|---|---|
| CCM daemon | `src/membership/ccm/ccm.c` | per-node protocol state machine: version handshake, join rounds, leader election, connectivity collection, final membership, eviction | `CCM.tla`, `MCCCM.tla` (partly, see below) |
| CCM client event library | `src/membership/ccm/ccmlib_eventapi.c` | clients register a token, set callbacks and receive membership events | `EventApi.tla`, refining `OcEvRegistry.tla` |
| CCM test client | `src/membership/ccm/ccm_testclient.c` | prints membership events | `CcmTestClient.tla` (composed with `EventApi`) |
| Application heartbeat daemon | `src/telecom/apphbd/apphbd.c` | clients register over IPC, send heartbeats, are declared dead on timer expiry | `AppHb.tla` |
| apphb client library | `src/lib/apphb/apphb.c` | request/reply wrappers for apphbd | `AppHb.tla` (composed with the daemon) |
| Random pool | `src/lib/clplumbing/cl_random.c` | ring of pre-drawn random numbers refilled by a 10 ms timeout source | `CLRandom.tla` |
| CIM providers | `src/cim/*.c` | stateless CMPI adapters | no (pure I/O) |

The CCM daemon interacts with three collaborators that are *not* under `src/`
and are therefore modelled from `spec.md`:
* the heartbeat client API, which delivers cluster messages, node-status
  callbacks (`nodelist_update`), client-status (`hbapi-clstat`) and
  `shutdone` events;
* the update table, connectivity graph and version tracker (`update_*`,
  `graph_*`, `version_*`), whose operations `ccm.c` calls;
* the node roster (`llm_*`).

These definitions are marked `spec_modelled` in the map.

## How the CCM daemon is modelled (`CCM.tla`)

**State.** `ccm[n]` is node `n`'s `ccm_info_t` (`Info`), with these fields:
* state, major and minor transition, cookie, cluster leader and joined
  transition;
* membership, update table (`update`, `memreq`), connectivity graph (`gv`,
  `grep`) and cached joiners;
* the version tracker (`verTries`, `verActivity`);
* the process statics `respdrop` and `old_mem` (`oldMem`) of `report_mbrs`.

The other variables:
* `leaveq[n]` is the static `leave_bitmap` of `ccm_readmsg`.
* `net` is the set of pending deliveries `<<message, receiver>>`.
* `inbox[n]` is the message `ccm_readmsg` has just returned.
* Three history variables record behaviour for the properties:
  `finals` (every finalization), `published` (every `report_mbrs`
  publication) and `assertFail` (every `assert` of `ccm.c` that would fire).

**Actions** (one per step of `ccm_control_process`):
* `Take(n)`: `ccm_readmsg` returns one pending message. Delivery is unordered,
  and a message that is never taken is a lost message.
* `Process(n)` runs the handler of the current state on it. `Handle` is one
  action per `case` of the state handlers; `Drop` is the checks and cases that
  log and return.
* `Tick(n)` is the TIMEOUT event (`timeout_msg_mod`), read only when no
  message and no cached leave is pending.
* `NodeDead(n, d)` is `nodelist_update`: it caches a leave.
* `CachedLeave(n)` is `ccm_readmsg` handing out a cached leave first.
* `ClStat(n, d)` is a client leave or the shutdone of another node.
* `ShutDone(n)` is the local `shutdone`: `ccm_reset` followed by the daemon's
  exit and respawn, which resets the process statics too.

Every action ends with `Step`, which does what `ccm_control_process` does
after the handler returns.

What happens inside the handlers:
* Each handler's guard is its checks before the `switch` (`Accepts`,
  `JoiningAccepts`).
* Sends are the messages added to `net`.
* `ccm_reset` is `Reset`.
* `assert`s that would fire are added to `assertFail`. The build may be
  compiled with `NDEBUG`, so the step continues as the code does without the
  assert.

**Abstractions.**
* Messages carry only the fields the protocol reads. Cookies are small
  integers drawn from `nextCookie` by `FreshCookie`. `ccm_generate_random_cookie`
  seeds `random()` with `tv_usec`, so the cookie is a function of the
  microsecond phase alone. The constant `Collide` names the draws that fall in
  the phase of the first draw; such a draw yields cookie 1 again.
* Memberships and connectivity bitmaps are sets of nodes.
* The update-table order is node order.
* The graph's maximum clique is the largest mutually connected set containing
  as many low-numbered nodes as possible.
* Timer durations are not modelled: a TIMEOUT may come at any time.
  One exception is `LeaderCollecting`: a follower in `MEMLIST_RES` does not
  give up (`FINALLIST_TIMEOUT`, 30 s) while its leader still waits in
  `SENT_MEMLISTREQ`, whose ceiling (`MEMBERSHIP_INFO_TO_FOLLOWERS_TIMEOUT`,
  25 s) is shorter.
* The blocking retry loops around every send are taken to succeed.

**Bounds** (`MCCCM.tla`):
* `MaxMajor`, `MaxMinor` and `MaxCookie` cap the counters; `MaxMsgs`
  (a `CONSTRAINT`) caps pending deliveries; `MaxFaults` caps environment
  events.
* A node that has spent a budget may stutter (`MCNext`), so these bounds are
  never reported as deadlocks. A real deadlock is still reported.

## Runs

| Run | Config | Expect | What it shows |
|---|---|---|---|
| `ccm_pair` | `MCCCM.cfg` | pass | Two live nodes, unordered lossy delivery, no environment events, two major transitions, up to three pending deliveries (1.8M states). `Agreement` and `AssertsHold` hold. |
| `ccm_faults` | `MCCCM_fault.cfg` | pass | Up to two node deaths, client leaves or restarts, two pending deliveries, three cookie draws that all collide (`Collide = {2, 3}`). `AssertsHold` holds. `Agreement` is not checked here: it is keyed by (major, cookie), and two partitions sharing a cookie break it trivially. |
| `ccm_roster` | `MCCCM_roster.cfg` | pass | Two live nodes in a roster of six. A response from a one-node group is dropped (up to `MAXDROP`) and no membership reaches quorum. The properties hold on the dropping path too. |
| `agreement_three` | `MCCCM_three.cfg` | violation | Three nodes, no environment event, one cookie draw, no minor bump, four pending deliveries (1.4M states to the violation). `Agreement` fails without any crash. |
| `late_join` | `MCCCM_latejoin.cfg` | violation | The late-JOIN transition assert of `ccm_state_sent_memlistreq` is reachable by reordering alone. |

Properties:
* `Agreement`: two finalizations of the same major transition and cookie have
  the same members (spec §8).
* `AssertsHold`: none of these asserts of `ccm.c` fires:
  * the `assert(0)` of `ccm_get_my_membership_index`;
  * the leader-index assert of FINAL_MEMLIST;
  * the RES_MEMLIST major assert in SENT_MEMLISTREQ;
  * the JOIN minor assert in JOINED.

  The late-JOIN assert is left out, because `late_join` shows it can fire.
* `LateJoinSameTransition`: that late-JOIN assert does not fire.

**Findings** (details in `PROJECT.json`):
1. **Agreement fails with three nodes and one missing JOIN.** Node 3 forms
   `{3}` alone (major 1, cookie 1). Nodes 1 and 2 both join it and adopt
   cookie 1. Node 2 does not receive node 1's JOIN, so each of them is the
   lowest node of its own update table and leads its own round. Each times
   out in `SENT_MEMLISTREQ` and finalizes itself alone: `{1}` and `{2}`,
   both as major 2 under cookie 1. `ccm_memlist_changed` looks only for
   current members missing from the new list. A joiner that never was a
   member has none, so it never draws a new cookie. A daemon restart empties
   the membership too, and leads to the same reuse. With two nodes and no
   restart, `Agreement` holds (`ccm_pair`).
2. **A debug build aborts on a reordered JOIN.** A leader that moved from
   minor 0 to minor 1 gets its own minor-0 JOIN after entering
   `SENT_MEMLISTREQ`, and `assert(trans_minorval == CCM_GET_MINORTRANS(info))`
   fires. The spec requires tolerance of reordering.

A divergence met while modelling, which no run checks: a JOINING node that
times out (`UPDATE_LONG_TIMEOUT`) calls `ccm_reset`, which zeroes the joined
transition (`ccm.c:508`), though spec §3 says it is kept once set. The
eviction check of `ccm_send_cl_reply` then no longer applies to that node. A
property saying so would only restate that line, and the missed eviction it
leads to needs three nodes, beyond the passing runs. Neither is a property
that a node's finalized list contains itself: with two nodes, the only lists
are built around the node itself, so it holds whatever the code does.

Every property of a passing run has a mutant in `PROJECT.json`: a plausible
bug in a mapped definition that TLC catches. The mutants are:
* a joiner reply that counts the cluster size one too high (`TypeOK`);
* `ccm_init_to_joined` without a new cookie (`Agreement`);
* `ccm_joining_to_joined` that keeps the minor transition (`AssertsHold`).

**Why these bounds.**
* Two live nodes are enough for every message type, for a leader and a
  follower, for concurrent self-elections and for evictions.
* Two major transitions let a node finalize, lose a member and finalize
  again.
* One minor bump lets a round restart.
* Three pending deliveries let a broadcast and a reply be in flight together,
  which is where the reorderings of the findings happen.
* Three nodes, or one fault with three pending deliveries, do not finish
  within five minutes. Three nodes with one cookie draw, no minor bump and
  four pending deliveries pass 13M states in 15 minutes with the queue still
  growing. No violation of `TypeOK` or `AssertsHold`
  turned up among them; this is evidence, not a check. Three nodes are therefore checked only in `agreement_three`,
  where TLC finds the violation after 1.4M states.

**Fairness.** None: all checked properties of `CCM.tla` are safety properties.

## How the CCM event API and its test client are modelled (`EventApi.tla`, `OcEvRegistry.tla`, `CcmTestClient.tla`)

**State** (`EventApi.tla`). Registration `r` is the r-th `oc_ev_register`
call. It also names the `__oc_ev_t` that call allocated. The variables:
* `handle[r]`: the token the client got back.
* `tokenhash[t]`: the `__oc_ev_t` stored under token `t`.
* `token_counter`, kept modulo `2^Width` (a `guint` has 32 bits).
* `memb[r]`: r's membership-class entry, one of none, inactive or active.
* `pipeOk[r]`: whether `pipe()` succeeded.
* `fds`: the descriptors of the open pipes. `oc_ev_unregister` never closes
  them, so they leak. Once they run out, `pipe()` fails and `oc_ev_activate`
  returns `EMFILE`. `ev_pipe_leak` shows this.
* `fault`: whether the process has died, by `assert` or by a NULL
  dereference.

**Actions.** One per `oc_ev_*` call that changes state:
* `Register` and `Unregister`;
* `SetCallback` for the membership class;
* `SetCallbackOther` for the class types `class_construct` cannot build, which
  aborts;
* `Activate`;
* `HandleEventFail`: a class whose `handle_event` fails is dropped;
* `IsMyNodeidNull`: a NULL class is dereferenced.

A call on an unknown token returns `EINVAL` and changes nothing, so it is a
stutter. A successful `handle_event` runs the client's callback and also
changes no state of this file. The class itself lives in `ccmlib_memapi.c`,
which is not under `src/`. It is seen only through what this file does with
it.

**Refinement.** `OcEvRegistry.tla` states what the API promises, without
tokens:
* a handle is live from its registration until its own unregistration;
* a call on a live handle changes only that handle's class.

`EventApi` instantiates it with a refinement mapping: registration `r` is live
while `tokenhash[handle[r]] = r`. The abstract `Spec` is checked as the
property `Registry`.

**Composition** (`CcmTestClient.tla`). `main` of `ccm_testclient.c` is a
program counter over the `EventApi` actions (`INSTANCE EventApi`):
1. register;
2. set the membership callback;
3. activate, and unregister and exit if that fails;
4. loop on `oc_ev_handle_event` until it returns non-zero.

Its own steps are weakly fair: the process runs alone, and `select` returns at
once because of the junk message, as the comment in `oc_ev_activate` says.
Class failure is up to ccm and has no fairness.

**Runs.**

| Run | Config | Expect | What it shows |
|---|---|---|---|
| `ev_registry` | `EventApi.cfg` | pass | Four registrations on a 2-bit counter, which wraps at the last one; two pipes' worth of descriptors, so later pipes fail. `EventApi` implements `OcEvRegistry` (1,013 states). |
| `ev_pipe_leak` | `EventApi_leak.cfg` | violation | `PipeFailsOnlyWhenExhausted`: a new handle's `pipe()` fails only when the live handles' pipes already hold the descriptors. It does not hold: register, register, unregister, register leaves one live handle and no descriptors, because `oc_ev_unregister` (`ccmlib_eventapi.c:224`) never closes `oc_pipe`. That handle's `oc_ev_activate` returns `EMFILE`. |
| `testclient_ccm_lost` | `CcmTestClient.cfg` | violation | `ExitsWhenCcmLost`: `oc_ev_handle_event` returns 0 after dropping a failed class. The test client's "terminating" exit is therefore unreachable, and it spins forever once ccm is gone. |

Mutants:
* a counter that is not incremented (`Registry`): the second registration
  takes over the first one's token.

A counter wrap onto a live token needs 2^32 registrations in one process. It
is recorded as a hazard. The counter stays in range because a `guint` wraps by
itself, so no type invariant is checked for this module.

## How the random pool is modelled (`CLRandom.tla`)

**State.** The statics of `cl_random.c`:
* `first` and `last`, the two ring indices;
* `randomness`, the ring;
* `randgen_scheduled` (`scheduled`) and `inityet`.

The other variables:
* `source` says whether the `add_a_random` timeout source exists.
* `drawn` counts `rand()` calls.
* The history `returned` lists what `get_next_random` handed out.

A value is the ordinal number of the `rand()` call that produced it. A slot
nobody wrote holds 0. Every call after the `MaxDraws`-th yields the model value
`Late`.

**Actions.**
* `GetDirect` is `get_next_random` on an empty ring. It calls `gen_a_random`,
  which runs `cl_init_random` the first time.
* `GetFromPool` is `get_next_random` on a non-empty ring: it reads the slot at
  `first`, then advances `first`.
* `RefillAdd` is one firing of `add_a_random`: it advances `last`, then writes
  that slot. The source is removed when the ring is full.

Both `get_next_random` actions end with `get_more_random` (`GetMoreRandom`).
`NUMRNUMS`, `IS_QUEUEFULL` and `IS_QUEUEEMPTY` are the operators of the same
names.

**Fairness.** `WF(RefillAdd)`. While the source exists, Gmain fires it every
10 ms. Callers of `get_next_random` owe nothing, so that action has no
fairness. The properties checked are safety properties, so this fairness
documents the scheduling and no check relies on it.

**Defects seen while modelling, which no run states as a property.** Neither
makes a returned value wrong. Both are recorded as hazards in `PROJECT.json`.
* With `first = 0`, `NUMRNUMS` never reaches `MAXRAND`. `add_a_random` then
  laps the ring and its 10 ms source is never removed.
* `randgen_scheduled` is never reset. Once the source has removed itself, a
  drained pool is never refilled, and every call falls back to `rand()`.

**Bounds.** Three slots, six distinct draws and six calls: enough for both
indices to wrap.

**Runs.**

| Run | Config | Expect | What it shows |
|---|---|---|---|
| `pool` | `CLRandom.cfg` | pass | `NoRepeat`: no `rand()` result is handed out twice, through wrap-around (1,019 states). |
| `pool_unwritten_slot` | `CLRandom_poolvaluesdrawn.cfg` | violation | `PoolValuesDrawn`: the reader returns `randomness[first]` before advancing, while the writer advances before writing, so the first pooled value is the never-written slot 0. |

Mutants:
* a wrap test one slot late (`TypeOK`);
* a read that does not advance `first` (`NoRepeat`).

`cl_randseed` only chooses the seed, so it is not modelled. The build uses
glib 2, where `g_main_loop_is_running(NULL)` is FALSE and the pool is never
scheduled. `LoopRunning` is that answer; the runs set it to TRUE, the case in
which the pool is used at all.

## How application heartbeats are modelled (`AppHb.tla`)

**Composition.** `AppHb.tla` joins the daemon (`apphbd.c`) and the library
(`apphb.c`). Application `a` opens channel `<<a, k>>` for its k-th
registration. A channel is two FIFO queues:
* `req` carries messages to the daemon;
* `rep` carries return codes back.

Either end can be destroyed (`appClosed`, `dClosed`).

**State.**
* `cl[c]` is the daemon's `apphb_client_t`, with these fields:
  * `st`;
  * `appname`, reduced to whether it is set;
  * `timerms`;
  * whether a timer is armed;
  * `missinghb`;
  * `deleteme`.
* `lib[a]` is the library's `hbcomm` and `hbstatus`, together with the call
  blocked in `apphb_getrc`.
* `setms` records the last interval sent.

**Actions.**
* Daemon:
  * `Accept` is `apphb_new_dispatch` with `apphb_client_new`.
  * `Prepare` is `apphb_prepare`, which removes an unregistered client.
  * `DispatchHup` and `DispatchRead` are the two branches of
    `apphb_dispatch`.
  * `DispatchRead` runs `apphb_read_msg` over every pending message
    (`ReadAll`). Each message goes through `apphb_process_msg` (`ProcessMsg`),
    which covers the `hbcmds` table, the `ESRCH` check and `senderrno`.
  * `TimerPopped` is `apphb_timer_popped`.
* Library:
  * `Register`, `Hb`, `SetInterval`, `Unregister` and `UnregisterLocal` are the
    API calls. `UnregisterLocal` covers the case where nothing is sent.
  * `GetRc` and `GetRcBroken` are `apphb_getrc` returning a code or a receive
    error.
* Faults:
  * `Crash(a)`: an application process dies.
  * `DaemonRestart`: apphbd dies and is restarted.

`apphb_client_new` never sets `timerms`, so `Accept` chooses it from
`{-1, 0, 1}`.

**Fairness.** Each daemon step per connection is weakly fair: the Gmain loop
polls every source and fires every expired timer. A blocked `apphb_getrc`
spins on `is_message_pending`, so its return is weakly fair too. This assumes
the IPC layer reports a broken channel as pending. The application's own
calls have no fairness.

**Bounds.** One application with two connections, six calls, one crash and one
daemon restart: enough to register, unregister and register again, and to
break a channel under a waiting call (96,820 states).

**Runs.**

| Run | Config | Expect | What it shows |
|---|---|---|---|
| `apphb` | `AppHb.cfg` | pass | Three properties hold under crash and restart. `RepliesAnswerCalls`: a return code is queued only for a waiting call. `CallsReturn`: every blocked call returns. `IntervalClientDetected`: a client that set a positive interval and went silent is declared missing. |
| `apphb_uninit_timer` | `AppHb_hung.cfg` | violation | `HungClientDetected`: a client that heartbeats without `SETINTERVAL` re-arms its timer only if the uninitialized `timerms` is positive. Otherwise it can hang unnoticed. |

Mutants, each a plausible slip in `apphb_process_msg`, `apphb_setinterval`
or `apphb_getrc`:
* `SETINTERVAL` without re-arming the timer;
* `apphb_getrc` retrying a failed `recv` instead of returning;
* a return code for `HEARTBEAT`;
* `apphb_setinterval` without its `hbms < 0` check, which sends a negative
  interval (`TypeOK`).

## Not modelled, and the plan

* **Liveness** (a round eventually ends, a JOINING node eventually joins).
  This needs timer durations or fairness on particular timeouts. The code's
  timers are wall-clock and its sends block, so a fairness assumption would
  have to be argued from the timeout constants; this is planned next.
* **Three-node rounds as a passing run.** `agreement_three` shows that two
  competing leaders and a third party break `Agreement`. Exhausting the
  three-node space for the other invariants is out of reach (see the
  bounds). Symmetry is unsound here: node ids are ordered, and the lowest id
  leads.
* **Duplicate delivery.** Heartbeat suppresses duplicates, so none is
  modelled. The spec's idempotence property (a redelivered FINAL_MEMLIST
  changes nothing) would need it.
* **The membership class of the event API** (`ccmlib_memapi.c`) is not
  under `src/`. Its `activate` and `handle_event` are seen only through the
  event API, and its failure is a free choice.
* **`apphb_getrc` against a live but silent daemon**: it would block forever,
  because the loop has no timeout. The model has no such daemon.
* **The CIM providers** (`src/cim/`): stateless CMPI adapters, pure I/O.

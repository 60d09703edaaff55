# lxl_cpp: a verification project

lxl_cpp is a distributed game server. A C++ engine (`src/server/lua_service`)
runs processes ("services") whose logic is written in Lua
(`src/server/lua_script`). This directory holds TLA+ modules that model the
services' logic and the engine's concurrent parts, configurations that
model-check them with TLC, and theorems about them that TLAPS proves. Paths
below are under `src/server/lua_script` for Lua and under
`src/server/lua_service/engine` for C++.

Contents: 1 the system; 2 the modules and the code; 3 the runs; 4 fairness;
5 what is proved; 6 what the checks found; 7 what is not modelled; 8 the plan;
9 running it.

## 1. The system

Every service is one process with one thread of Lua: an event loop that calls
handlers of messages, timers, answers of remote calls and results of database
queries, each to its end. There is no preemption inside a handler; what is hard
is what happens between handlers, and between services. A handler that raises
a Lua error is caught by its dispatcher (`safe_call`), which keeps whatever it
changed before the error.

The engine under a service is one main thread (a loop over modules in fixed
states, a timer manager, queues of results) and several others: network
workers that `select`, a thread that connects, threads of the task managers
(asynchronous tasks, MongoDB, Redis). They talk to the main thread through
queues under mutexes, and to nobody else.

### Components, state, operations

| component | state it keeps | operations | correct when | modelled |
|---|---|---|---|---|
| World role manager (`services/world/manage_role`) | the role tables under two indexes (by role id, by session id), session and opera id counters | `launch_role`, `reconnect_role`, `logout_role`, `client_quit`, `on_frame` (release of idle roles), the answers of the game services; `create_role`, `get_role_digest` | a role has one owner and one home; a session names one role; a release ends; handlers do not die | all but the last two operations |
| Gate client manager (`services/gate/client_mgr`, `client_cnn`) | a `Client` per connection: state, role, session | login, launch, reconnect, logout, kick, close; forwarding of digests and role creation | its view of who is in game agrees with the world's; answers are matched to the request they answer | all that keeps state |
| Game role manager (`services/game/service_logics/role_mgr`) | the roles in memory, each with its client | `launch_role` (load from the database), `client_change`, `release_role`, periodic save; match and room modules of a role | holds what the world thinks it holds; nothing saved is lost | loading, client change, release; the match and room modules |
| Rpc managers (`common/rpc`) | calls awaited, requests owed an answer, callbacks of failed calls, the time of the last check | `call`, `respone`, `handle_req_msg`, `handle_rsp_msg`, `on_frame` | a callback runs once, with the answer to its call | all |
| Zone network (`common/zone_service_mgr`, `common/msg_handler`) | the services known, a connection to each and from each | connect, send, receive, ping, close; register and watch in etcd | order is kept per connection; a closed connection does not unseat a new one | the connections, as links |
| Database uuid module (`services/service_module/database_uuid_module.lua`) | a pool of ids, whether a query is out | `start`, `apply`, query and its callback, `stop` | no id is given twice; a low pool is refilled | all |
| Match service (`services/match`) | solo and joined cells, rooms waiting for confirmation | join, quit, pair, confirm, apply for a room | a role is in one match at a time; a match ends in a fight or a notice | yes; the query for a match service is left out |
| Room service (`services/room`) | a state machine per room | apply, bind, unbind, ready, fight over | the roles of a room all learn how it ends | yes; `unbind` is never called |
| Fight service (`services/fight`) | fights, the clients bound to them | apply, bind, unbind, rolling, timeout | a fight ends | fights; not their clients |
| Login service (`services/login`) | none; accounts in the database | log in through the platform, find or insert the account | one user per account | no |
| Platform and auth services (`services/platform`, `services/auth`) | tokens in memory or in the database | HTTP requests | - | no |
| Coroutines (`libs/coroutine_ex`) | a coroutine's state and over callback | create, start, resume, yield, kill | the contract in the header of `coroutine_ex.lua` | no |
| Service and module life cycle (`services/service_base.lua`, `services/service_module`) | one state per module | init, start, update, stop, release | dependencies start before dependents | no |
| Timers and events (`common/timer`, `common/event`) | proxies that own subscriptions | subscribe, fire, release | nothing fires after its release | no |
| Network module (`network`) | connections, their buffers and descriptors, two event queues that are switched, tasks that connect | listen, connect (with and without waiting), cancel, send, close; the worker's round of `select`; `Update`, `Release`, `Destroy` | data keep their order, nothing in the middle is lost; every connection's end is told, last; every descriptor is closed once | all |
| Task managers (`common/task`, `mongo`, `redis`) | queues per thread, done tasks, threads that wait | start, add a task, the threads' loops, `OnFrame`, stop | a task is answered once, in order, by a task manager that runs; no task is forgotten; stop ends | all |
| Timer manager (`timer`) | a tree of timers by time, an index by id, removals that wait | add, remove, fire, clear | a timer fires when due, never after its removal; its node is freed once | all |
| Engine life cycle (`server_logic`, `module_def`, `../service`) | the loop's function and state, one state per module, the service's state | the loop, `Quit`, the service's `Run`, interrupts | what was started is stopped; a quit ends the loop | the network and the service module |
| DNS service and HTTP client, utilities, Lua bindings, etcd client | queries as tasks; requests by connection; memory pools, log, C++ coroutines | - | results come back once, to their caller | no |
| Robot and game client (`services/robot`, `src/client/game_card`) | a test client | - | - | no |

### How they interact

The client talks to a gate. The gate logs it in through the auth service, then
asks the world service that is in charge of the role (`role_id` modulo the
number of worlds) to launch the role. The world chooses a game service, has it
load the role from the database, tells it who the client is
(`client_change`) and answers the gate with a session id. The gate names the
session when the client logs out or disconnects. If a second client launches
the role the world kicks the first one at its gate. A role without a client is
idle; after a minute the world has the game release it. All of this is remote
calls with callbacks over TCP, one connection per ordered pair of services, so
order is kept from one service to another and nowhere else. A call whose
answer has not come by the next check of the rpc manager (every 15 s) is
reported as expired, and the answer, if it still comes, is ignored.

### What is hard here

`PROJECT.json` lists the hazards, each at its line. In groups:

* *crossing messages*: a takeover, a kick, a logout, a disconnection and a
  reconnect about one role are in flight at once, over three kinds of services;
* *stale closures*: callbacks capture a role table, a session or a client and
  run after the world has moved on;
* *calls given up*: the caller goes on as if the call had failed, while the
  callee carries it out (`rpc_mgr_base.lua:170` even gives up the calls whose
  deadline is ahead, rather than past);
* *ids*: sessions are drawn from two counters, a restarted service numbers its
  calls from one, pools of ids survive failed queries and crashes;
* *a match over four services*: games, match, room and fight service each keep
  their part of a match in tables of their own, and a role that quits, is
  released or launched again in the middle changes one of them;
* *threads*: a queue that grows between a look at it and a wait, a stop that
  notifies a thread that is about to wait, a descriptor closed here that
  denotes another connection there, two queues switched while they fill;
* *callbacks into what calls them*: a timer that removes itself or its
  neighbour while the tree is walked, a service that quits in any function of
  the main loop;
* *handlers that die halfway*: what they did before the error stays.

## 2. The modules and the code

| module | models | EXTENDS or INSTANCE |
|---|---|---|
| `Sending` | what a step sends, sorted by receiver | |
| `RoleNet` | links, remote calls, calls given up, broken connections; constants and their assumption | `Sending` |
| `GateClientMgr` | `client_mgr.lua`, `client_mgr__process_msg.lua`, `client_cnn_mgr.lua` | `RoleNet` |
| `WorldRoleMgr` | `manage_role_logic.lua`, `role.lua` | `RoleNet` |
| `GameRoleMgr` | `role_mgr.lua`, the parts of `game_role.lua` it uses | `RoleNet` |
| `RoleSystem` | the three composed: dispatch of messages, answers and expiries | the three |
| `RoleSessions` | the properties of the composition, one history variable, fairness | `RoleSystem` |
| `MCRoleSystem` | instances for TLC | `RoleSessions` |
| `SendingProofs` | lemmas about `SentTo` and appending to links | `Sending` |
| `RoleProofs`, `RoleOwnerProofs` | proofs; the last of them, of who is in game with a role | `RoleSessions`, `SendingProofs` |
| `RpcCalls` | the contract of a remote call, abstractly | |
| `RpcMgr` | `rpc_mgr_base.lua`, `rpc_rsp.lua`, `rpc_req.lua`, `zone_service_rpc_mgr.lua` | INSTANCE `RpcCalls` |
| `MCRpcMgr`, `RpcProofs` | instances for TLC; proofs | `RpcMgr` |
| `DbUuid` | `database_uuid_module.lua` | |
| `MCDbUuid` | an instance for TLC (the proofs are in `TaskProofs`) | `DbUuid` |
| `MatchNet` | links and calls of the games, the match, the room and the fight service | `Sending` |
| `RoleMatch` | `role_match.lua`, `role_room.lua`, the game's handlers of match and room messages | `MatchNet` |
| `MatchMgr`, `RoomMgr`, `FightMgr` | `services/match`, `services/room`, `services/fight` | `MatchNet` |
| `MatchSystem` | the four composed, fairness | the four |
| `MatchFight` | the properties of the composition | `MatchSystem` |
| `MCMatch`, `MatchProofs` | an instance for TLC; proofs | `MatchFight`; the proofs `SendingProofs` |
| `NetStream` | what a connection promises, abstractly | |
| `NetWorker` | `net_worker_select.cpp` over an operating system that gives out descriptors | |
| `NetModule` | `network_module.cpp`, the task thread; properties, fairness | `NetWorker`, INSTANCE `NetStream` |
| `MCNet`, `NetProofs` | instances for TLC; proofs | `NetModule` |
| `TaskPool` | what a task manager promises, abstractly | |
| `TaskThreads` | what the three managers share: queues, threads, results | |
| `AsyncTaskMgr`, `MongoTaskMgr`, `RedisTaskMgr` | `async_task_mgr.cpp`, `mongo_task_mgr.cpp`, `redis_task_mgr.cpp` | `TaskThreads` |
| `TaskMgrs` | a manager of one of the kinds; properties, fairness | the three, INSTANCE `TaskPool` |
| `MCTasks`, `TaskProofs` | an instance for TLC; proofs | `TaskMgrs` |
| `Timers` | what the timer manager promises, abstractly | |
| `TimerMgr` | `timer_mgr.cpp` | |
| `ServerLogic` | `ServerLogic.cpp`, `module_mgr.cpp` and, under `src/server/lua_service/service`, `service_base.cpp`, `main_impl.cpp` | `TimerMgr` |
| `Engine` | the properties of timers and loop | `ServerLogic`, INSTANCE `Timers` |
| `MCEngine`, `EngineProofs` | an instance for TLC; proofs | `Engine` |

Operators marked *slip* or *Mutant* stand just before a definition and are not used by any
specification. Each is a plausible mistake in that definition, kept because one
of the properties catches it (`PROJECT.json`, "mutants"): the properties are
known to be able to fail.

### Role sessions (`RoleNet` ... `RoleSessions`)

**State.** `net[<<a, b>>]` is what is in flight from service a to service b.
`clients[c]` is the gate's `Client` (a connection never comes back, so its
netid and its name are one thing). `objs` is the heap of the world's role
tables; the code shares a table between `role_id_to_role`,
`session_id_to_role` and the closures of calls, and some properties are about
closures that hold a table no index leads to, so sharing is modelled, not
abstracted. `wcalls` and `gcalls` are the `req_list`s: the set of closures of
calls under way. A closure contains what the Lua closure captures, and so
names the call. `roles[g][r]` and `loads[g]` are a game's roles and its
outstanding `find_one` queries.

**Actions.** One action per handler and, for `launch_role`, one per state of
the role it finds. `LaunchIdle` includes the fall-through of
`manage_role_logic.lua:132-148`: an idle role is answered with one session
and then given another. Where a handler can meet a Lua error, a disjunct of
the action stops where the code stops, with the changes made so far, and
records the line in `aborted`. Some of these disjuncts never fire;
that they do not is what `OnlyTakeoverDies` says.

**The network as the roles see it.** `RoleNet` abstracts the rpc managers to
what `RpcCalls` promises: a callback runs at most once, with the answer to its call;
an expired call may still be carried out. (A call reaches its callee at most
once since no manager sends a request again.) Expiries and
breaks of a connection are bounded by `MaxFault`. A call that cannot be sent
(its callback runs with an error in the next frame) is seen by its caller
as a call given up whose request was lost.

**Data left out**: user ids and role digests, the game's key that a success
carries (it is the role's `game`), passwords and tokens except whether two
connections hold the same one (`TokenOf`), the address of services, the
minute an idle role is kept (`OnFrame` may run at any time), release times.

### Rpc managers (`RpcMgr`, `RpcCalls`)

**State.** The variables of `RpcMgrBase`, one per service: `last_id`
(`Last_Rpc_Unique_Id`, shared by the ids of calls and of requests received),
`req_list`, `rsp_list`, `delay_execute_fns`, and `since`, the time since the
last check. `up` and `net` are the connections; a service sends over its own
connection to the peer, requests and answers alike.

**Time** is counted down: `req.left` is the time until the deadline. In the
code a check is made every 15 s and a call has 30 s, so a unit of 15 s makes
`Check_Expired_Span = 1` and `Default_Expire = 2`. `Tick` waits for the due
checks because frames (every few milliseconds) are much closer than checks;
`LateTick` is a service that is held up, and is a fault.

**History.** `made`, `reached`, `answered`, `over` and `renewed` are the
variables of `RpcCalls`; the managers do not read them. The refinement is by
identity of these variables: `KeepsContract` is `Contract!Spec`.

**Contract.** `RpcCalls` says: the callback of a call runs at most once; with a
result or an error only if the callee answered that very call (unless the
caller was restarted, when the answer to a call of its former self with the
same number may be taken for it); as failed only if it never reached
the callee; as expired at any time.

### Uuid pools (`DbUuid`)

One counter in the database, one pool per service. `task` and `to_id` are a
query at the database client, `StopModule` is a stop as well as a crash, after which
the database may still run the query. The database is external: `$inc` with
`return_after` is atomic, and an error says nothing about whether the
increment happened.

### Matches (`MatchNet` ... `MatchFight`)

**State.** A role's uuid, drawn when it asks for a match, is its *session*; the
match service makes one cell for each and a room of two cells. A room is
named by its two cells at all services: the room and the fight service
number their rooms and fights, and there is one of each per matched pair. `objs`
are the game roles ever made: a role that is launched again has new modules,
while closures of calls still lead to the old ones. `mroles`, `cells`,
`waiting`, `accepted` and `confirmed` are the match service's tables, `rooms`
the room service's (a released room has no record, though a closure may hold
it), `fights` the fight service's.

**Actions.** One per handler, callback and timer. Roles of a room are told in
any order (they are in a Lua table), and a role put in two rooms by one round
is in the last. Whether a room service is known when a room is to be applied
for, and whether a fight service is, is left open. The time to confirm is over
only when a role's answer shows it (the check by the clock can find nothing,
`room_mgr.lua:26` of the match service). A handler that dies keeps what it did
and leaves its line and object in `aborted`.

**Trouble.** `MaxTrouble` bounds, together, releases of roles, requests to quit,
calls given up and broken links; launches are free, joins bounded by `MaxJoin`.

**Left out**: the logic of `luandou` (asserts only), `pull_room_state` (changes
nothing), the clients bound to a fight and their rolls (a fight may be over at
any time), the query for a match service (there is one),
`notify_terminate_match` (compares with a field nothing assigns, so it
changes nothing), `unbind_room` (its condition, `role_room.lua:57`, cannot hold in a
room).

### Network (`NetWorker`, `NetModule`, `NetStream`)

**State.** The worker's and the module's own: `new_nodes`, `to_remove`,
`wait_send`, `net_datas` with `using_idx`, `id2nodes`, `net_tasks`,
`net_task_results`, `async_handlers`. `sock[f]` is what descriptor f denotes;
the lowest free one is given out, as the system does. `unread` and `wire` are the
peer's side. There is one worker and one task thread (a connection's netid
modulo their number chooses the worker and nothing is shared between workers), and
fewer connections than `FD_SETSIZE`.

**Actions.** A step of the worker is what it does between two locks: adopt,
take what is to be sent, choose descriptors, handle one, remove. `read_set` and
`write_set` are the descriptors chosen; they are handled by number, so a number
closed and given out again within a round is handled for its new owner. A
node passed over in a round that adopted others (`next_it_advance`) is
modelled. The main thread's `Update` hands out one event per step, so that
everything else may come in between. The unlocked `empty()` of the queues is
a read of either value. `stolen` records that a socket was closed on behalf
of another connection: from then on `NetStream` promises nothing.

**Left out**: peers that do not read for ever (`HandleNetWrite` spins on
`EAGAIN`), the contents of chunks, IPv6 and the name lookup.

### Task managers (`TaskThreads` ... `TaskMgrs`, `TaskPool`)

`mgr` is the kind; the three share a skeleton and differ in the queues (one for
all, or one per thread chosen by a hash code), in who notifies and who joins in a
stop, in what a malformed task or a lost context does, and in whether tasks are
accepted before the start (only the asynchronous ones). A thread's loop
is cut where it takes or leaves a lock. MongoDB's loop catches the driver's
exceptions only, and a Redis thread sets its context up first, again and again while
the server is away; of Redis only the branch for a cluster is modelled (the
other dies of a malformed pattern in its set-up). `missed` and `late` are history: a queue grew, or a stop was notified,
while a thread was past its look and not yet waiting.

### Timers and main loop (`TimerMgr`, `ServerLogic`, `Engine`, `Timers`)

The tree is the set of its nodes with their keys; `Update` fires one timer per
step, its callback may add and remove timers, then it is inserted again,
freed or left to be removed. `m_now_ms` is read from a clock that may go
back. `freed` counts how often a node was freed; `dangling` records that
`ClearAll` freed the tree while removals waited, for the index is not
cleared. The loop is one step per call of a module. Two modules
stand for all: the network, started before, and the service, whose `Run` may
fail. Scripts may add and remove timers in every callback of the main thread, and
ask to quit at any time, as an interrupt does; a second interrupt after the
service is gone exits at once. Modules that fail or are pending, and the setting up
of log and scripts, are left out.

## 3. The runs

A run is `tlc -config <run>.cfg <module>`. Deadlock is not an error in any of
them: clients stop asking, the counters have bounds, a process ends.

| run | instance | distinct states | shows |
|---|---|---|---|
| `Role_takeover` | 1 role, 3 connections of one player, 1 gate, 2 games, 1 call each, symmetry | 82,100 | `TypeOK`, `OneHome`, `OneClientPerRole`, `GameServesOwner`, `OnlyTakeoverDies` |
| `Role_retries` | 1 role, 2 clients, 2 calls each, 1 fault | 209,518 | `LaunchInCharge`, `ReleaseInCharge`, `GameHoldsRole`, `LoadUndisturbed`, `IdleDetached`, `ReleasingDetached`, `OneEntryCall` |
| `Role_release` | 1 role, 2 clients, 2 calls each, fair | 50,057 | `ReleaseEnds` |
| `Role_takeover_handled` | the smallest that shows it | - | violation, see 6 |
| `Rpc_calls` | 2 calls from one service to another, 1 fault, fair | 46,392 | `TypeOK`, `NoneForgotten`, `KeepsContract`, `AwaitedEnds` |
| `Rpc_failed_calls` | a call each way, no fault | - | violation, see 6 |
| `Uuid_pools` | 2 services, batches of 2, ids up to 6, 1 stop | 54,930 | `UuidTypeOK`, `NeverTwice`, `LowPoolRefills` |
| `Match_fights` | 2 roles, 1 game, 2 joins, 2 troubles, fair | 218,041 | `TypeOK`, `RoleHeld`, `InLiveRoom`, `RoomEnds` |
| `Net_streams` | 1 connection asked for, 2 chunks, 2 messages, 1 descriptor, fair | 191,872 | `StreamKept`, `CloseNotified` |
| `Net_sockets` | a listener and a guest it accepts, 1 chunk, 1 message, 2 descriptors | 397,997 | `TypeOK`, `DescriptorsOwned`, `StreamKept` |
| `Tasks` | each kind of manager, 2 threads, 3 tasks of two hash codes, one malformed, 1 start, fair | 60,090 | `TypeOK`, `SleptThrough`, `KeepsContract`, `TaskEnds`, `StopEnds` |
| `Engine` | 3 timers, 2 moments, 3 timers a frame, fair | 288,799 | `TypeOK`, `NoNodeLost`, `FreedOnce`, `StartedIsStopped`, `TimersKept`, `QuitEnds` |

What the properties say, and why they are worth a run:

* `OneClientPerRole`: of two clients in game with one role, one is being
  closed, or a kick or the answer to its logout is on its way to it. Spans the
  gates, the world and the link between them; false after a takeover of a
  launch (finding 1), so it is stated for the time before.
* `GameServesOwner`: when nothing is in flight, the game sends a role's
  messages to the client the world names as owner. `client_change` messages of
  an old and a new owner cross quits, logouts and reconnects.
* `OnlyTakeoverDies`: of the places where a world handler would meet nil
  or a failed assertion, only the takeover of a launch is reached.
* `OneHome`, `GameHoldsRole`: where the world thinks a role lives, it lives,
  and nowhere else, while it is released, relaunched and retried.
* `LaunchInCharge`, `ReleaseInCharge`, `LoadUndisturbed`: the closures of
  outstanding calls and queries still describe the world when they run. The
  code of the callbacks relies on this and mostly does not test it.
* `IdleDetached`, `ReleasingDetached`: a role that is idle or being released
  has neither session nor client, so nobody can quit it (assertion of
  `manage_role_logic.lua:257`) or be kicked from it.
* `OneEntryCall`: the gate never has two launches or reconnects under way for a
  client, so a late answer is not taken for the answer to another request.
* `ReleaseEnds`: a release leads to a released role.
* `KeepsContract` (rpc): the rpc managers refine `RpcCalls`.
* `NoneForgotten`, `AwaitedEnds`: the inverted comparison of
  `rpc_mgr_base.lua:170` gives up the calls that still have time, so a call
  that ever passed its deadline would stay for ever. Because a check is made
  twice as often as deadlines pass, none does, as long as no frame is held up
  for 15 s and no callback dies while calls are given up.
* `NeverTwice`, `LowPoolRefills`: see `DbUuid`.
* `RoleHeld`: whom the match service knows, and would refuse as matching
  already, is still in a cell, in a room that waits, or in one the room
  service is being asked about. Quits, rejoins and answers of older matches cross;
  the only way found to be held for nothing is a handler that died at
  `room_mgr.lua:96` of the match service.
* `InLiveRoom`: whom the game has in a room, the room service has bound in it,
  with the game to tell, or the notice of its end is under way. Binding is
  tried again while the room starts, ends and expires.
* `RoomEnds`: every room ends, whoever does not come and whatever call is given
  up, unless a link broke.
* `StreamKept`: queues, threads, buffers and delayed removal implement
  `NetStream`: each direction in order and without holes, except that what
  was sent first may be lost altogether (a message sent before the worker has
  adopted the connection is dropped if the worker looks in between); closing
  waits for what was sent before; the end is told once and last.
* `CloseNotified`: a connection that was closed, by either side, comes to its
  close event.
* `DescriptorsOwned`: each open descriptor is held in exactly one place, on
  every path of a cancelled, expired, failed or refused connection, as long as
  nobody has closed a socket for somebody else.
* `SleptThrough`: only a push between a thread's look and its wait goes
  unnoticed. `TaskEnds`, `StopEnds`: apart from that window (`missed`, `late`)
  every task is answered or dropped by a stop, and a stop returns.
* `KeepsContract` (tasks): tasks of a lane are answered in order and at most
  once, none after a stop has begun, although threads overtake one another.
* `NoNodeLost`, `FreedOnce`: index, tree, running timer and waiting removals
  agree, and a node is freed once, unless `ClearAll` came while removals waited.
* `TimersKept`: the timers under the loop refine `Timers`.
* `StartedIsStopped`, `QuitEnds`: leaving the loop, from whatever state, stops
  the network that was started, and leaving it is certain once asked for. (A
  quit in the frame that awakens the modules is the exception.)

**The bounds and why they are enough.**

* `MaxId` bounds the session and the opera ids, `MaxCall` the calls a gate makes
  for a client, `MaxFault` the expiries and breaks. The interesting
  histories are short: launch, leave and relaunch take three sessions; a
  takeover during a release takes two clients; a retry takes one expiry.
  `Role_takeover` has three connections so that a takeover is itself taken
  over, and two games so that a role can be on two.
* Explored without a violation, but too slow or too little different to be kept:
  `Role_retries` with 2 faults (831,514 states); a role launched by one client
  with 3 calls and 3 faults, so that a message is lost, the call given up and the
  retry given up as well (31,814); two players with two roles on two gates
  (149,227); takeover with 3 clients, 2 calls each and `MaxId` 4 (1.5 million);
  the rpc managers with 3 calls, two one way and one the other (1.3 million);
  matches with 3 joins (1,613,419), where `room_mgr.lua:96` does fail.
* `~ clash` in the properties of sessions: `launch_role` draws session numbers
  from one counter and `reconnect_role` from another, the opera ids (section 6),
  so a number can be drawn that somebody still holds: a client, the answer or
  the request that names it, a role in memory, or the index of the world. From
  then on a quit or a logout may hit the wrong role, and with it everything that
  trusts sessions breaks. The history variable `clash` records that this has
  happened, and the properties that would break are stated for the time before.
  `IdleDetached` and `OneEntryCall` hold whatever collides.
* `OneHome`, `GameServesOwner` and `OneClientPerRole` are stated for the time
  without faults: an expired call leaves a role on a game the world has
  forgotten, or a client that the game, or the gate, was not told of, until the
  next message about it. That is a limit of the protocol, not of the model.
* `MaxFault` 1 in `Rpc_calls`: a break, a restart, a frame that dies or a late
  one, in every place. Symmetric instances are used only for invariants, never
  for liveness.
* `MaxId` 6 and batches of 2 in `Uuid_pools`: three batches over two services,
  so that one refills while the other starts, and a batch is lost.
* `MaxJoin` 2 and `MaxTrouble` 2 in `Match_fights`: a whole match from join to
  end with any two troubles, such as a quit and a relaunch, or a bind that is
  given up and a break.
* `Net_streams` has two chunks and two messages, the fewest that can be
  reordered or have a hole; `Net_sockets` two descriptors for two connections, so
  that a number is given out again.
* Two threads and three tasks in `Tasks`: two tasks of one hash code, whose order
  can be lost, and one that overtakes them. One start, since a second one meets the
  state the first left, except for what `missed` and `late` keep.
* Three timers in `Engine`: the running one, one that is due with it and one that
  a callback adds; the clock has two values so that it can be set back.

## 4. Fairness

* `RoleSessions!FairSpec`: weak fairness of the world's handlers taken
  together, of the games' (message handlers and the results of queries) and of
  the gates' handling of messages. An event loop takes the next message or
  result as long as there is one. Nothing is assumed of clients,
  expiries or breaks; `Role_release` has none of the latter two, since a release
  whose calls expire for ever is retried for ever (hazard at
  `manage_role_logic.lua:267`).
* `RpcMgr!FairSpec`: weak fairness of `Tick` (time passes) and of each
  manager's `OnFrame`, which the main loop of a service calls every frame
  (`game_service_base.lua:122`). Answers, connections and faults are not
  assumed: `AwaitedEnds` holds because calls are given up.
* `MatchSystem!FairSpec`: weak fairness of the room and the fight service's
  handlers, and of their timers. Neither the games nor the match service nor any
  player has to do anything for a room to end.
* `NetModule!FairSpec`: weak fairness of the worker and the task thread, which
  loop, and of the main thread's `Update`. Peers and the program do as
  they like. The worker alone is assumed to make progress as a whole, not every
  descriptor.
* `TaskMgrs!FairSpec`: weak fairness of each thread's step outside the wait, of
  `OnFrame` and of the stop. A waiting thread is woken by a notification only
  (a spurious wakeup is possible but never assumed). For Redis the set-up is part of a thread's
  step, so a server that is away is assumed to come back.
* `ServerLogic!FairSpec`: weak fairness of the main thread, and strong fairness
  of the service saying that it can quit whenever it is asked again and again:
  a service that never can is never left.

## 5. What is proved

All theorems hold for every value of the constants that satisfies the modules'
assumptions: any number of roles, clients, gates, games, services and calls,
any batch size.

* `RoleProofs!GateCallsOnce`: `HSpec => []OneEntryCall`. Inductive
  invariant `GateInv`: the gate's types, and for each client that is not gone
  at most one entry call, and none unless it is in `Launch_Role`. The
  invariant must speak of clients that have not connected yet (they have made
  no call), which `OneEntryCall` does not. It needs nothing of the world: the
  gate drops an answer whose closure it no longer holds.
* `RoleProofs!TypeCorrect`: `HSpec => []TypeOK`. Types alone are not
  inductive: a callback updates the table its closure captured, an index leads
  to a table, and either could be nil. `HeapOK` (every index and closure leads
  to a table, of the right role) is the strengthening, and is part of the type
  invariant because it is what the handlers rely on. Every step of the world
  changes one role table; `OneTableStep` proves preservation for any
  step of that shape and the lemma of each handler shows that it has it.
* `RoleProofs!IdleRolesDetached`: `HSpec => []IdleDetached`, from
  `IdleTables`: the same of every table in the heap, indexed or not, since
  closures of dead calls still reach tables no index leads to.
* `RoleProofs!LaunchStaysInCharge`, `ReleaseStaysInCharge`,
  `ReleasingRolesDetached`, `WorldHandlersLive`: `LaunchInCharge`,
  `ReleaseInCharge`, `ReleasingDetached` and `OnlyTakeoverDies`, under any retries,
  losses and expiries. Invariant `SessionInv`: until `clash`, the tables
  and the calls about them are `Sound`. Its parts say which tables have a session
  and a client (`TablesSound`); of which table, in which state, a launch, a
  client_change, a release and a reconnect call are (`LaunchSound`,
  `ChangeSound`, `ReleaseSound`, `ReconnectSound`); that a session leads to the role
  that has it, and to one only (`IndexSound`); and that a session which has left
  the world leads to no table but one in use that has it (`GivenSound`). The last
  is what keeps a quit or a logout from a table in launch or in release, where
  an assertion would fail; it is also what a number drawn twice breaks. A step
  keeps the tables (`Kept`), changes, removes or creates one (`Changed`,
  `Removed`, `Created`): `FollowsSound` preserves `Sound` for these shapes, and each
  handler has a lemma that it has one of them.
* `RoleProofs!RolesHeldInGame`, `LoadsUndisturbed`, `RolesHaveOneHome`:
  `GameHoldsRole` and `LoadUndisturbed` under any retries, losses and expiries,
  `OneHome` until the first of them. Invariant `GamesSound`, until `clash`: what a
  game service, the world and the two links between them hold about a role fits
  together (`GameSound`). `Fits` says it of values: the calls that are out,
  the place the world has for the role, the requests and answers under way, the
  queries and the state on the game service. Its parts: a role loads as long as its
  one query runs (`Loading`); a release is under way only to a role that is being
  released (`ReleaseSent`); a role that has settled is not asked for again (`Holds`);
  only the last request about a role can be that of a call still out
  (`LastAsk`), and nothing follows the query or the answer of such a call
  (`QueryLast`, `AnswerLast`); without faults what is under way belongs to a
  call, and a role is nowhere else (`Housed`). `LastAsk` is what makes retries
  harmless: a call given up leaves its request on the link, but in front of the
  newer one. A step of the world has, for the game services, one of the
  shapes `Mutely`, `Tells`, `Launches`, `Releases`, `Forgets`; each handler has a
  lemma for its shape, and each shape and each step of a game service a lemma that
  it keeps `Fits`.
* `RoleProofs!GamesServeOwners`: `GameServesOwner`. Invariant `ServesSound`, until
  the first fault or `clash`: of a settled role the last `client_change` under way,
  or if there is none the game service itself, has the client of the world.
* `RoleOwnerProofs!ClientsOwnTheirRole`: `HSpec => []OneClientPerRole`. The property
  speaks of the gates, but which client leaves is decided by the world, and what
  it decides is under way for as long as the link takes. Invariant `Ordered`, until
  `clash`, the first fault or the first takeover of a launch: a client in game with a
  role, or about to be let in by an answer under way, is the one the world has for
  the role, unless a message that makes it leave is behind on the link, or it is
  closing or gone (`OwnersSound`). So the role's new client can be let in early only when
  the kick of the old one is on its way. Three parts make it inductive: every
  logout under way is there once, as its request or its answer, and is one the gate
  waits for, so an answer is never ignored by a client that stays in game
  (`LogoutsSound`); whoever has the session of a role, is to get it or asks to give it
  up is the role's client, and a quit that names it is of a client that is gone, so
  that nobody else can end the role for it (`BearersSound`); a cached answer of a launch
  names that client, and a reconnect its table (`AnswersSound`). A handler of the
  world has one of two shapes: it hands one role to a client or takes it away
  (`Hands`), or leaves who plays what (`Leaves`); each handler has a lemma for its
  shape, each step of a gate one for the four parts. It stands on `SessionInv` and
  `GameInv`: that calls, tables and sessions fit is what says whose role it is.
* `NetProofs!NetTypes`, `NetDescriptors`: `Spec => []TypeOK` and
  `Spec => []DescriptorsOwned`. Invariant `OwnedInv`: where a connection may be
  (`Places`: asked of the task thread, a guest about to be answered, given to
  the worker, told of), whatever was closed for whom, and, while nothing was stolen and
  the module runs, that the holders of descriptors are exactly these places, one
  for each (`Owned`).
* `NetProofs!StreamsKept`: `Spec => StreamKept`, the refinement of `NetStream`, for
  any number of connections, descriptors, chunks and messages. Invariant
  `StreamInv`: only a connection whose user closed it waits to be removed, the queue
  the main thread is done with is empty, and the threads are joined before the
  shutdown (`Control`); and, while nothing was stolen, `Streams`: a descriptor is
  open for a connection if and only if its node has it (`Socks`); one the program
  does not know yet has received nothing (`Fresh`); one the worker has, or is to
  adopt, is open (`Opens`); in the two queues together events are of open
  connections, nothing of a connection follows its end, and the end is there only of
  one the worker has no more (`Events`); nothing is written before a connection was
  adopted (`Written`), or ever for a listener (`Silent`). It
  needs `OwnedInv`: a chunk is read, or a message written, for the right connection
  because the descriptor is that of its node. Each action has a lemma that says which
  steps of the contract it makes of every connection at once (`Streaming`), since
  one pass of the worker opens, fails and ends several. What the queues hold of a
  connection is a function of their length, not a fold, so that `ChunksConcat` (of
  two sequences of events, the chunks follow each other) is proved once by
  induction and used by each.
* `TaskProofs!UuidTypes`, `IdsHandedOnce`, `PoolsRefill` (of `DbUuid`: an id is drawn
  by a task of the database client). The invariant: a query that is done holds a whole batch at or below the counter
  (`DoneOK`); pools and batches under way are disjoint and not above the
  counter (`InOnePlace`); an id handed out is in none of them (`Spent`); `ids_count`
  counts the pool and a low pool is querying (`Counted`).
* `RpcProofs!RpcTypes`, `DeadlinesAhead`: `Spec => []TypeOK` and
  `Spec => []NoneForgotten`. Invariant `TimeInv`: unless a frame was late or
  cut short, the time a call has left and the time since its service's last
  check add up to at least `Default_Expire`. As `Check_Expired_Span` is
  smaller, every call awaited still has time left, so a check gives up all of
  them; that inequality is the only thing the inverted comparison has to rely
  on.
* `RpcProofs!ContractKept`: `Spec => KeepsContract`, the refinement of
  `RpcCalls`, through breaks, restarts and late answers. Invariant
  `ContractInv`: what carries an id of a call (a request or an answer in flight,
  the entry at the callee) stands for the call its caller awaits under that id,
  unless the caller was restarted (`Fits`); a call awaited or to be reported as
  failed has not had its callback run, and is in one list only; a failed call is
  in no message. `StepContract` reduces every step that makes no call to what it
  sends, owes and still awaits; each action has one lemma for the invariant and
  one for the step of the contract it makes.

* `MatchProofs!RolesAreHeld`: `Spec => []RoleHeld`. Invariant `MatchInv`:
  `Held` (a role that is known is in its own cell, or in a room that is one of
  its own and that waits or was confirmed), `Sent` (of a confirmed room the
  answer of the room service is awaited, or the handler died), and `Shape` (the
  table is a function, the cells are finite). It needs nothing of what the games answer.
* `MatchProofs!MatchTypesKept`, `RolesAreInLiveRooms`: `Spec => []TypeOK` and
  `Spec => []InLiveRoom`. Invariant `RoomsInv`: a room is at one place, from the
  match service's table over the calls that apply for it to the room service's,
  and no two roles' sessions in it are one role's (`StageInv`); a session, a room's
  and a match's, belongs to one game role, and a bind and its answer in
  flight name sessions of theirs (`GameInv`); a role in a room, or whose granted
  bind is on its way, is bound there with its game, or the notice of the end
  is on the way, or a handler died telling it (`LiveInv`). `LiveInv` is
  stronger than `InLiveRoom` in the answers in flight: they may be overtaken
  by nothing that ends the room unnoticed, since answers and notices share a
  link.
* `TaskProofs!TaskTypes`, `OnlyMissedIsSleptThrough`: `Spec => []TypeOK` and
  `Spec => []SleptThrough`. Invariant `Attended`: a queue with tasks whose threads
  all wait grew in the window, for each kind of manager and each place in a
  thread's loop: a push notifies, and the thread it wakes looks again.
* `TaskProofs!TasksKeepContract`: `Spec => KeepsContract`, the refinement of
  `TaskPool`, for each kind of manager. Invariant `LanesInv`: what is queued, in
  hand or done was accepted, what is queued is in the queue of its lane, and a thread
  has a task only while it processes (`Placed`); a queue has one thread, or, with the
  asynchronous tasks, every task is its own lane and is in one place (`Apart`); a
  manager that has stopped has no threads and nothing to answer, and the threads
  before the one that `Stop` waits for have ended (`Stopped`). A line is read off its
  four parts: what the callbacks are being called for, what is done, what is in hand
  and what is queued. `InLane` is a function of the length of a sequence, so its
  lemmas (of two sequences, their lanes follow each other; of a sequence with one item
  more or less) are proved by induction. One lemma per action says which step of the
  contract it is: a task leaves its line at the front, called back, or in a stop.
* `EngineProofs!EngineTypes`, `StartedNetworkIsStopped`, `NodesKept`,
  `NodesFreedOnce`: `TypeOK`, `StartedIsStopped`, `NoNodeLost`, `FreedOnce`.
  `LifeInv` relates the loop's function to the modules' states;
  `NodeInv` says where the node of every id is (unknown, in the tree,
  running, to be removed, freed) and how often it was freed.
* `EngineProofs!TimersKeepThePromise`: `Spec => TimersKept`, the refinement of
  `Timers`. The refinement mapping `Plan` reads a timer's next firing from the
  tree or from the running timer; one lemma per action says which `Timers` step it
  is, most often a stutter.

Of the constants these proofs assume what the modules state: the services have
different names and nil is none of them (`ConstantsAssumption`, `NilAssumption`),
connections, nodes and tasks are what the code can tell apart
(`CnnAssumption`, `NodeAssumption`, `TaskAssumption`), there are finitely
many connections, and nil is not a number of messages (`CountAssumption`).

**Only model-checked**: liveness (`ReleaseEnds`, `AwaitedEnds`, `TaskEnds`,
`StopEnds`, `QuitEnds`, `RoomEnds`, `CloseNotified`), which is out of
the prover's reach under fairness. Every safety property and every refinement that a
run checks is proved. The recursive parts of the model (lines of tasks, chunks of a
stream) are functions of a length, so that induction over numbers reaches them.

## 6. What the checks found

1. `Role_takeover_handled`: `launch_role` handles a second client that launches
   a role while it is being launched, as `role.lua:25` says it should, but reads
   a variable of another branch (`manage_role_logic.lua:162`) and dies after it
   replaced the session and the cached answer. The role stays in launch.
2. `Rpc_failed_calls`: answering a request wipes the callbacks of calls that
   could not be sent (`rpc_mgr_base.lua:115`).

Met while modelling, and part of the model as it is, without a run of its own.
Of the roles:

* a client that disconnects while its launch is under way is never
  reported: the gate has no session to name yet, and drops the success that names
  it. The role stays in use by a client that is gone until someone launches it
  again (`client_mgr.lua:50` has a todo for the notification);
* `reconnect_role` draws session ids from the opera counter
  (`manage_role_logic.lua:372`), so two roles can have the same session. With
  more ids than the runs have, a session drawn twice ends every promise about
  sessions: a quit reaches a table in launch, whose callback then fails (lines 221
  and 244), and two clients play one role. That is why the properties
  say `~ clash`: without it they hold of the small instances only;
* a refused reconnect is never answered; an idle role that is relaunched answers
  one session and records another, so the client's later logout does
  nothing; `on_frame`'s forced removal of a role can never run; a failed query of
  a uuid pool is never retried; every postponement of a deadline ends the request
  that asked for it.

Of the matches (the match service's `room_mgr.lua` unless another is named):

* a request to quit reaches the match service but never changes the role on its
  game, since the answer names no session; a join that fails leaves the role in
  `joining`; the notice that a match was given up is ignored
  (`role_mgr_rpc_handler__match.lua:35`);
* a room may be of one role: a cell stays in the queue when its role rejoins,
  and both cells are then paired (no instance small enough for TLC gets there, the
  proof of the types did);
* the guard of the timeout check compares a field with itself (line 26), so a
  room nobody answers for waits for ever;
* a role that is launched again may quit or join anew while its room is applied
  for: the assertions at line 96 and at `role_mgr_rpc_handler__match.lua:47` can
  then fail, and the callback (line 142) forgets the newer record of a role, as it
  goes by role ids;
* a room whose roles are not all bound in time is removed without telling those
  that are: the room service's handler passes a function's name for the callback
  and dies (`room_mgr.lua:41` of the room service); a refused bind leaves the role
  in `try_enter_room`, and `unbind_room` is never sent.

Of the engine:

* between a thread's look at its queue and its wait a push or a stop goes
  unnoticed (`async_task_mgr.cpp:132`, `mongo_task_mgr.cpp:74`): the task waits for
  the next one, the stop hangs;
* a descriptor that could not be adopted is closed twice, by `AddCnn`
  (`net_worker_select.cpp:93-96`) and by its caller (`network_module.cpp:473-486`);
  a connection that both fails and is removed in one round as well
  (`net_worker_select.cpp:559`). The second close finds nothing or another connection's socket. A descriptor the worker holds that was closed
  makes every `select` fail (`net_worker_select.cpp:500-508`), though the comment at
  line 193 promises that every descriptor is handled;
* `ClearAll` frees nodes the index still leads to, and a removal that waited
  frees one again (`timer_mgr.cpp:90`);
* a quit in the frame that awakens the modules leaves started ones unstopped
  (`ServerLogic.cpp:81-142`);
* Redis: a command that is refused because the manager does not run is leaked
  and its caller given an id (`redis_task_mgr.cpp:113`); the pattern of the branch
  without a cluster has a parenthesis too many, and its test of `err` at
  line 282 is inverted;
* HTTP (not modelled): `http_client_mgr.cpp:97` tests one callback and calls
  another, and goes on with an iterator which that callback may have erased.

## 7. What is not modelled

* `create_role` and `get_role_digest` of the world, and their forwarding by the
  gate: database queries between which nothing is held. The limit of three
  roles can be exceeded (`manage_role_logic.lua:101`); planned.
* Saving of roles by the game: planned with the database client, where the
  order of a save and a later load is the question.
* The HTTP client and DNS (a DNS query is an asynchronous task); memory pools,
  log and C++ coroutines, which one thread uses alone; the Lua bindings and the
  etcd client, which pass calls and events on.
* Login: two logins of a new account race in the database
  (`login_game_mgr.lua:127`); discovery of services over etcd, ping and pong;
  coroutines; the life cycle of Lua services and their modules; platform and auth
  services. Section 8 has an order.
* Of modelled parts, what section 2 lists as left out.
* Coroutine process functions of the rpc managers: registered nowhere.
* The C++ and Lua code that is vendored (`third_party`, `lua53`, most of
  `libs`), the Unity client, tools, code generators.

## 8. The plan

Done: role sessions, uuid pools, rpc managers and their contract; matches from
join to the end of the fight; the engine's network, task managers, timers and main
loop, with contracts `NetStream`, `TaskPool` and `Timers`.

Left:

1. Saving and loading of roles over the MongoDB task manager, where they may go
   to different threads (`game_role.lua:141`); `create_role`'s limit and the
   account race, over the same.
2. `ZoneServiceMgr`'s connections and discovery; `CoroutineEx` against the
   contract in its header; the module life cycle of `ServiceBase`.
3. The HTTP client.

## 9. Running it

    tlasany RoleSystem.tla
    tlc -workers 2 -config Role_takeover.cfg MCRoleSystem
    tlc -workers 2 -config Match_fights.cfg MCMatch
    tlapm RoleProofs.tla

The proofs of the roles take thirteen and nine minutes, of the network thirteen and
of the matches nine, the others less, the runs from seconds to two and a half minutes each.

# PlayFrame in TLA+

PlayFrame is a framework for small game servers in C++, with a working
example: three servers, a test client and the shared code below them. This
directory models its core logic in TLA+, checks it with TLC and proves parts
of it with TLAPS. Paths below are relative to the root of the repository, with
`src/src/` in front of each (`run/` is `src/run/`).

## The system

    tcpclient  <--TCP-->  connsvr  <--ZMQ PAIR-->  gamesvr  <--ZMQ PAIR-->  datasvr --> MySQL

Every server is a `ServerFrame` that calls `AppRun` and sleeps 100 ms, again
and again, in one thread. datasvr has eight more threads, one for each MySQL
client. The servers share nothing but the sockets; the object pools of connsvr
and gamesvr lie in System V shared memory, so that they outlive their process.

| Part | State | Operations | What makes it hard | What makes it correct |
|---|---|---|---|---|
| `ShmPool`, `ShmMemory` (common/frame) | a segment with an array of units, a free list threaded through their `pos`, a count | `Init`, `Alloc`, `Find`, `Release`, `TravelPool` | the segment outlives the process; signs and offsets encode "used" | no unit is owned twice or lost, a restart finds exactly the owned ones, `Release` never aborts |
| `HeapTimer` (common/frame) | binary heap, index array, free list, random tags | `RegisterTimer`, `UnregisterTimer`, `TimerPoll`, growth | callbacks change the heap in the middle of a poll; ids outlive timers | heap order, an id names its own timer only, timers are served in order, and each is unless it is taken in another's place (finding 3) |
| `EventModule`, `ConnMgrModule` (connsvr) | descriptor -> connection with `player_idx` | accept, read, `SendConnStop`, `ZmqReadLoop` | descriptors are reused while messages for the old connection are on their way | answers reach the client that asked; STOP is the last word of a connection |
| `MsgModule`, `LogicModule`, logics (gamesvr) | `logic_data_map_`: the logics that wait for datasvr | CONN_START, CONN_PROC, CONN_STOP, the steps of LOGIN, NORMAL_REG, QUICK_REG, UPDATE_PLAYER, timeouts | answers that are late, lost or for a player that is gone | a step is resumed by its own answer only, requests are answered once, no logic stays for ever |
| `ObjMgrModule`, `Player`, `City` (gamesvr) | two pools, uid -> player | `AddPlayer`, `DelPlayer`, `AddCity`, `DelCity`, binding of uids | several sessions of one account; a crash leaves the pools | every city has one owner, a logged-in player gave its password, saves do not lose or add data |
| `MsgModule`, `MysqlModule`, `MysqlMgr` (datasvr) | free list of clients, a pipe and a job for each thread, the table `sg_data` | four requests, their result callbacks, reconnection | threads share a send buffer and a socket; a client can be lost | every request is answered at most once, answers are whole, clients come back |
| `Connection`, `Epoller` (connsvr) | byte buffers, events of descriptors, `client_data_` | accept, receive, frame, send, partial writes, `AddEvent`, `DelEvent` | one event has several flags, and the handler of the first may release what the next is about; sockets that block | frames come out as they were sent; what waits to be sent is watched for |
| `LuaEngine`, `LuaEngineModule`, Lua tasks (gamesvr_lua_coroutine) | `co_map_`: tasks by the id of their timer | create, resume, yield, close, `OnTimer`, shutdown | three ways to end a task, one inside the poll that runs its timer; scripts hold pointers over a yield; nothing keeps a waiting coroutine from the collector | a task is resumed by its own answer, ends once, its timer with it; the shutdown ends |
| `ServerFrame` | pid file, shutdown flag, signal handlers | start, stop, reload, main loop, end | signals at any time; crashes leave the file | one process serves, the file names it, a stop is not lost |
| `Random`, `TimeValue`, `Utils` | a seed; none | `GetRand`; addition, normalisation, comparison; `GenUidNum` | 32-bit arithmetic, carries, masks | no overflow, no number twice in a cycle; times are numbers |
| `CoroutineModule`; configuration; tcpclient | - | - | - | - |

`gamesvr_lua_coroutine` is a variant of gamesvr that the default build leaves
out; its object manager and timers are copies of gamesvr's, and its requests are
run by Lua scripts instead of logics.

## The modules

| Module | Models | Abstract specification |
|---|---|---|
| `UnitPool` | a set of units that are handed out and taken back | - |
| `ShmPool` | `shm_pool.h`, `shm_memory.cpp` | implements `UnitPool` |
| `ServerFrame` | `server_frame.cpp`: pid file, signals, life cycle | - |
| `PoolServer` | `ShmPool` in the processes of `ServerFrame` | implements `UnitPool` |
| `TimerSet` | a set of timers, served in the order of their times | - |
| `HeapTimer` | `heap_timer.cpp` | implements `TimerSet` |
| `Random`, `TimeValue`, `Utils` | the arithmetic of `common/frame`, as operators | |
| `Links` | the two ZMQ connections, the messages, the faults | |
| `ConnSvr` | connsvr's sessions | |
| `ConnIo` | connsvr's bytes and events | implements `ConnSvr` |
| `GameObjects` | `ObjMgrModule`, `Player`, the queues of `MsgModule`: what both variants of gamesvr share | |
| `GameSvr` | gamesvr's sessions and logics | |
| `LuaServer` | gamesvr_lua_coroutine's tasks and scripts | |
| `DataService` | what gamesvr may assume of datasvr | |
| `PlayFrame` | `ConnSvr`, `GameSvr` and `DataService` together | |
| `LuaFrame` | `ConnSvr`, `LuaServer` and `DataService` together | |
| `DataSvr` | datasvr with its threads | implements `DataService`, without the race |
| `FrameProofs`, `HeapTimerProofs`, `PlayFrameProofs`, `LuaFrameProofs`, `DataSvrProofs`, `ConnIoProofs` | theorems | |
| `LinksProofs`, `SessionProofs` | lemmas on the queues, and on `DataService`, `ConnSvr` and `GameObjects` | |
| `MCPoolServer`, `MCHeapTimer`, `MCArithmetic`, `MCPlayFrame`, `MCLuaFrame`, `MCDataSvr`, `MCConnIo` | instances for TLC | |

Operators named `Mut...` are mutated forms of the definition that follows them:
plausible bugs, none of which survives the property named beside it in
`PROJECT.json`. No specification uses them.

### ShmPool

The fields of `PoolCtrl` and the `pos` of each unit are variables as they are in
the segment: `pos[i] = i` marks unit i as used, `pos[i] = -n` links it to the next
free one. `held` is the set of units that callers own. Actions are `Alloc`
(with a free unit), `AllocFull`, `Release`, the stop of the process, a start with
the same number of units (`InitAttach`), with another number (`InitMismatch`) and
with a new segment (`InitFresh`), and the removal of the segment (`Wipe`). `Find` and
`Travelled` are operators: they change nothing. The contents of a unit and a
crash between two stores of one call are left out.

### ServerFrame and PoolServer

`at` says for each process how far it is in `ServerFrame::Run`, in the order of the
code: the check of the pid file, `open` with O_TRUNC, `write`, `SetSignal`,
`GetInstance`, `AppInit`, the main loop, `AppStop`, and the `RemovePidFile` that `exit`
calls. `pid_file` is the number in the file, 0 when it is missing or empty, and
`is_shutdown_` the flag of each process. `Refused` is a start that finds a process of the
same directory under the number in the file, even if that is itself: a stale
number that the system gives out again makes a start refuse. A signal ends the
process before `SetSignal` (`SignalKills`), sets the flag or calls `AppReload` after it, and
crashes it while `app_` is NULL (`ReloadCrashes`). `Kill` is SIGKILL or a CHECK that fails, anywhere;
it leaves the file. `PoolServer` puts the pool into the process: `Attach` is `AppInit` with
`ShmPool::Init`, `Mismatch` its CHECK, `Use` what the main loop does with the pool, and
`StopScript` the `ipcrm` of `run/gamesvr/bin/stop.sh`.

Two starts at once are left out: `CheckForPidFile` and `CreatePidFile` are not one step,
and both would pass. So are `clean`, which calls `AppClean` of an `app_` that is NULL
(`server_frame.cpp:323`), a `write` that fails (line 83 takes -1 for success), and a stop
that finds an empty file (`kill(0, ...)` then signals its own process group). An `open` of the file that
fails ends the process (`server_frame.cpp:341-344`), which leaves what `Kill` leaves there. `AppInit` returns 0
in every server of the repository, or aborts, so that `FiniFrame` after a failed one (374-379) never runs.

### HeapTimer

`heap`, `timer_node_index_array` and `rand_array` are functions of positions
as in the code; `RotateUp`, `RotateDown` and `RemoveNode` are translated as
functions on the heap. A poll is several steps (`TimerPoll`, `Execute` for each
due timer, `ReturnKeep` or `ReturnStop` for what the callback returns,
`EndPoll`), and between `Execute` and the return, callbacks register and unregister
timers, the one that runs included. When a callback has unregistered its own timer
and returns -1, `TimerPoll` removes the timer on top of the heap, whichever that is by
then, as the code does (`heap_timer.cpp:133`); `TimerSet` says so too: the earliest
of the others loses its place, and may never be called. `EveryTimerServed` therefore promises
service to the timers that are never in that place (`InDanger`) when they are due. A callback that has unregistered
its own timer and returns 0 is left out: `TimerPoll` would write to the node it has deleted and rotate the heap around it
(`heap_timer.cpp:127-131`), but no callback of the repository does that. Random tags are a counter, which `RandIsInjective` justifies: the generator
repeats none of its numbers before its cycle of 2^31 - 2 is through. Time is a small number,
which `PlusCorrect` and `GteCorrect` justify: sums and comparisons of normalised times are those
of their microseconds.

### Random, TimeValue, Utils

`GetRand` with its two products and their difference; `Normalize` as one operator with its
carry, its borrow and its CHECK; `BitSwap64` and `GenUidNum` on sets of bits. The CHECK of `Normalize`
aborts for every negative number of microseconds (it multiplies the microseconds
where it means the seconds), so that no difference with a borrow survives; no
caller subtracts. `BitSwap64` compares masked numbers, and clears two bits that are
both 1, which its comment (`utils.h:17`) does not say: two time stamps can give one uid.

### The session model

The four modules compose by conjunction of the state of each process with the
queues of `Links`. Each message is handled by one action, as the servers are
single-threaded; what another server does in between is interleaved.

*connsvr*. `conn_map` maps a descriptor to its `player_idx` and to a serial
number of the connection, which only properties use. `DoTcpAccept` takes the
lowest free descriptor. `DoTcpRead` passes a frame on as CONN_START until
gamesvr has named a player, as CONN_PROC afterwards, and closes the connection
when the queue is full. `DoTcpReadEnd` sends CONN_STOP if it knows a player.
`DoTcpReadFail` does not. `ZmqRead`, `ZmqReadSendFail` and `ZmqReadNoConn` are
the outcomes of `ZmqReadLoop`. `delivered` counts what `ZmqRead` takes for a client
that is connected; that includes a message that is dropped on EAGAIN (`event_module.cpp:324-330`), which takes a
client that does not read. `ConnIo` tells the two apart.

*gamesvr*. `players` and `cities` are the used units of the pools: what
`ShmPool` promises, a free unit or none. `uid_to_player_idx_map` is the map of
that name, and `logics` is `logic_data_map_`, each logic with its type, step and
what it keeps between steps. A logic's id is the id of its timer, counted
from 1: `HeapTimer` makes them unique, and a new process seeds its `Random`
with the time, so that ids of the old one do not come back. `ConnStart`,
`ConnStartFull`, `ConnProc` and `ConnStop` are the four ways through
`MsgModule::Run`; each ends in `HandleRequest`, which leads to the first step
of a logic, which may fail in silence, reject, kick a player, or ask datasvr.
The `Resume...` actions are the later steps, `OnTimer` the end of a logic
that timed out. Where the code uses a NULL pointer the process ends, with
`status` saying why; shared memory stays. `Kill`, `Restart` and `RestartWiped`
are the end by a signal and the two ways to start again.

A player's data are reduced to its owner (`uid`, `password_hash`, `conn_fd`) and its
cities; a row of `sg_data` to its password and the number of cities in the BLOB.
Accounts and uids are one thing: the FNV hash has no collision here, and
`GenUidNum` draws an account. `(int32_t)uid`, which `LogicLogin` uses to look up a
player, is the constant `Trunc`. Money, levels, texts and formats are left out.

*datasvr*. `DataService` says what gamesvr may rely on: requests are taken in
order, at most `Clients` at a time, executed in any order and each answered once
at most; statement and answer are separate steps, as others come between them.
`Fail` is a SELECT whose result cannot be had. `Lose` is a thread that loses
its server: it gives up, or reconnects and repeats the statement without a
callback, so that it may or may not take effect, and no answer is sent. That answers
are sent whole is an assumption, which `DataSvr` looks at.

*Faults*. The constant `Faults` says what an environment does; without any,
the clients behave like `tcpclient`, which sends one request on a connection and
waits: see `AllFaults` in `Links`.

### LuaServer

A task is an entry of `co_map`, under the id of its timer: the script it runs (`type`), what it
waits for and the locals it keeps over `CO_YIELD`, pointers to players among them.
`ConnStart` and `ConnProc` create a task and run its script to the first yield or to its end;
`ResumeAnswer`, `ResumeTryAgain`, `ResumeSaved` and `ResumeLoggedIn` are the later parts of `task_role.lua`
and `task_reg.lua`; `ResumeNoTask` an answer whose task is gone, which makes an entry that is
NULL. `OnTimer` closes the task of a timer that expired, and with the
self-unregistering callback of `HeapTimer` takes the timer on top of the heap with it.
`Stop` and `Exit` are the two ends of `LuaEngineModule`'s destructor, which polls timers until
`co_map_` is empty. Loading and reloading of scripts is left out.

A pointer to a player is a unit of the pool, which may have been released when the script goes on. All that a script
then does with it first (`set_uid`, `Do...`, `Send...`) calls `GetPlayerIdx`, and `ShmPool::GetPos` has a CHECK that
the unit is in use (`shm_pool.h:132`). `NextUnit` is the unit a script goes through next, and
`UnitInUse` that CHECK. When it fails the process aborts (`ResumeReleased`), also when a login kicks off the
player it runs for. When the unit belongs to another client by then, the CHECK passes, and the call is for that client.
A process that ends does not start again in this model, so that what a handler did to the pools before an abort is left out.

`CreateTask` takes the coroutine off Lua's stack (`lua_engine.cpp:163-170`) and keeps a bare `lua_State *`: while it
waits, Lua's collector may free it. `Resume` then uses freed memory. With the fault `collect`, it finds a coroutine that
cannot go on and closes the task without an answer (`ResumeCollected`), or the process crashes
(`ResumeCollectedAborts`), or the memory is as it was (the other actions). That a later coroutine has been
given the memory, and is resumed in its place, is left out.

What the code does here that may surprise: a login that kicks a player off sends the
old player's data twice, and the second answer resumes the step that waits for GET, or
leaves a NULL entry, with which a shutdown never ends; a client that leaves while its task waits can
end the process, or have its answer go to the client that got its unit; a task whose timer was taken by another's and whose
answer is lost stays for ever; `update_count`, by which a task is to give up, is never
incremented.

### ConnIo

Below `ConnSvr`: a frame is `Size` parts, a connection has `recv_buf` and `send_buf`, a descriptor its
entry of `file_events_` (mask, whether `write_proc_` was ever set, `client_data_`) and the
kernel's two buffers. `EpollWait` picks a descriptor with the flags it reports, and `round` is
what is left of them: the handlers of the flags are steps of their own, in the order of
`Epoller::Loop`, so that the first may release what the next is called for. `RecvData` takes
a piece of any length, `ForwardFrame` passes on one frame after the other, `NoFrame` ends the round;
`WriteSends`, `WriteFails` and `WriteNoConn` are `DoTcpWrite`. `ZmqReadSend`, `ZmqReadAppend`, `ZmqReadBlocks` and
`ZmqReadSendFail` are what becomes of a message for a client: it goes out as far as the kernel takes it, it
waits, it is dropped (EAGAIN), the connection is closed. gamesvr is any process
that sends messages.

Three hazards end connsvr or lose data, and the model has them: EPOLLERR and EPOLLHUP
call a `write_proc_` that is NULL (`NoWriteProc`); after EAGAIN the descriptor is watched with a
`client_data_` of NULL, which the next handler uses as its `Epoller`; CONN_STOP drops what
waits in `send_buf_`. The refinement maps the connections to those of `ConnSvr`, and a
crash to a stop.

A fourth is left out: a client that gives its frame a length of 0 or 1 passes `IsRecvProtoReady`, the length of the message
behind it becomes negative, and `memcpy` crashes connsvr (`utils.h:57`, `event_module.cpp:210,244`). All frames have one
length here, which is well-formed. After a reset, what the kernel had received is still read before the error
is: `RecvFails` comes when `in` is empty, so that a round may forward frames and then close the connection.

`AddEvent` refuses descriptors of `max_events_size_` or more, which is `conn_pool_size`
(`event_module.cpp:64`); the descriptors of the process itself count, so that the last
connections of a full pool are accepted and never served. The run's only descriptor is below
that bound.

### DataSvr

`DataService` again, as the code does it: the main thread pops a client off
`free_client_list`, receives a request and hands it over (`Run`; `RunIdle` when there is
none); each client's thread goes through `ThreadLoop`, one step for each point at which
another thread may see it: the statement (`Query` and its failures), the two ends of
`SerializeToArray` into the static buffer of `SendMsg`, `zmq_send`, and `PushFreeClient`.
Threads at the buffer together leave a mixture there, any field from either
message, or what does not parse. `PingFails` ends in `stuck`: the code returns without
giving the client back. So does a request of more than 1024 bytes, which `Run` receives in part and cannot parse
(`msg_module.cpp:90-93` of datasvr); requests of gamesvr are shorter, and this is left out. The refinement to `DataService` takes as its `jobs` the clients
between the byte in the pipe and `zmq_send`; a client that is stuck or only has to
be pushed is no job. It holds as long as no two threads are at the buffer, which
the code does not see to (finding 2): the fault `race` allows it. `lost` collects
the requests whose thread lost the server, for the properties.

## Runs

| Run | Configuration | Bounds | Shows |
|---|---|---|---|
| `pool_server` | `MCPoolServer.cfg` | pools of 3 and 4 units, 2 processes | free list and used marks stay exact through stops, signals, crashes and restarts; implements `UnitPool`; the pid file names the one process that serves, and a stop that was received ends it |
| `heap_timer` | `MCHeapTimer.cfg` | 5 registrations, 2 growths | heap order, ids, free list; implements `TimerSet`; a due timer is called or unregistered, unless it is taken in another's place |
| `clients` | `MCPlayFrame.cfg` | 2 requests of 9 kinds, 2 connections, 2 players, 1 city, queues of 2, all faults of the session | impatient clients, crashes, losses and resets: cities have one owner, no request is answered twice, a step meets its own answer, logged in means verified, STOP is last |
| `good` | `MCPlayFrameGood.cfg` | 3 requests on 3 connections, 2 descriptors, 2 players | patient clients: both sides of a session agree, answers reach their clients, data come back unchanged, no pool runs out, every request is answered |
| `logics_end` | `MCPlayFrameLogics.cfg` | 3 requests on 2 connections, queues of 2 | every logic ends, whatever is lost |
| `restart` | `MCPlayFrameRestart.cfg` | 1 connection | **violated**: finding 1 |
| `data_svr` | `MCDataSvr.cfg` | 2 threads, 4 requests | no client is handed out while its thread works, whatever the server does; implements `DataService`; requests are answered and clients come back, unless the server is lost |
| `data_svr_race` | `MCDataSvrRace.cfg` | 2 threads, 3 requests, the race | **violated**: finding 2 |
| `lua` | `MCLuaFrame.cfg` | 2 requests of 5 kinds, 3 connections on 2 descriptors, 1 player | no request is answered twice, no city is shared, a task is resumed by the answer it waits for, unless it kicked a player off; players released and coroutines collected while a task waits |
| `lua_tasks` | `MCLuaTasks.cfg` | 2 requests of the kinds that wait more than once | no timer outlives its task; every task ends as long as answers come; a shutdown with one task or none ends |
| `lua_shutdown` | `MCLuaShutdown.cfg` | 2 logins that do not disturb each other | **violated**: finding 3 |
| `conn_io` | `MCConnIo.cfg` | 2 connections on 1 descriptor, frames of 3 parts, buffers of 4, kernel buffers of 3, 2 requests, 3 messages, queues of 1 | frames come out as they went in, in pieces of any size; what waits is watched for and sent in the end; implements `ConnSvr` |

*Why these bounds are enough.* The pool's list logic distinguishes empty, one
and several free units, at the ends and in the middle: three units have all of
these, four allow another order of release. Two processes are one that serves and one that
is refused or follows it, also with the same number. Five timers are a heap of three levels;
that `RemoveNode` must rotate up takes six, and `MCHeapTimer` has that rotation
checked by itself, on all ordered heaps of up to seven nodes (`RefillCorrect`). `MCArithmetic`
evaluates the arithmetic where its cases change: two carries and two borrows of a second of ten
microseconds, the first and the last seeds and those around `Q`. In a session, the
hazards are of two clients (one account, one descriptor, one unit that goes from one
to the other); a third request or connection, in `good`, lets a unit or descriptor be
used a third time. Queues of two messages make the high-water mark (1000 in
ZMQ) happen; where nothing is to be lost they hold more than is ever sent.
In `DataSvr` all threads are alike and meet at the list and at the buffer; two are
enough for both. With two logins in `lua_tasks` and `lua_shutdown` one task's timer can take
the other's; `lua` has one player for two clients, so that a unit goes from one to the other while a task
points to it. In `ConnIo` a frame of three parts comes
whole or cut at either place, and a buffer of four holds one frame and a part of the next. The kernel's
buffer takes one frame for a client, so that the second message is cut or would block, and the
third waits behind its rest or, when two parts of it are left, does not fit `send_buf_`; the
second connection meets what the first has left on its descriptor. The runs of the servers stop when their requests are used up, so
that deadlock is not checked there.

*Fairness* is weak and for whole processes: each server handles what is in its
queues as long as it runs (its main loop polls them every round), a MySQL thread
ends its statement, and a timer expires (`TimerPoll` is called every round). In
`PoolServer` the system schedules each process, which takes its next step from `Start` to `Exit`. In
`ConnIo` a round of `Epoller::Loop` comes to each descriptor that is ready and handles all flags of
an event, and a client that has not closed reads what is there for it (`SendBufDrains` needs
that: a client that never reads keeps its bytes waiting, in the code as well).
Otherwise nothing is assumed of clients: they need not connect, send or close; nobody has to
stop, start or kill a server.

*Findings.* (1) gamesvr aborts at its start when shared memory still holds a player. (2) Two
MySQL threads in `SendMsg` at once send one answer with the id of another
(`src/datasvr/msg_module/msg_module.h:34`, against section 4 of the repository's README); the session
runs leave this out. (3) A callback that unregisters its own timer and returns -1 makes `TimerPoll`
remove the timer on top of the heap (`heap_timer.cpp:133`), as `LuaEngine::OnTimer` does: when
gamesvr_lua_coroutine is told to stop while two tasks wait, the first that expires takes the
timer of the second with it, and the process waits for the second for ever.

When the pool of players is full, `AddPlayer` uses the NULL it got, and gamesvr ends instead
of answering that it is full; failed logins fill the pool, since their players are never
deleted. `GameSvr` does the same (`ConnStartFull`); no document promises otherwise.

The session runs also show where a property holds only under a condition.
`SessionsMatch`, `RightClient` and `NeverDown` need patient clients: one that
closes its connection while the role notification of its login is on the way
leaves its player's index to the next connection on that descriptor, and
one that leaves in the middle of a login ends gamesvr (`OnStep2` does not test its
player). `CitiesKept` needs one login per connection: a second one adds the
cities again.

## Proofs

`FrameProofs` is about the pool, the process that holds it, and its library. For every set of unit counts
it proves, by the inductive invariant `PoolInv`: types (`TypeCorrect`), that the free list runs through
exactly the free units (`FreeListCorrect`), that `Find` and `TravelPool` see
exactly the owned ones (`FindCorrect`), that the CHECKs of `Release` hold
(`ReleaseCorrect`), that the count is right (`CountCorrect`) and that the pool
implements `UnitPool` (`Refinement`). `PoolInv` says that some injective
sequence starts at `free_mem_pos`, runs through exactly the free units, each
linked to the next, and ends behind the last slot; that owned units are marked;
and that `valid_unit_count` is the length of that sequence. None of these
is inductive alone: `Alloc` takes the head of the list without a look at
the count, and `Release` puts any owned unit in front of it. The
assumption is that unit counts are natural numbers.

On the process it proves `PidFileCorrect`: `ServerSpec => []PidFileNamesServer`, for every set of process
ids and of unit counts. `PidFileNamesServer` is not inductive alone: a start that passed the check
and has not written its number yet would take the file from a process that serves. `FrameInv` adds
the types and `StartsApart`, that one start at a time is between the check and the write, and
that nobody serves then. One lemma says that any end of a process that leaves the file
alone keeps it (`EndsKeeps`), one step for each of the others. That starts do not overlap is the guard of
`Start`, an assumption about the operator.

`PoolServed` carries the theorems on the pool to the server: `ServerSpec` implies the pool's `Spec`
(`ServerIsProcess`), as the process only says when the pool's steps happen. Hence `ServerSpec` has exact
free lists and `Find`s, `Release`s that never abort, and implements `UnitPool`, through signals, kills
and restarts.

The rest of it is about single calls. `RandNeverOverflows`: no intermediate result of `GetRand` leaves 32
bits, for any of the 2^31 - 2 seeds; `RandIsProduct`: it computes `A * seed % M`, and never 0;
`RandIsInjective`: two seeds never give one number, from which tags do not repeat within the
cycle. They rest on `M = A * Q + R` and on `R < Q`, Schrage's condition. `NormalizeCorrect`, `PlusCorrect` and
`GteCorrect` say that normalised times are their microseconds, for every length of a second;
`AbortsIfNegative` says when the CHECK fails. `EqualBitsCleared` and `UidsCollide` state what
`BitSwap64` does to two bits that are both 1, and that `GenUidNum` therefore has one result for different
time stamps; `BitsSwapped` is the case in which it swaps.

`HeapTimerProofs` is about `HeapTimer`, for heaps of every size and any number of growths. The loops of the
code are recursive functions in the model, and what they compute is shown by induction over positions: a set of
numbers that has each number whose predecessors it has is all of `Nat` (`AllNumbers`), from the library's
theorem that `<` is well-founded. Both rotations move a hole through the heap: `Hole` says that every
position but one has its node and every node's index its position, `Moved` what a rotation has done when it
puts the node into the hole, and `UpGoesOn` and `DownGoesOn` that one turn of the loop leads from a hole to the
next. `RotateUpCorrect`, `RotateDownCorrect` and `RefillCorrect` say in which heaps each of them leaves order
behind, the last also when the node that fills a gap has to go up instead of down.

`HeapInv` is the inductive invariant: types, with room for two more nodes (`GrowHeap` sees to it before the
third is needed); `IndexInv`, nodes and used indices lead to each other; `TagInv`, nodes have the tags of
ids that were returned; `HeapOrdered`; `FreeInv`, the free indices are an injective sequence that ends behind
the array and is as long as the array has room; and `PollInv`, the node whose callback runs is on top of
the heap, or has been unregistered. None of them is inductive without the others: `UnregisterTimer` relies on
`TagInv` to find the node, `RemoveNode` on `IndexInv`, `RegisterTimer` on `FreeInv`, and `ReturnKeep`, which lets
position 0 sink without a look at it, on `PollInv`. There is one lemma for each kind of change (`RemovalKeeps`,
`RegistrationKeeps`, `KeepingKeeps`, `SameArrays`) and four theorems:

- `HeapStaysOrdered`: `Spec => []HeapOrdered`; `LookupsExact`: `Spec => []LookupExact`; `FreeListComplete`:
  `Spec => []FreeIndicesExact`, which follows the links as the code would.
- `TimerSetImplemented`: `Spec => ImplementsTimerSet`. Tags are distinct (`TagsApart`), so that a node is one
  timer of the set; `RootFirst` makes `heap[0]` the earliest, and so `Execute` is `Fire`, `EndPoll` is `End`, and
  the removal of whatever is on top, when a callback has unregistered its own timer, is the second half of `Stop`.

The assumptions are that sizes are positive, and intervals and delays natural numbers.

`PlayFrameProofs` proves `CitiesOwned`: `Spec => []CityOwnership`, for pools and queues of
every size, all requests and all faults. `CityOwnership` is inductive as it stands,
since every change of a player's city list changes the pool of cities with it. There is one lemma
for each action that touches both (`AddPlayer` in `ConnStart`, `DelPlayer` in `ConnStop`,
`AddCity` in `ResumeLoginOk`), and `CityStep` puts them together with those that
touch neither.

It also proves `StopsAreLast`: `Spec => []StopIsLast`, under the same terms. `StopIsLast` is not
inductive alone: `StopInv` adds `ConnsApart`, that open connections are numbered apart, that no number
on the queue or on a connection is above `accepted`, and that the queue is a sequence
within its mark. What connsvr can do to the queue and to `conn_map` comes down to four cases, a lemma
each: a new connection with a number nobody has (`StopAccept`), a message of an open
connection which closes if it is a STOP (`StopAppends`), connections forgotten or renamed
(`StopConns`), and messages taken off the front, one by one or by a restart (`StopShrinks`). `PushOne` says
that `zmq_send` appends or does nothing. The assumption is that `Hwm` is a positive number.

For the types and for what a request and an answer can meet, `PlayFrameProofs` first says what any step of
gamesvr is to the messages and to the logics (`GameStep`). It is one of five: `Quiet` gives logics up or loses
messages and sends nothing, `AnswersNow` takes a request and answers it, `Begins` takes one and starts a logic with
a request to datasvr, `Ends` takes an answer and ends its logic, `GoesOn` takes an answer and sends the next
request. The invariants below need one case for each of these, and for the steps of connsvr and
datasvr, which `SessionProofs` has. Each invariant rests on the one before it:

- `FrameInv`: types. It is `TypeOK` with what the model's operators need to be applied at all: what is in
  the queues, numbers that are not above the counters, answers with the id and the `cmd` of their request.
  `TypesCorrect` (`Spec => []TypeOK`) follows.
- `OnceInv`: a request is in one place, on its way to gamesvr, with one logic, or answered. `AnswerOnce` counts answers only,
  and says nothing of a request that two logics hold; that is why it is not inductive. `AnsweredOnce`
  follows, kills and restarts included.
- `ExpectInv`: no two of the requests, jobs and answers between gamesvr and datasvr have one id
  (`Apart`), and those with the id of a logic are what its step waits for, with the player's
  uid and password (`LogicMeant`); an answer that says 0 to a `GET` means that the account is in the table.
  `AnswersExpected` follows (`ExpectedOnly`).
- `PlayerVerified` (`LoggedInVerified`) is inductive under `ExpectInv`: `ResumeLoginOk` is the only step that
  binds an account, and its answer is `LogicMeant`; rows stay in the table with their passwords (`RowsStay`).

The four invariants of the run `good` hold on terms, which `PlayFrame` names: `PatientClients` and `RoomForAll`. The
theorems `SessionsBelong` (`SessionsMatch`), `RightClients` (`RightClient`), `CitiesStay` (`CitiesKept`) and `StaysUp`
(`NeverDown`) say `PatientClients /\ RoomForAll => (Spec => []...)`: for any number of connections, requests and
descriptors, queues and pools of every size that is enough.

- `PatientClients` are the patient clients of the run: one request on a connection, no connection closed while something is on
  its way to it, no account used by two at a time, logins to accounts of the table with their passwords, no resets, no result
  that datasvr cannot get at, no kill. Logics that expire and requests that datasvr loses are *allowed*, which is
  more than the run has. (`"race"` is a fault of `DataSvr`, `"stop"` and `"collect"` are faults of `LuaServer`; no action here has them.)
- `RoomForAll`: `c2g` holds two messages for each connection, and there are as many players and as many cities as
  connections. The configuration that the start scripts use is such a one: `conn_pool_size` is 100, `player_pool_size` 100,
  `city_pool_size` 200, and ZMQ's mark 1000. `run/connsvr/conf/config.lua`, which no start script reads,
  says 10000 connections, for which 100 players are not enough.
- `MCPlayFrame` assumes `GoodIsPatient`: TLC checks with the run `good` that the terms hold there.

`ServedInv` is the inductive invariant: the four that hold on no terms (`FrameInv`, `OnceInv`, `StopInv`,
`ExpectInv`), `CityOwnership`, and what patient clients add.

- `Patience`, in nine parts, is about the sessions. `SessionsMatch` is not inductive, because a session begins and ends
  in several steps, and between them its parts are in queues: a START is for a connection that is open, and every player that
  has its descriptor or its account has a STOP in front of it (`StartInv`); what is in `g2c` is from a live player to its own
  connection (`ToldInv`), and so is what a logic will send (`LogicInv`); a live player's connection has one request, whose
  account it has or is about to have (`PlayerInv`, `AskInv`); a connection that has its answer knows its player
  (`KnownInv`), which is why `SendConnStop` never keeps silent about a session that gamesvr knows. A player is live while
  its STOP is not on the queue.
- `GoodData` and `GoodPlayers` are about the data: rows, requests, jobs and answers have one city; a player
  has its city when it has its account; the `GET` of a login finds its account (`Verified`). `CitiesKept` is about the table
  only, and says nothing of what will be saved next.
- `Up`, with three arguments that count. A STOP always finds room on `c2g`: a connection has at most a START there, a
  closed one a STOP as long as its player is there, and players have different descriptors (`RoomForStop`). A START finds a
  free player, since those in use have other descriptors (`RoomForPlayer`); a login finds a free city, since those in use
  are one each of such players (`RoomForCity`).

Steps of gamesvr are cases of one lemma (`SessionStep`): a START joins (`Joins`), a STOP parts (`Parts`),
an answer concludes (`Concludes`), or there are fewer logics (`Fewer`), and nothing else can happen with patient clients: no
PROC arrives, no player is kicked off, no step finds its player gone.

`LuaFrameProofs` does the same for the variant with Lua scripts, where more can happen: one script
sends two requests, tasks change what they wait for, and kicked players leave tasks and notices behind. The
five cases have a sixth, `Saves`, the request of a `CONN_STOP` that no task waits for, and a
step may send several answers.

- `LuaInv`: types. `player_of`, what a task's timer knows of its player, agrees with the task.
- `ApartInv`: ids are apart, but for the spare ones: 0, those of tasks that kick a player off, and
  those of tasks that are over. `TaskGetsItsAnswer` makes its promise for the others, and
  `TasksGetTheirAnswers` proves it, with `MeantInv`, the counterpart of `LogicMeant`.
- `OnceInv`, from which `TasksAnswerOnce` follows.
- `CityOwnership` is inductive only with `LuaInv` and the guards: an answer brings cities to the unit its player was in,
  whoever has it now. `HasPlayer` and `UnitInUse` say that somebody has; `TasksKeepCities`.
- `TimersHaveTasks` is inductive under `LuaInv`, in each of the three ways to end a task; `NoTimerLeft`.

Both modules assume what the modules name: marks, pools and clients are positive, the
number of connections, players and cities is finite, bodies of requests are those of `Links`. Nothing is assumed of
faults or of clients but in the four theorems that name their terms.

`LinksProofs` and `SessionProofs` have the lemmas that both share. On queues: `zmq_send` lets
some of the messages join the queue in their order (`PushMsgs`), whatever takes messages off leaves
the others as they were (`ShrinksMsgs`), and what that does to uniqueness (`PushDistinct`, `TailMsgs`), to the
one place of a request (`Once...`), and to counts. On `DataService`: what a step can be to the requests and
answers (`DataStep`), that it keeps ids apart (`DataApart`), and that answers keep their meaning
(`DataMeant`). On `ConnSvr`: a step of connsvr asks at most one new request (`ConnStep`). On `GameObjects`:
`AddPlayer`, `DelPlayer`, `BindUid` and `AddCity`, each with types and with `CityOwnership`.

`DataSvrProofs` proves `ClientsNeverShared`: `Spec => []ClientsExclusive`, for any number of
clients, all requests and all faults, the race included. The invariant `ListInv` adds that the
free list is a list of clients; two lemmas about lists say that `Append` of a new element and
`Tail` keep them free of repetitions, and what is on them then.

It proves `ServiceImplemented` too: without the race, `Spec => ImplementsService`, so that what `PlayFrame` and
`LuaFrame` assume of datasvr is what its threads do. `ThreadInv` says that a request that was sent is on the queue
once, or with one thread, or with neither: on these terms a job is known by its request, and `Job` of `DataService`
finds that of the thread (`JobFound`). `BufferInv` says that one thread at a time has the send
buffer, with its own answer in it; this is what the race breaks, and the hypothesis `"race" \notin Faults` is
needed for nothing else. Then `Run` is `Take` (`RunIsTake`; there is a job less than there are
threads, by an injection of jobs into threads), the statement and its failures are `Reg`, `Get`,
`Set`, `Fail` and `Lose` (`WorksIsWorks`), `zmq_send` is `Reply` (`SendIsReply`), the rest is stuttering, and gamesvr is
`Environment`. `IdsComeBack`: `Spec => []IdsEchoed` under the same hypothesis, if ids are apart (`IdsApart`). The run
`data_svr_race` shows that this is what the race breaks.
The assumptions are that there is at least one client (`MysqlMgr::Init` sees to it) and that requests are `GET`,
`REG` or `SET`.

`ConnIoProofs` is about bytes and rounds of the event loop, for frames, buffers, pools and queues of
every size, all requests and all faults.

- `TypeInv`: types, with a number and a descriptor for each connection, and a round that is about one descriptor.
- `WatchInv`, for `WatchExact` (`WatchCorrect`). `WatchExact` is about the time between two rounds, so it is not
  inductive: the invariant adds what holds within a round, and that descriptors without a connection are not
  watched for writing.
- `InInv`, for the first half of `StreamsIntact`. Every byte that a client sent and connsvr has not forwarded is in the
  kernel's buffer or in `recv_buf`, and has a place: its frame and its part in it follow from how many bytes
  come before it, and the frames it can belong to lie between the last one forwarded and the last one sent. Bytes move in
  pieces of any length, and `FramesJoin` and `FramesCut` say that places survive both ends of such a move.
- `OutInv`, for the second half: what was sent to a client is a sequence of whole messages, but for the one of which
  the rest waits in `send_buf`, and numbers on gamesvr's queue come after those that have left it. `StreamsCorrect`
  puts the halves together.
- `AskedInv`: a request on the queue is a frame that cannot come again, so that with every frame still to come there
  are at most `MaxRequests` of them. Without it the bound of `ConnSvr` could stop a step of `ConnIo`.

`ConnSvrImplemented` is the refinement: `DoTcpAccept` is that of `ConnSvr`, `ForwardFrame` is `DoTcpRead`, the end
of a stream is `DoTcpReadEnd`, errors and a full `recv_buf` are `DoTcpReadFail`, the three outcomes of a message that
leave the connection alone are `ZmqRead`, the others have the same name in both, gamesvr and the
sockets are `ConnEnvironment` or stuttering. Its hypothesis `Unruly` says that clients of `ConnSvr` may do all that those of
`ConnIo` can: send before they have an answer, log in again, share an account, close or reset at any time. The only other
assumptions are those on the sizes.

What is model-checked only is liveness, which is out of the prover's reach (`EveryTimerServed` among it).

## Not modelled

- `CoroutineModule`: its only caller is a test (`TestCo` in `gamesvr/app.cpp`) that runs one coroutine to
  its end; no request uses it.
- tcpclient's own buffers (`ConnCache`, `MsgMgr`): connsvr's `Connection` over again, in a test client.
- Contents of messages and objects beyond their codes, hashes, names and formats; `AccountVerify`,
  which no server sends.
- Configuration files, logging, command-line parameters, `clean`, the loading of Lua scripts.
- Vendored and generated code: protobuf, glog, zmq, Lua and MySQL headers and `lua_tinker`, about
  three quarters of the lines of the repository. `zmq_send` and `zmq_recv`, MySQL, epoll and sockets appear as
  what the code relies on.

## Plan

1. `ShmPool`, `HeapTimer`, `TimerSet`, `Links`, `ConnSvr`, `GameSvr`, `DataService`, `PlayFrame`,
   `DataSvr`, `DataSvrProofs`: done.
2. `LuaServer` and `LuaFrame`, `ConnIo`, `ServerFrame` and `PoolServer`, `Random`, `TimeValue` and `Utils`: done.
3. Proofs of `PlayFrame` (types, `AnswerOnce`, `AnswersExpected`, `PlayerVerified`) and of `LuaFrame` (`AnswerOnce`,
   `CityOwnership`, `TimersHaveTasks`, `TaskGetsItsAnswer`), with `LinksProofs` and `SessionProofs`: done.
   The refinement of `DataSvr`, and `IdsEchoed`: done. `ConnIo`, with its refinement of `ConnSvr`: done.
   `HeapTimer`, with its refinement of `TimerSet`: done.
4. `SessionsMatch`, `RightClient`, `CitiesKept` and `NeverDown`, on the terms `PatientClients` and `RoomForAll`: done.

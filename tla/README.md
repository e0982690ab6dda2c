# A verification development for AmigaBridge and its development bench

The repository connects a host computer to an Amiga, real or emulated. On the Amiga runs
a daemon (`amiga-bridge/`, C); on the host a server (`amiga-devbench/`, Python, one
asyncio loop) talks to it over TCP or a serial line in lines of text and offers its
services to tools and to a web page. Programs on the Amiga link a small client library
and talk to the daemon through Exec message ports.

This directory holds TLA+ specifications of the parts of that system where order, timing
and failure decide whether it works, the TLC configurations that check them on small
instances, and proofs that TLAPS checks. Source paths below are relative to the
repository; `devbench/` stands for `amiga-devbench/amiga_devbench/`, `bridge/` for
`amiga-bridge/src/` and `client/` for `amiga-bridge/client/`.

```
tools, web page --> tool and HTTP handlers --wait_for--> event bus (EventBus,
                    (Tools, Requests)                                BusPromise)
                          |   push_file / pull_file           ^ publish
                          |   (PushFile, PullFile)            |
                          v                                   |
                    SerialConnection -- read loop, parser ----+
                          |             (Protocol)
                          |  TCP, lines of text (BridgePeer)
 - - - - - - - - - - - - -|- - - - - - - - - - - - - - - - - - - - - - - - - -
                          v
         daemon: net_io.c under main.c's loop (NetIo)
                          |
               command handlers (Handlers)
               |                        |
    PutMsg, ReplyMsg           traps and signals
   client programs and          the program being
   their library (BridgeIpc)    debugged (Debugger)
```

Beside this stand the debugger of the emulator itself, to which the host has a
connection of its own (Winuae), and a simulated Amiga that takes the daemon's place
(Simulator).

## 1. Inventory

**Event bus** (`devbench/state.py`). State: for each subscription its events and a
bounded queue. Operations: `publish` (drop the oldest item when full), `subscribe`,
`wait_for` (one answer or a timeout). All replies of the bridge reach their callers
through it; the persistent log and the page's event stream subscribe to everything.
Hard: overflow, stale answers, a timeout against an answer already queued. Correct when
nothing stale, wrong or out of order is delivered, loss comes only from overflow, and a
call is over by its deadline.

**Bridge connection** (`devbench/serial_conn.py`, used from `mcp_tools.py` and
`server.py`). State: reader and writer, the flag `_connected`, the switch
`_auto_reconnect`, and three tasks: read loop, watchdog, reconnect. Operations:
`connect_tcp`, `disconnect`, the tasks' turns. Hard: `connect_tcp` awaits between
testing the flag and setting it; the `finally` of an old read loop runs later than the
new connection; cancellation may be swallowed. Correct when flag, last event and tasks
agree, a loss is always followed by an attempt, `disconnect` holds.

**Wire protocol parser** (`devbench/protocol.py`). Stateless, a line to a dictionary.
Hard: a text may hold the separator, and each kind of line treats that differently.
Correct when what the daemon says reaches the caller whole.

**Tools and HTTP API** (`devbench/mcp_tools.py`, `server.py`). Each handler sends one or
several lines and awaits events. State: what each call has sent, its queue, the rows it
has. Hard: no answer carries the number of its request, so calls know their answers by
word, context or argument, overlap with others, and leave lines behind. Correct when a
call takes its own answer, and returns when it has been answered.

**Command handlers of the daemon** (`bridge/protocol_handler.c` and the files of each
subject). A dispatch over the command's word; each handler answers with one line,
several or none. Hard: which answers are possible at all, and what in them a caller can
match.

**File transfer** (`devbench/file_transfer.py`; `bridge/fs_access.c`). State: the chunk
reached, retries, resumes, downloads. Operations: `push_file`, `pull_file` against
WRITEFILE, READFILE, CHECKSUM. Hard: damaged and lost lines, answers after a timeout, a
lost connection, a file that changes while it is read. Correct when "verified" is never
said of anything but the file, and the calls return.

**Daemon transport and main loop** (`bridge/net_io.c`, `transport.c`, `main.c`). State:
listening socket, one client socket, receive buffer, line buffer, last link state.
Operations: one turn of the loop; accept, recv, send, drop. Hard: state of one client
that survives into the next; any send may lose the client. Correct when buffers do not
overrun or leak, the greeting is sent once, and a host that has gone does not keep the
only slot.

**Daemon IPC** (`bridge/ipc_manager.c`, `client_registry.c`, the request part of
`protocol_handler.c`; `client/bridge_client.c`). State: registry, two message pools,
message ports, nested library calls. Operations: register, call, request, reply,
timeout, shutdown. Hard: preemptive tasks lending each other memory; requests that
overtake replies; replies after a timeout; handlers that call back. Correct when no
request is lost, no port is used after it was deleted, no pair of tasks waits for each
other, and every call returns.

**Debugger** (`bridge/debugger.c`). State: attached and stopped, the breakpoint table,
the report of the handlers, and in the debugged program its code, its trace bit, its
signals. Operations: attach, break, set and clear breakpoints, step, next, continue,
detach; the trap, trace and pause handlers run in the program's task. Hard: the program
hits breakpoints between any two steps of the daemon, and a breakpoint it has just hit
is out of the code until the trace exception puts it back. Correct when the code holds
only traps the table knows, a paused program can be let go, it executes its instructions
in order, and detach leaves it as it was.

**WinUAE debugger** (`devbench/winuae_debug.py` and `winuae_*.py`). State: the
connection to the emulator's remote debugger, a lock with the one request that may be
outstanding, what is known of the CPU (`execution`), the breakpoints and watches with
skip counts and one-shots. Operations: connect, run, step, pause, wait, points,
checkpoints, reset, inspection; a reader task takes replies and stops as they come, and
a task per stop decides whether it counts. Hard: stops that WinUAE reports by itself
among the replies; a plan of many requests of which one may be refused, time out or lose
the connection; WinUAE's own window. Correct when each request gets its own reply, the
points are WinUAE's points, no stop goes unnoticed and no pause waits for nothing.

The host side of the daemon's debugger (`devbench/debugger.py`, `gdb_server.py`), the
**process launcher**, **library call snoop** (a ring written from patched calls of other
tasks), **ARexx**, clipboard and input bridges, **inspectors**, crash handler and other
patches, **emulator managers** (`devbench/emulator.py` and others), **builder** and
similar helpers, decoders, the traffic log, and an **earlier generation** of the server
(`mcp-server/`): not modelled, or by their answers only. `PROJECT.json` gives the reason
for each. It also lists the hazards, each at its line, with the properties that would
show it going wrong.

## 2. Modules and how they correspond to the code

Every definition that stands for code has its lines in `PROJECT.json` under "map". A
step of a model is what the code does without giving up control: between two awaits on
the host, between two calls of the operating system that another task or another machine
can observe on the Amiga.

**EventBus** – `EventBus` in `state.py` and its users. `Publish` is `publish`, with
`Offer` its put-or-drop-oldest; `WaitForStart`, `WaitForGet`, `WaitForTimeout` and
`WaitForCancel` are `subscribe` and the turns of `wait_for`'s loop. `age` is the time
since the call set its deadline, `timer` what the present await may still take,
`Remaining` what the code computes before each await, and `Tick` moves the clock. A
message carries the number of its publication, so that a property can say which one an
answer is. Streams model `PersistentLog.subscribe_to_bus` and the event stream of the
page.

**BusPromise** – what the bus promises, without queues: a call answers with the first
publication it asked for since it subscribed, a stream takes the next one, and either
may pass over a publication only if `Capacity` newer ones that it had asked for were
made meanwhile. `EventBus` implements it; `Promise` there is the refinement mapping (an
answer is the number of its publication, what a stream took is the numbers of it).

**SerialConnection** – TCP mode of `serial_conn.py`. `connected`, `auto`, `cur`,
`tcpTask`, `reconnectTask`, `watchdog` and `heard` are the attributes of the same
purpose. A *slot* is a socket and the read-loop task created for it; the task looks at
`self._reader` on each turn, so it can find itself on another slot's socket (`reads`).
`ConnectBegin`, `ConnectDrained` and `ConnectOpened`/`ConnectFailed` are `connect_tcp`
cut at its two awaits, run by a user's call or by the reconnect task. Cancellation
follows asyncio: a task that has not run yet is cancelled without entering its `try`
(`stillborn`), and one that drains another loses the cancellation in the `except` around
it. The other end is the module's peer, whose steps are those of **BridgePeer**; it can
also stop with or without a FIN, stall, come back, and drop the client that it serves.

**BridgePeer** – what the bridge's end of TCP promises, and all that the host may rely
on: whether it listens, which connections it has not forgotten, and the one it serves,
the next being taken only when that one is gone. `SerialConnection` extends it and takes
its actions for the other end; `NetIo` implements it (`ServesAsPromised`, with `Link`
the refinement mapping: the known connections are the backlog and the client). So what
is shown of the host's reconnecting is shown against a peer that the daemon's code is
shown to be; but for the peer's fairness, which stays an assumption.

**NetIo** (with **MCNetIo**) – `net_io.c` under `main.c`'s loop. `pc` walks through one
turn: Wait, drain (`TryAccept`, `Recv`, `RecvClosed`, `RecvNothing`, `HandleByte`), link
state (`LinkState`), the rest (`TimerWork`). A byte knows its connection and its place
there. Every write may find that the client has gone. `NetClose` and `NetOpen` are a
restart of the daemon.

**FileLink** – what both directions of `file_transfer.py` share: the call, the file on
the Amiga, the two queues of lines, and the loss and return of the connection. `call`
says which of the two was called. **FileTransfer** (with **MCFileTransfer**) is a call
of either, for the run; the two never meet in one behaviour.

**PushFile** – `push_file` and `_push_chunk` with `handle_writefile`, `fs_write_file`
and `handle_checksum`. Chunk *i* of the file has contents *i*; offsets count chunks; a
short write at the end of the file leaves a fragment; a CRC stands for the contents. The
module extends `FileLink`, as `PullFile` does, and its actions carry the prefix `Push`.
The line may lose a command, shorten it, alter its data or its offset; answers may be
damaged, or late, because a timeout is a step that is possible whether or not the answer
is on its way.

**PullFile** – `pull_file` with `handle_checksum`, `protocol_send_file` and
`fs_read_file`. A file may end in a shorter rest, another program may replace it at any
time, an answer to an earlier caller may be waiting, and lines are damaged as above, the
CHECKSUM answer and its CRC included (a CRC that does not parse is accepted by the code
as "no CRC").

**BridgeIpc** (with **MCBridgeIpc**) – the message ports. The registry, the daemon's
pool, its port and its waits on one side; on the other, for each run of a client
program, its port, its pool and the *stack* of its active library calls: `send_and_wait`
handles a daemon request inline, and a handler may call the library again. `reqs`
records for each request of the daemon whether it came back and what became of its
temporary port; `stray` records what was written to after it had been freed. The model
has no memory faults: a stray write is recorded and the run goes on.

**Debugger** (with **MCDebugger**) – `debugger.c`, the handlers it installs, and the
pause check of `ab_poll` and `ab_init`. The program is a loop of `Size` instructions, of
which those in `Polls` call `ab_poll`. An exception handler is one step, since no task
is switched in supervisor mode; a command's handler is cut where the program can see the
difference: before the table entries of breakpoints that were taken out of the code are
given up (`GiveUp`), at detach's delay (`Detach`, `DetachSignal`, `Forget`), and at each
assignment of `dbg_handle_step` (`StepCommand` to `StepSignals`), which may run while
the program does, after a DBGBREAK that stopped nothing. `dbg_unpatch_all` writes words
and marks with interrupts disabled and is one step, `dbg_unpatch_bp` is not. Four ghosts
say what the undisturbed program would execute next (`due`), that a step was asked for
at another instruction (`again`), that a command fell between a trap and its trace
exception (`raced`), and that detach came before a hit had been polled (`unseen`).

**Handlers** – what the daemon answers to each command, as sets of sequences of lines.
Of a line are kept its word, the context of OK and ERR, whether it echoes the argument
as the host wrote it or in a form of the daemon's own, and whether its last field, or
the list that ends it, has a text that may hold the separator. What the handler finds in
the machine decides between the alternatives and is left open, so `protocol_parse_line`
maps a command to all of them.

**Protocol** – `parse_message` and `format_command`: which words the host knows, what
becomes of a text that holds the separator, which commands it can write; and
`_process_message`, the event a line is published as.

**Tools**, **Endpoints** – each MCP tool and each HTTP endpoint that talks to the
daemon, as a *plan*: a sequence of exchanges, each with the command it sends, the words
that answer it, what of a line it compares, the errors it hears, how many rows it
collects, and how it waits (a loop over one queue, one glance, or a new subscription for
each row).

**Simulator** – `simulator.py`, the other peer that a tool may talk to: fewer commands
than the daemon, in the form of `Handlers`. It says nothing to what it does not know.

**Requests** (with **MCRequests**) – composes these: calls run their plans over one
link. A call has an argument (`Argument`: its path, name or command number), and nothing
keeps two from having the same. `Begin` and `SendNext` send a command, to which the
daemon gives any of its answers; `Deliver` is `_process_line`, which hands a line to
every subscription that wants it; `TakeAnswer`, `TakeError`, `TakeOther` and `Timeout`
are the turns of the wait. `LateAnswer` is an EXEC answered by its client, or ARexx's
result, after other traffic; `Unasked` is what the daemon says by itself. `peer` says
whether the daemon or the simulator answers. The last section of the module states what
the tables of tools, handlers and parser must be for its invariants to hold of any
number of calls: the assumptions of `RequestsProofs`, which TLC evaluates over all the
tables with every run.

**Winuae** (with **MCWinuae**) – the session of `winuae_debug.py` and the operations of
`winuae_*.py` that use it. `connected`, `execution`, `stop`, `interrupting`, `run_mode`
are the attributes of these names; `processing` counts the tasks in `_process_stop`, and
`newer` is `_stop_generation` as far as `_execution` compares it. `lock` is the holder
of `_lock`, `plan` the operation it is in (the request that is out, what is left of the
loop, what was lifted or is to be put back) and `reply` the result of its future. An
operation is cut at its awaits: `Call` takes the lock, `Start` and `Request` send, and
an action named `...Done` or `...Denied` is what the coroutine does when it is woken.
Operations that only read or write the machine are all `Ask`, a sequence of requests
without effect on the session; a change of disk in a session disconnects, restarts
WinUAE and connects again. `ReadStop`, `ReadReply` and `ReadClosed` are the reader task;
`ProcessStart` to `ProcessReports` are `_process_stop`; `RequestTimeout` and
`ProcessTimeout` close the connection as `_request` does. WinUAE (`Emu...`) takes
commands in order, stops by itself, resets, goes away, and may be resumed from its own
window; it refuses the points in `Refused` always, and others never. The status
"host-paused" is one of a CPU that the debugger has not stopped, and counts as running.

`points` holds three kinds: breakpoints (`Execs`) and GDB watchpoints (`GdbWatches`,
which `winuae_watch.py:122` enters too) are in `_points`, and are what a checkpoint
lifts; `Watches` are those of the monitor, in a dictionary of `state`. One dictionary
stands for the three there (watches, DMA watches, conditions), which `_rearm` and
`_reset` treat alike. Which dictionary it is matters: a reset keeps a reference to it
(`dict(d.state)` is a shallow copy), so that a watch added before WinUAE detaches is in
what was saved (`Shares`, until `Parted` from it); and the saved one *replaces* the
session's (`Merged`). Whether the session had a dictionary that was empty, or none, is
left open. `forgotten` is a ghost: the watches that WinUAE holds under an id the session
has lost.

**EventBusProofs**, **SerialConnectionProofs**, **NetIoProofs**, **BridgeIpcProofs**,
**RequestsProofs**, **DebuggerProofs**, **WinuaeProofs** – the theorems about the module
each is named after; **FileTransferProofs** – those about `PushFile` and `PullFile`.

Definitions whose comment says *Mutant* or *Slip* are plausible mistakes in one
definition. No specification uses them; replacing the definition by one makes the named
property fail under the same configuration, which shows that the property depends on
that line of the code.

## 3. What each run checks

| Run | Question |
|---|---|
| `event_bus` | Two events, two payloads, one `wait_for` and one stream on queues of two: order, freshness, loss by overflow only, the deadline; and that the bus implements its promise. |
| `serial` | Two users' connect and disconnect overlap with read loops, watchdog and two reconnect tasks on three sockets. |
| `serial_switch` | *Violation.* The reconnect task connects with auto-reconnect off. |
| `net` | Two hosts connect, send, close or vanish; the daemon restarts. |
| `net_replace` | *Violation.* A new connection does not replace an existing one. |
| `transfer` | One upload of three chunks, or one download of a file of two that may be replaced, over a line with every kind of damage and one connection loss. |
| `ipc` | Two runs of one program, one of which uses `ab_send_mem` and may stop anywhere, and the daemon: every kind of request, handlers that call back, time-outs, shutdown; do the other's calls return? |
| `ipc_exec` | *Violation.* A reply to an EXEC goes to a deleted port. |
| `requests` | Every tool and endpoint, after any other and some together with any other, against every answer of the daemon or the simulator. |
| `debugger` | Eight commands in any order against a program that meets breakpoints between any two steps. |
| `dbg_break` | *Violation.* DBGBREAK does not pause the program. |
| `winuae` | Two coroutines, any four operations, among stops, refusals, time-outs, one lost connection and WinUAE's own window. |

What the passing runs show, property by property:

- *Event bus.* `QueueIsNewestSuffix`: a queue holds exactly the newest relevant
  publications since its subscription. `KeepsItsPromise`: the refinement of
  `BusPromise`; with it, a call's answer is the first match since the call, and the log
  is in order, unless so many newer events came that one was dropped.
  `WaitForEndsInTime`: a call has one deadline, which no number of non-matching events
  moves.
- *Connection.* `EventsTellTheState`: the last connection event published agrees with
  the flag. `LossIsRearmed`: a lost link always has someone on the way to connect again.
  `ConnectedIsAttended`: "connected" is never a dead flag. `OffUntilUserConnects`: after
  `disconnect` has settled, only a user connects. `Recovers`: if the peer stays up, the
  link comes back for good, and on the connection that the peer serves.
- *Transport.* `RxBelongsToClient`: the receive buffer holds bytes of the client being
  served. `OnlyFirstLineIsMixed`: the line buffer is *not* reset when a client goes, so
  the rest of its last line can be glued to the next client's first line, and to no
  other. `GreetedOnce`, `GoneHostIsDropped`: as named. `ServesAsPromised`: the
  refinement of `BridgePeer`: the client is one that connected, and a connection is
  forgotten only by itself or with the daemon. It also says that a newcomer waits while
  somebody is served, which is what the code does and not what its document says
  (`net_replace`).
- *File transfer.* `VerifiedIsIntact` and `VerifiedIsOneVersion`: what is reported as
  verified is the file, whatever the line did, and not a mixture of versions.
  `SuccessIsIntact`: with nothing lost or damaged, late acknowledgements and repeated
  writes do no harm. `DamageIsRepaired`: damage to chunks is made good as far as the
  retries go. `PushReturns`, `PullReturns`.
- *IPC.* `RegistryIsSound`: ids and names are unique and the ports behind them exist
  while the daemon serves requests. `PooledMessagesAreHeld`: a message a client still
  holds is not reused. `RequestsAreNotLost`: a request that was not answered is queued
  or being handled. `HookNeverDeadlocks`, `CallsReturn`: daemon and client never wait
  for each other. `HookRepliesReachLivePorts`: a late reply to CALLHOOK is no write to a
  freed port.
- *Requests.* `OwnAnswer`: as long as each call was ended by a line of its own, none
  takes a line meant for an earlier one. `NoCrossTalk`: however calls overlap and
  whatever is left over from a timeout, a call is ended only by a line for its own kind
  of command, or one of the families listed there, or of a kind answered by the same
  word (`SameArgument`) whose call had the very same argument. `AnsweredCallsReturn`:
  when the daemon has done what was asked and all its lines have come, the caller waits
  no more, but for the exchanges listed. `TextsArriveWhole`: a text that holds the
  separator reaches the tool, but for the words listed. The lists (`Families`,
  `SameArgument`, `LeavesLines`, `WaitForMore` with `DeafToError`, `CutTexts`) are exact
  accounts of where the code falls short; section 4 tells what follows from each.
- *Debugger.* `TrapsAreListed`: no TRAP in the code that the table does not know.
  `PausedTargetIsKnown`: a waiting program can be let go on. `CounterIsRight`: the
  program executes each instruction once, in order. `DetachedIsFree`: detach, and the
  daemon's end, leave it as it was. Each holds outside the behaviours that a ghost
  marks; section 4 says what happens in those.

- *WinUAE.* `RepliesAreOwn`: what resolves a request is the answer to that request.
  `PointsAgree`: between two operations WinUAE stops at the points that the session
  lists, and else only at watches that were added between a reset's connection and its
  rearm (section 4). `StopIsKnown`: while WinUAE is stopped, the session says so, or a
  stop or an order to run is on its way; no status reply covers a stop.
  `PauseIsNotLost`: a coroutine in `pause` has its interrupt, or a stop, on the way.

The type invariant is in the runs of the modules whose types say something about a limit
of the code (`net`, `ipc`, `requests`); of the others it is proved only.

### Bounds, and why they are enough

- *EventBus*: `MaxQueue` 2 and `MaxPublished` 3 make a queue overflow once while it is
  read; every event, payload and predicate of two is tried. Queues are independent, so
  that one call and one stream show what any number do. With a `Timeout` of two ticks an
  event can come at once, halfway, and at the deadline itself.
- *SerialConnection*: three sockets are the old, the current and one being opened; two
  reconnect tasks are the one in the attribute and one that outlived its cancellation;
  two users are needed for two calls inside `connect_tcp`. `MaxCalls` 2 and `MaxFaults`
  2 give a fault during the recovery from a fault. The proofs cover every value, but for
  `Recovers`.
- *NetIo*: two connections are a predecessor and a successor; the second may send three
  bytes, which is a completed line with a predecessor's rest and one without, or an
  overrun of the line buffer of two.
- *PushFile*: three chunks are a first (truncating), a middle and a last one, against an
  older, longer file. Two retries, one resume, two damaged lines and one loss of the
  connection reach each of the limits and each combination of two faults.
- *PullFile*: two chunks, the last whole or a rest; two retries, two downloads, two
  damaged lines, and one loss and one replacement. A damaged length may be one too many.
  The old and the new version share a chunk.
- *BridgeIpc*: two runs under one name; a pool of one message in the daemon and of two
  in each program, so that they fill up; two requests and two sends of each run, the
  first of which is `ab_init`'s own, so that a request overtakes a reply and a handler
  that calls back meets one. Deeper nesting and more sends are beyond this run; the
  proofs cover them.
- *Requests*: `MaxCalls` 2 of three calls, of which two have the same argument and the
  third another, each of any plan: every ordered pair, for one thing and for two; of the
  pairs that run at once, one takes part in each kind of matching there is
  (`MCTogether`). One line that nobody asked for; a call that repeats itself waits while
  more than one line is under way. The calls with the same argument are interchangeable,
  and the run uses that symmetry (it has no liveness property).
- *Debugger*: three instructions, one of which polls, and two slots: a breakpoint is hit
  while the other is used, cleared, or lies behind the program. Eight commands are
  attach, two breakpoints, and five of what comes after: a DBGBREAK, a DBGSTEP that the
  trace handler interrupts, and what is made of the rest. One address reads in decimal
  as a slot's number. The proofs cover every value.

- *Winuae*: two coroutines, since a third could only wait for the lock as well; a
  breakpoint and a GDB watchpoint, a breakpoint that WinUAE refuses, so that a loop over
  points can fail in its middle, and two watches (interchangeable), so that one is saved
  by a reset when the other is added. Four operations are enough to connect, set a point
  with a skip count, run, and pause or checkpoint while the stop is being processed. One
  loss of the connection, one intervention in WinUAE's window. The proofs cover every
  value.

`CHECK_DEADLOCK FALSE` is given where the system comes to rest: all calls made and all
faults used up, a transfer done, a daemon shut down, a program crashed, a session
closed. `net` checks for deadlock, since the daemon's loop never ends.

### Fairness

In `EventBus` time is a variable, and a deadline is a safety property: the clock moves
only when no timer is due, which says that asyncio's loop is not held up. In the other
modules of the host asyncio runs every ready task and every expired timer, so that each
such step is weakly fair; that the *wait* ends is what the timers are for, and no answer
is assumed. Users, faults and the peer's return are not fair: `Recovers` has the peer's
staying up as its premise. In `NetIo` the loop turns for ever (the timer alone wakes it
every 200 ms) and writing to a host that is no longer there fails in the end, which is a
strong fairness of that outcome: the write is attempted again and again and TCP gives
up. In `BridgeIpc` the daemon's task runs whenever it has something to do (Exec is
preemptive) and its polling waits are bounded; `Fair` names the applications that keep
running, and the others may stop anywhere. In `FileTransfer` only the host is fair: the
daemon may never answer. In `net_replace` the fairness is that of `net`. In `Debugger`
the program and the daemon's loop run on; the host owes no command. `Requests` and
`Winuae` have no fairness: that a call returns is stated there as what it must not still
wait for, and what must still be under way to end it.

## 4. Where code and documents disagree

Four runs end in a violation, and `PROJECT.json` quotes the lines for each.

1. `serial_switch`: the `except` around the drain in `connect_tcp`
   (`serial_conn.py:183`) swallows the cancellation by `disconnect`. The reconnect task
   goes on and connects although auto-reconnect is off, contrary to its docstring.
   (`connect_tcp` then sets the switch on again.)
2. `ipc_exec`: when an EXEC times out, its message is kept because the client still has
   it, but the port that the reply will be sent to is deleted (`ipc_manager.c:460`).
   CALLHOOK keeps both in the same situation, and says why.
3. `net_replace`: `docs/tcp-transport.md:49` says that a new connection replaces an
   existing one. `net_check_read` accepts only when there is no client (`net_io.c:233`),
   so the branch of `try_accept` written for the replacement is never reached, and a
   newcomer waits as long as the other host stays.
4. `dbg_break`: DBGBREAK signals CTRL_E and CTRL_F at once (`debugger.c:893`), and
   `ab_poll`, having seen the first, finds the second already set and runs on, while the
   daemon counts the program as stopped.

The models also have the following, which no run reports separately.

*Transport.*

- A client lost in the middle of a drain can be followed by another in the same drain
  (`net_io.c:288`). The link state never shows the gap, and the second client gets no
  READY, which the same document promises.

*File transfer.*

- `conn.send` raises when the link is down (`serial_conn.py:405`) and `push_file` does
  not catch it, so the resume path written for a lost link is taken only when the link
  is lost between a send and the end of its retries, and is back in time.
- When the CHECKSUM answer is lost, both transfers report success without a
  verification. The result says so (`crc` is none), and the properties about "verified"
  are about a match only.
- FILE answers are matched by path alone. After one that came late, each chunk of a
  download is its predecessor's, in all three downloads; the CRC refuses the result, and
  `DamageIsRepaired` excludes the case.

*Daemon IPC.*

- `ab_send_mem` (`bridge_client.c:550`) takes the first message for its reply; a request
  that came first is dropped without a reply, and the program may later take the answer
  to its own message for that to its UNREGISTER. `RequestsAreNotLost`, the part of
  `RegistryIsSound` about ports, and `CallsReturn` leave out the programs that use it
  (`SendMemUsers`, `Fair`); what they do to others is in the run and in the proofs. What
  it leaves behind is a message of its own at its reply port, which keeps `ab_cleanup`
  and `ab_poll` busy for ever.
- Two runs of a program share one registry entry and id (`client_registry.c:65`). When
  the first leaves, the entry goes, and the second is no longer found.
- EXEC without a name and the shutdown notification look at the ids 1 to 16 only, and
  ids are never given out again.
- Each EXEC that times out costs one of eight messages for good; with none left EXEC is
  dropped without an answer to the host.

*Debugger.* What the ghosts mark:

- `raced`: BPCLEAR, DBGCLEARALLBP or DBGDETACH while the program is between a
  breakpoint's trap and its trace exception, whose handler puts all breakpoints back: a
  TRAP stays in the code that the table no longer knows. DBGSTEP restores the word
  before it clears the breakpoint's mark (`debugger.c:466`, `:469`); the handler in
  between leaves a TRAP with the mark cleared, which the next BPCLEAR, DBGCLEARALLBP or
  DBGDETACH passes over. Vectors removed while the trace exception is pending crash the
  program; so does a re-attach and step on one that was left in the stub.
- `unseen`: a detach before the main loop has polled a hit leaves the program waiting.
- `again`: DBGSTEP after a breakpoint goes back to the breakpoint's own instruction,
  which has been executed already. A CTRL_F left over from an earlier command lets a
  later stop pass. BPCLEAR with an address reads it in decimal first, and may clear the
  slot of that number instead.

*WinUAE debugger.*

- `_interrupting` is reset when a stop is reported, not by `_closed` or `_connect`.
  After a connection lost during a pause, the next session does not honour skip counts
  until its first reported stop, although `docs/winuae-debugger.md:117` says that a
  count applies to each run.
- A `_process_stop` that is still there when its connection goes reports a stop from its
  `finally`: `execution` is then "stopped" without a connection. Left over into the next
  session it takes precedence over that session's status, which stays "disconnected"
  until it has reported (`TakeStatus`).
- A point whose request was answered just before the connection closed is entered in the
  table of the closed session; `connect` empties the table.
- `reset` lets the lock go between its connection and `rearm` (`winuae_debug.py:838`).
  Another coroutine may add a watch in between. `_points.update` merges, but
  `d.state.update(saved[2])` in line 841 replaces the dictionary of watches: if the
  session had one before the reset, the new watch is dropped from it; if not, `_rearm`
  adds it a second time, under another id. Either way WinUAE keeps a watch that the
  session cannot remove (`forgotten`), until a checkpoint is restored or the session
  ends. The promise of line 813 is about the points of the old session, and is kept.
- A checkpoint of the automatic ring resumes what it stopped, and may so undo a user's
  pause that came in between. When WinUAE refuses a point while points are put back or
  rearmed, the tables differ from then on. `PointsAgree` and its proof assume that
  WinUAE refuses only what it always refuses, which such a table cannot hold
  (`AcceptedInv`).

*Tools and endpoints*, from the lists of `Requests`:

- `WaitForMore`, `DeafToError`: `amiga_build_deploy_run` waits for a PROC line, which
  the daemon never writes; "Task not found" for STOP and `api_break` is not heard;
  `amiga_inspect_memory` asks for more than the 256 bytes one answer holds and ends by
  its timeout; `api_tool_copper` and `api_tool_sprites` subscribe anew for each row and
  lose rows that come together; a client answers GETVAR with the bare name although the
  tool may have asked for a qualified one.
- `SameArgument`: EXEC, LAUNCH, DOSCOMMAND, RUN, SCRIPT and CALLHOOK are all answered by
  a CMD line, which only the number of the command tells apart. That number is
  `int(time.time() * 1000) % 100000` (`mcp_tools.py:147` and 463, and in thirteen more
  places): two calls made in one millisecond share it, and each takes the other's CMD
  line for its own. A GETVAR takes the answer to a SETVAR of the same variable without
  any coincidence.
- `Families`: the test for STOP is met by STOPTAIL and SNOOPSTOP, and any "Client not
  found" ends a STOP; `api_file_save` takes any error with "FILE" in it. Beyond the
  families, the window and input tools accept any OK, `clipboard_set` and
  `startup_write` any first OK or ERR, and a tool that looks at one event only gives up
  on a foreign error (the field `loose`).
- `LeavesLines`: LISTHOOKS and LISTMEMREGS without a name write a line per client and
  the tool waits for one. Calls that wait for nothing (`amiga_set_var`,
  `amiga_write_file`, the DELETEFILE after a script) leave an OK or ERR that a later
  call may take; the ghost `orderly` marks the behaviours with such calls.
- `CutTexts`: the parser cuts RESOURCES and PERF at the first separator, so
  `amiga_list_resources` is always empty and a performance report has its averages only.
  The others are lists of names, and cut only when a name has the separator in it: the
  daemon copies the names of clients, variables, hooks, regions (CLIENTS, CINFO, HOOKS,
  MEMREGS), memory (MEMMAP), windows, fonts, programs, assigns and ports as they are,
  and cleans only the texts of ARexx, the clipboard and the Intuition inspector. A name
  that stands before the last field of its line (the task of DBGSTATE and STACKINFO, the
  client of CVAR) would shift the fields behind it; the property is about the last field
  only.
- `api_debugger_setreg` waits for an OK and hears no error; the daemon does not
  implement DBGSETREG and says so.
- The simulator answers PING with a heartbeat and LAUNCH with a PROC line, which the
  daemon does not, and is silent to half of the commands (`SimulatorDiffers`).
- The PowerPC build answers the debugger's and other commands with "Unknown command", a
  context for which no tool listens.

Some more were noticed on the way and are in no model: the parser reads the fields of a
FILE line in another order than the daemon writes them (`protocol.py:175`,
`protocol_handler.c:639`; nobody uses the two fields); names are cut to 33 characters
when stored but compared whole (`client_registry.c:52`); an ARexx command that times out
is freed while its target may still reply to it (`arexx_bridge.c:125`); the pause stub
does not restore the status register; `gdb_server.py` may report one stop of a step
twice.

## 5. What is proved

The theorems hold for every value of the constants that the named ASSUMEs admit: any
number of callers, sockets, connections and bytes, any file, any limits, and any bound
on faults, damage and losses. The assumptions say no more than that bounds are natural
numbers, sizes and retry limits positive, identities of different kinds distinct, and a
file's chunks whole except the last. Only `Requests` assumes more, of its tables; that
is below.

**EventBusProofs.** `IInv` joins to the types and `QueueIsNewestSuffix` what ties a
subscription to its call (`Subscriptions`) and `MissingWasOvertaken`: a publication that
the subscriber still wants and does not find in its queue has `MaxQueue` newer ones of
the same subscription after it. The step that keeps it is `Publish` into a full queue:
the queue then holds `MaxQueue` messages in order, all newer than the one that is
dropped, and these are the witness (`OfferFacts` says what `Offer` leaves). `Refines` is
the refinement of `BusPromise`: the initial states map to initial states; `Publish`, the
starts, the answers and the stream's turns each map to one step of the abstract bus, and
the clock and the turns of `wait_for` that take an event which does not match and have
time left map to a stutter. That the answer is the *first* match unless overtaken is
`MissingWasOvertaken` at the head of the queue.

**SerialConnectionProofs.** `TypeCorrect` by cases on the actions, with lemmas for the
pieces that handlers share (`Schedule`, `CancelReconnect`, `ConnectBegin`,
`ReadLoopFinally`). `EventsCorrect` and `AttendedCorrect`: the property itself is
inductive beside the types; for the latter, the handlers that close a socket another
connector opened all clear the flag or leave a read loop that will. `LossCorrect`: "some
connector is busy" is not inductive, since the busy connector could be any, so the proof
carries `OwedInv`: while a link is owed the switch is on, the flag is down and the task
in `_reconnect_task` itself is pending, because `_schedule_reconnect` is skipped only
when it is. `OffCorrect` is about steps: from a settled state that is off, every action
but a user's connect leads to such a state.

**NetIoProofs.** `TypeCorrect` includes that the line buffer does not overrun
(`AssembleType`). `RxCorrect` needs `WireInv`: bytes on a connection carry its name.
`GreetingCorrect` needs `GreetInv`: a connection that is new, waiting, or served with
the link still down has not been greeted, it is one of these only, and waits once.
`MixingCorrect` needs two things. `OrderInv`: along the way of a byte, from the wire
through the receive buffer into the line, each host's bytes are in the order in which
they were sent, and none that was sent later is further on. `MixInv`: a client that
finds a byte of another in the line has completed no line yet; it holds when a client is
accepted because a connection that is new or waiting has completed none (`FreshInv`),
and the end of a line empties the buffer. `ServesCorrect` is the refinement of
`BridgePeer`, one step of the daemon or of a host at a time: a step maps to the
completion of a connection, to its acceptance, to the client's being dropped, to a stop
or a start, or to a stutter. That accepting leaves the known connections as they were,
and dropping removes one, needs the part of `GreetInv` that no connection waits twice or
waits while it is served. `RelianceCorrect`, in SerialConnectionProofs, is the other
half: the peer there takes no step but those.

**FileTransferProofs**, upload. `PushTypeCorrect` needs `PushProgressInv` (a chunk is
left to send; a resume is left while waiting for the link). `PushVerifiedCorrect` needs
`ChecksumInv`: before the CHECKSUM is sent no question and no answer of that kind is in
flight; the CHECKSUM is the last command of the transfer; and once its answer is on the
way, no write is behind it, so what the CRC was computed over is what stays on the
Amiga, late repeats of earlier chunks included. `SuccessCorrect` has to account for
acknowledgements that belong to another attempt than the one they are taken for.
`AheadInv` does so without following any of them: there is a number for each place in
the queue to the daemon, the count of chunks that the file has when that place is
reached; along the queue it grows by one, or stays for a repeat, and behind the last
command it is what was acknowledged, or one more. When the queue is empty and all is
acknowledged, the file is whole. `PushAdvancesCorrect` is the part of `PushReturns` that
needs no fairness: every step of `push_file` uses up a resume, comes to a later chunk,
uses up an attempt, or comes to a later station of the code, in this order of
precedence, and no step of anybody else changes these. Since the type invariant caps
them, the three nested loops end after finitely many steps of the host, whatever the
line does; that the host takes its steps is the fairness, and stays with TLC.

**FileTransferProofs**, download. `PullTypeCorrect` needs `PullProgressInv` (how much is
collected at each point, and that all chunks but the last are whole).
`PullVerifiedCorrect` then rests on `MatchIsVersion`: a CRC that a complete download
matches is neither that of no file nor one that did not parse, so it is the CRC that the
daemon computed over one version. `RepairCorrect` is an account of damage (`RepairInv`):
in a transfer with nothing else wrong, at most one line is under way, every download
that was started again and every chunk that is not the file's was paid for with a
damaged line, and so was every retry of a chunk. With fewer damaged lines than retries,
and than downloads, neither limit is reached before a clean download. That a CRC tells
contents apart is an assumption of the model, not a result. `PullAdvancesCorrect` is for
`pull_file` what `PushAdvancesCorrect` is for `push_file`: downloads, chunks, tries,
stations.

**BridgeIpcProofs.** All six invariants of the run follow from one, `IInv` (theorem
`Invariant`), for any number of programs, names, registry entries, messages and requests
and any depth of nested calls. It has two halves. The first follows the daemon's
requests: those that a program handles, from the outermost call on, and then those at
its port are in the order in which they were sent (`InOrder`), they are its own and not
replied (`Held`), and the pool counts those that are lent (`Pool`). From the order
follows that the request CALLHOOK waits for, the last one sent, is handled innermost or
one call from it, which is `HookIsServed`. The second half follows the programs' own
messages, since `RegistryIsSound` depends on who was told what: until `ab_init` has its
answer nothing else of the program is on its way (`Opening`); each message is in a slot
that was taken for it (`Letters`), so that an answer in the slot of the UNREGISTER is
the answer to the UNREGISTER; and the registry has for a program the id that the program
was told, and nothing once the answer to its UNREGISTER is there (`Coming`, `Staying`,
`Leaving`, for the programs without `ab_send_mem`). All this holds until the daemon
begins to shut down (`Up`).

**RequestsProofs.** The five invariants of the run, for any number of calls, one after
the other or at once, any plans, and any number of lines that come unasked. What the
answers to a command are worth to each exchange is a finite question about the tables of
`Handlers`, `Simulator`, `Protocol` and `Tools`/`Endpoints`, and stands as named
assumptions in `Requests`, which TLC evaluates for all tools and endpoints: every
exchange against every line that is ever said, without running a single call. The words
of a line lead to at most one event of a subscription (`WordsAssumption`); the answers
are ones that the parser knows (`FormAssumption`); a plan that is answered late, or by
more lines than it takes, is a single exchange (`AloneAssumption`); no line fits an
exchange of another kind, or only one that asks for the argument (`KindsAssumption`); a
text that may hold the separator comes in a word that keeps it, or in one of `CutTexts`
(`TextsAssumption`); an answer is enough for the caller who listens
(`RepliesAssumption`), and of its lines no more can end the exchange than the exchange
takes, the others ending none at all (`LeftoversAssumption`). That the calls themselves,
with their queues, orders of delivery, time-outs and overlaps, do not undo this is what
is proved:

- `SourceInv`: every line under way or in a queue is nobody's, or is one that the plan
  of its call may be answered by; before a late answer there is no other line of its
  call. `NoCrossTalkCorrect` and `TextsWholeCorrect` are steps from it.
- `EnoughInv`: what a call that waits has counted, what of its own is in its queue and
  what is still on the link make together as many as it waits for, or one of the last
  two is an error that it hears, unless the command is one of those that `Unheard`
  lists. So, with nothing left to come, it waits no more (`AnsweredCallsReturnCorrect`).
  `Deliver` moves a line from one term to the other, for all subscriptions at once;
  `TakeAnswer` from the queue to the count.
- `OrderInv`, as long as calls follow one another: of a call that waits, the rows it has
  and the lines that can still end its exchange are together no more than it takes, and
  at most one if there is an error among them; hence a call that was ended by a line of
  its own leaves lines only that end no exchange (`Behind`), and the next call, whatever
  it is, cannot take them for its answer (`OwnAnswerCorrect`). LISTHOOKS and LISTMEMREGS
  leave more, and are the exception in the property.

`TypeCorrect` comes from `TypeInv`, the fourth conjunct of the induction: queues hold
lines only while their call waits, and a call that waits has fewer rows than it wants.

**WinuaeProofs.** The five invariants of the run, for any number of coroutines and
points, any skip counts and any number of stops and losses. Four parts rest on each
other. `ExchangeInv`: at most one request is outstanding, in one of the two directions,
and it is the one the holder of the lock waits for. `RepliesAreOwn` follows, and that an
answer tells what WinUAE did (`AnswersInv`). `Keeps` is a table: for each phase of a
plan, which of the session's points WinUAE has, before and after it has taken the
request. It needs that a session is paused from the first to the last request of a
checkpoint (`SessionInv`), that no point that WinUAE refuses is in a table that is put
back (`AcceptedInv`), and what is `forgotten` stays with WinUAE whatever is taken out:
`EmuRemove` takes one of two. In the phase "none" the table says `PointsAgree`. Nothing
is assumed of what a reset has saved but that it is a table of accepted points, so that
the merge of two sessions' watches is covered whatever came between. `CpuInv` bounds how
far the session may lag behind WinUAE: a status "running" from before a stop has the
stop behind it, or the stop has been counted already. `PauseInv`: the last interrupt is
followed by no order to run, or the stop is on its way; the skip count of a stop that is
being processed cannot order one, since the session is `interrupting`.

**DebuggerProofs.** The five invariants follow from one, `IInv`, for a program of any
size and any table. `Listed` strengthens `TrapsAreListed` to the daemon's cuts: while a
command clears breakpoints, a trap in the code belongs to one that is *not* being given
up (`Leaving`), and while DBGSTEP takes one out, to one that is not half restored.
`Traced` says where the trace bit may be set, which is what makes `raced` an exact mark:
a command in its absence meets no exception half done. `Known` strengthens
`PausedTargetIsKnown` to programs that will enter the stub with the next instruction,
and to the delays of detach and the daemon's end; `Counters` and `Attachment` carry the
program counters and the vectors. The three commands that clear breakpoints are one
case, `Clear(S)` for a set of slots (`StepCases`); `UnpatchedFacts` says what that does
to code and table.

**Only model-checked.** `Recovers`, `GoneHostIsDropped`, `PushReturns`, `PullReturns`
and `CallsReturn` are liveness under fairness, which is beyond the prover.

## 6. What is not modelled

Inside the modelled parts: the PTY mode of the connection and the splitting of received
text into lines; the daemon's serial transport, window and polling of ARexx; the tables
of variables, hooks and memory regions of a client; what the file commands other than
READFILE, WRITEFILE and CHECKSUM do; `push_files` and `pull_files`, which call the
modelled functions in turn; what a tool does with an answer it has read; the tools that
work on the host only. The contents of messages are reduced to what the properties tell
apart.

Two parts have races and no module:

- The *snoop* (`snoop.c`, and `pool_tracker.c` by the same scheme) patches library
  vectors of the whole machine. A ring slot is published before it is filled
  (`snoop.c:107`); two tasks in one patch use its single saved state; a stop while a
  task is inside a patch takes the vector away under it. Nothing in the code guards
  against any of this, so that no invariant of interest holds, and a model would only
  say so again.
- The *emulator managers* (`emulator.py:236`) await in turn around one process handle:
  two starts at once launch two emulators, and the monitor may look at a handle that
  stop has cleared. What the outcome then is depends on the emulator.

The others format what the operating system tells them, decode data, translate the
packets of an external debugger one at a time, or start external programs, and have
little order to get wrong; of those on the Amiga the answers are in `Handlers`. The
temporary breakpoints that `debugger.c` declares are never set, and are left out.

## 7. Plan

Done, the most important behaviour first: `EventBus`, the mechanism all host operations
share, and `BusPromise`; `SerialConnection`, on which everything else depends; `NetIo`,
the other end of it; `BridgeIpc`, shared memory between preemptive tasks; `PushFile` and
`PullFile`, protocols that promise end-to-end integrity; `Requests` over `Handlers`,
`Protocol`, `Tools` and `Endpoints`; `Debugger`.

Then `BridgeIpc` with all its invariants proved, the three theorems that were missing of
`NetIo`, `PushFile` and `PullFile`, `Winuae` with its proofs, and `Simulator` in
`Requests`. Last, `RequestsProofs`, the measures by which the transfers end, and
`BridgePeer` with the proof that `NetIo` is such a peer. Every invariant that a run
checks is now a theorem.

A theorem to come: of `SerialConnection`, that at most one read loop outlives its
connection, a lemma of what `Recovers` needs.

A model to come: the emulator manager, if a promise of its own can be found to check.

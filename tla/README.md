# Verification of the VSCP daemon

This directory holds TLA+ models of the VSCP daemon for OpenWrt (`src/`), the
TLC runs that check them on small instances, and theorems about them that the
TLA+ proof system has checked for every instance.

## The system

The daemon (`vscpd`) connects VSCP/CAN drivers, TCP/IP clients, UDP peers and a
decision matrix. Every one of these owns a **session**, a `CClientItem` in
`m_clientList`, with an input queue, its mutex and its semaphore. A session
submits events to the one output queue; `clientMsgWorkerThread` takes them off
and copies each to the input queue of every session but the one named in the
event's `obid`. A text-mode TCP session may also put an event straight into the
queue of the session whose GUID it addresses. The main thread feeds what
reaches the decision matrix' session, and the events of the clock, through the
rows of the matrix, whose actions send events, start timers and set variables.

| Component | State | Operations | Hard because | Module |
|---|---|---|---|---|
| Event routing (`controlobject.cpp`, `clientlist.cpp`) | client list, output queue, semaphores, `m_wxClientMutex` | `addClient`, `removeClient`, `sendEventToClient`, `sendEventAllClients`, the worker's loop | nine producers and as many readers; the length of a queue is tested without the lock of the append; items are freed while others walk the list | `EventBus`, `EventRouter` |
| Device drivers (`devicethread.cpp`, `devicelist.cpp`) | the driver's handle, three threads, `m_bQuit` flags | load, open, send, receive, stop | the head of a queue is used after its mutex is given up and deleted without it; the stop joins threads that block | `DeviceDriver` |
| SocketCAN driver (`socketcanobj.cpp`) | a socket, two lists, a mutex | open, send, receive, close | open and close unlock the mutex whoever holds it; close joins its worker with it | `SocketCan` |
| TCP/IP session (`tcpipclientthread.cpp`), users (`userlist.cpp`) | login, rights, mode, queue | the text commands, binary frames, RCVLOOP | three modes that read and answer differently; an answer has no number | `TcpSession` |
| Client library (`vscptcpif.cpp`) | a socket, a reply, a mode | one request, one answer | answers come in pieces or late; a mode it cannot leave | `TcpSession` |
| Listen thread and clean-up (`tcpipclientthread.cpp`, `controlobject.cpp`) | `m_tcpclients`, the connection counter | accept, collection, stop | list and counter are shared by three kinds of threads without a lock | `Daemon` |
| Start and stop (`controlobject.cpp`, `vscpd.cpp`), UDP (`udpthread.cpp`), daemon thread (`daemonvscp.cpp`) | the threads, their entries in the client list | start in order, stop in order, early returns | joins of threads that block | `Daemon` |
| Decision matrix (`dm.cpp`) | rows, timers, a mutex, the clock | `feed`, periodic events, timers, actions, DM commands | actions change timers while they are being counted down, and fail under the mutex | `DecisionMatrix` |
| Variables (`vscpvariable.cpp`) | a hash, a list, a file | find, add, remove, load, save, the VARIABLE commands | two tables that must agree; no lock | `Variables` |
| Helpers, interfaces | tables | conversions, filters | boundaries | in part, above |

The properties that make each correct are the ones that `PROJECT.json` lists
under `hazards`, each at its line of the code.

## The modules

For each component there is a module without instances, an `MC` module with the
small constants of its runs where a configuration cannot write them, and a
`Proofs` module with its theorems. `EventBus` is the abstract
specification of `EventRouter`: one bus, each event handed to every attached
client at most once unless it sent it, filters it out or is full. No threads,
no locks.

How the modules compose: `EventRouter` treats devices, TCP sessions, UDP and the
matrix as sessions of five kinds, and leaves what they do between two accesses
to their queues open. `DeviceDriver`, `TcpSession` and `DecisionMatrix` take up
one such session each, with the router reduced to what it does to that queue;
`SocketCan` is the driver below a polled device; `Variables` is what the
commands of `TcpSession` and the actions of `DecisionMatrix` do to variables;
`Daemon` has all the threads, reduced to where they are in their lives.

### EventRouter

| Variable | Code |
|---|---|
| `outQueue`, `outSem` | `m_clientOutputQueue`, `m_semClientOutputQueue` |
| `inQueue[c]`, `inSem[c]` | `m_clientInputQueue`, `m_semClientInputQueue` of a session |
| `filter[c]` | `m_filterVSCP`, as the set of kinds of events it passes |
| `members`, `mutex` | `m_clientList`, the owner of `m_wxClientMutex` |
| `pc[c]`, `pending[c]` | where the session's thread is, and the event in its hands |
| `current`, `todo`, `target` | the worker: its event, the rest of the list, the item it is about to append to |
| `log`, `direct`, `num` | history, for the properties only |

There are five kinds of session, given as constants, because the code of each
differs in how it sets `obid` and how it reads:

* *text* TCP sessions: `obid` set; may address a session; RETR takes the head
  without a wait (so the semaphore keeps its count), RCVLOOP waits; CLRA clears;
* *binary* TCP sessions: `obid` is overwritten with whatever a local variable
  held, hence any value; READ locks a mutex it holds;
* *devices* with a blocking driver: `obid` set; the head goes once it is sent;
* *services*, the daemon's thread and UDP: `obid` set; a wait per event;
* the *decision matrix*: `obid` from an action's text, hence any value.

An operation is one action unless other threads can come between its parts.
`sendEventAllClients` is `WorkerLock`, one `WorkerVisit` per item (with the
tests of `sendEventToClient`), `WorkerPut` for the append, `WorkerUnlock`.
`handleClientSend` is `SubmitText`; then `DirectMiss`, `DirectFull` or
`DirectFound` and `DirectPut` inside the lock for an addressed event; then the
unlocked test `CheckRoom` or `DropFull`, and `AppendOut`. The other producers
share the last three. Appending to a queue and posting its semaphore is one
step, because both are done under the queue's mutex and every other access that
the model lets interleave takes it too; accesses that do not take it are the
subject of `DeviceDriver`.

wxWidgets does not say whether a thread that locks a mutex it owns blocks or is
told of an error; both exist. `RelockBlocks` is the choice. With TRUE a binary
READ ends in the state "stuck", holding the mutex of its queue, and from then
on the worker cannot append to that queue. Since the worker holds
`m_wxClientMutex` at that point, nothing is distributed any more and no session
can attach, leave or deliver: the liveness of `router_live` holds only for
FALSE, and its run says so in its configuration. Safety is checked for both.

Filters are sets of kinds, and a destination is a session or nobody: what
`doLevel2Filter` and `isSameGUID` compute is not modelled. Statistics are left
out. A session's id is its identity and is never used again; the code takes it
from a map of 4096 entries. A polled driver is not among the devices of this
module: it does not use its semaphore (`DeviceDriver` has it).

### DeviceDriver

`main`, `sender` and `reader` are the places of `deviceThread`,
`deviceWriteThread` (or, for a polled driver, `deviceThread` again) and
`deviceReceiveThread`; `quit` and `stop` are the `m_bQuit` of the item and of the
two threads; `worker` and `load` are the part of `clientMsgWorkerThread` that
concerns this one queue. The worker appends under the queue's mutex, the sender
looks at the head under it (`SenderPeek`) but deletes without it. An append and
a deletion are therefore two steps each, and `raced` records that they
overlapped. What the list holds then is undefined in C++; the model lets it
lose the appended event or not, and the properties that depend on its contents
say what holds as long as no overlap has happened. Allocation failures and
failures to create a thread are left out.

A driver that fails to load (`LoadFails`) leaves its session in the client list;
what this means for the list is in `Daemon`.

### Variables

`obj` holds every `CVSCPVariable` there ever was; `hash` is `m_hashVariable`, with
its null entries, `list` is `m_listVariable`, both by number. Only LIST takes
`m_variableMutex`, and nobody else, so that it keeps nobody out and is left out.
Each call of the code to the hash or the list is one action, and `pc` is where an
actor is between two of them:

| Code | Actions |
|---|---|
| `find`: `hash.find`, then `operator[]` | `Missing`, or `Present` and `Get`, which may enter a null |
| `add`, new: `hash[name] = pVar`, then `Append` | `Insert`, then `AppendAdded` or `AppendPut` |
| `add`, change: two `operator[]` | `Set`, `SetAgain`, or `SetNull`: the daemon dies |
| `remove`: `operator[]`, `DeleteObject`, `erase` | `Take`, `DeleteObject`, `EraseEntry` |
| LIST, SAVE: the loop along the list | `List` or `SaveBegin`, `Walk` for each node, `ListEnd` or `SaveEnd`; `WalkAstray` when the node has been freed |
| what a handler does with what it found | `UseReset`, ..., `UseTimer`, `UseArithmetic` |

The commands of the sessions and the work of the main thread (the timers, the
actions of the matrix, the load at the start) interleave between these. The
arithmetic actions take the success of `add` for a failure and free the variable
that the tables hold (`AppendPut`); from there on, as after `WalkAstray`, what the
daemon does is undefined (`Undefined`), and it can only be started again.

SAVE truncates the file when it begins; its rows are in `out` until it ends. A
second SAVE at the same time makes the file "mixed", of which each row may be of
the one or of the other (`Blend`) and which may parse or not. `Restart`, a stop or
a crash at any place and a new start that loads, may come at any time.

A name is its prefix and its length, because `find` strips `$` and `@` one after
the other and `setName` only one of them, and RESET and REMOVE cut their name
off the command with an unsigned difference that wraps when it is short (`Cut`):
the name they work on may have lost its first letters. A value is the text it
is written as, with the conversion of 16 bits (`Number`) and the one of logical
values. `readStringValue` returns 16 bits, which is why "-1" comes back as
65535 and why `SavedComesBack` leaves it out; results of sums are taken to be of
16 bits. `raced` is history: the names that two calls of `add` or `remove` have
worked on at once since the start.

What follows from these steps, and what the properties therefore leave out: a null
entry in the hash stays until somebody removes its name, and a WRITE that meets
it follows it; a REMOVE between the `Insert` and the `Append` of another session
leaves a variable that LIST shows and SAVE keeps, and that can neither be read
nor be removed (`ListIsRead`).

Not modelled are overlaps of two calls inside the code of the hash table or of the
list, reads of variables by device threads, the characters of a mixed file, and
the destructor of the storage, which runs after the last thread has ended.

### DecisionMatrix

`main` is where the main thread is: in the loop (`top`), in `feed` before the
mutex, at row `i` with the mutex, in `serviceTimers`, between the events of
`feedPeriodicEvent`, or waiting on the semaphore. `rows`, `lock`, `timer`,
`last` are `m_DMList`, `m_mutexDM`, `m_timerHash`, `m_lastTime`. A row has the
kinds of events that pass its filter, what `ShouldWeDoAction` may answer, the
action, and the parameter as a sequence of tokens, which `Ends` runs through
`handleEscapes`. Each action is an action of the module with its early returns;
a session's command is Begin, then `Locked`.

What follows from the code and a reader of `dm.cpp` might not expect:

* DM DISABLE is dispatched to `handleDM_Enable`; DM CLRTRIG is taken for DM
  TRIG, which is tested before it; DM LIST writes to its socket with
  `m_mutexDM` held, and the main loop waits for it.
* the clock is read anew for each comparison of `feedPeriodicEvent` and once
  more for `m_lastTime`, so that a second may pass unserved (`passed`).
* the LOOP and the SHUTTING_DOWN events of `run` are one variable.
* `dm.cpp:520` compares a weekday with the test inverted. Whether a row may act
  at a time is a choice of the model, since no property needs the calendar.

`risky` records that one of the nine things was met that `StopsOnlyKnown`
permits to stop the main loop, which holds `m_mutexDM` while it acts:

1. a row whose parameter `handleEscapes` does not finish: it begins again at a
   `%` it does not know, and at the second `%` of a `%%` that stands right before
   the space after an escape;
2. a row with `%event` or `%event.data` that matches the event of the loop, the
   start or the end, whose `sizeData` and `pdata` were never set (`RowAstray`);
3. a conditional event whose variable exists: an inner `pVar` hides the one that
   was found, and is null;
4. an events file: the loop over its elements does not advance, or an event is
   freed that has just been queued;
5. ADD, SUBTRACT, MULTIPLY or DIVIDE for a missing variable: the success of `add`
   is taken for an error, and the variable is deleted while the storage keeps the
   pointer;
6. a row that creates its variable (SEND, START) while sessions create and remove
   it: `add` follows a null entry (`RowRaces`; the steps are in `Variables`);
7. a pause of a timer that was never started: `operator[]` leaves a null entry
   that `serviceTimers` follows;
8. a command with a position, in an empty matrix: it is compared with
   `GetCount() - 1`;
9. DM ADD: it locks `m_mutexDM` and calls `addElement`, which locks it again.

A timer or a row that names a missing variable has it created under the name as
it is given (`Created`). With a prefix `find` does not find it there, and the timer
is never served: `TimerFires` says so. A DM command that `handleClientDm` does not
know, or that is cut short (`DM ENABLE` alone), gets no answer (`Unknown`).

### TcpSession

One session and the library at the other end of its socket. `name`, `user`,
`right`, `verified` are the login; `mode` is the loop the session is in; `up` and
`down` are what is in the socket. What the daemon writes for one command is a
few *tokens*, a status line being two (`+OK` and the rest of the line), and the
library reads any number of them at a time: that is how an answer is cut.
`call`, `reply`, `buffer` are `m_strReply`, and the static buffer of
`doCmdBlockReceive`. Each call of the library is the sequence of commands it
writes. `faults` records what happened on a connection after which its answers
cannot be relied on: a call that gave up, a text that contained `+OK`, an answer
cut in two, the receive loop, binary mode, and a SEND that met a full output queue
("full"): `handleClientSend` then writes `-OK` and, `m_bOK` being true still, `+OK` as
well, which the next call takes for its own answer. How full that queue is, is in
`EventRouter`; here it may be full at any SEND.

`sendFastOutgoingFrame` locks the mutex of its queue twice when there is something
to send. Whether the second `Lock` blocks is open, as in `EventRouter`: `FrameRead`
or `FrameHangs`, which ends in the mode "stuck", where no client's leaving is noticed.

The commands are those that the library writes; those with the same answer and
the same rights share one form (`Query`, `Settle`, `Text`). `doCmdGetGUID` sends
SGID. `Binary_WriteMsg` and `Binary_ReadMsg` return false on success, so that a
binary call never uses its answer. An `open` that the daemon refuses leaves the
library's socket open. The worker threads at the end of `vscptcpif.cpp` are left out.

### Daemon

`at` is where each thread is in its life, `quit` its `m_bQuit`, `clients` the
client list, `deleted` what has been freed. `main` goes through `init`, the loop
with the collection of ended sessions, and `cleanup`, which tells each thread
and joins it, in the order of `StopOrder`. The listen thread's `m_tcpclients` is
appended to and walked by two threads without a lock: an append that the
collection meets (`shaken`) may lose the node, and when the node it is linked to
is freed (`astray`), all that are appended after it, until the list's last node is
set again. `lost` records the threads that nobody will join. That such an append
may also write to freed memory is not followed further. `m_numClients` is counted
in two steps (`loaded`), and may drift in both directions; a session that returns
early does not count down at all, and does not raise `m_bQuit`, so that it is never
collected.

The model assumes that the TCP interface is on. Otherwise the collection reads
through `m_pTcpClientListenThread`, which is NULL. A Level II device never
withdraws its entry. A few steps stand for what other modules show, without
their causes: `MatrixHangs` (a row of `DecisionMatrix` that does not end, or a
session that keeps `m_mutexDM`), `CloseHangs` (`SocketCan`), `SessionHangs` (a
binary READ, `TcpSession`; DM ADD) and `Seize`, by which the worker or a session
waits for ever for the queue of such a session with `m_wxClientMutex` in its
hands (`EventRouter`). A death of the whole daemon ends all of its threads and
is not followed here. Ids and GUIDs of sessions are their identities. DM RESET,
by which a session stops and starts the daemon thread, is not modelled.

### SocketCan

`dev` is the device thread in one of the driver's calls, `worker` is
`workThread`, `mutex` whether the mutex is locked, without an owner, as the code
unlocks it without being one. `torn` records that both threads were in the lists
at once. The conversions of identifiers are modelled in full, in 29 bits:
`FramesKept` compares their fields with those of the event. An event of class
512 or more without an addressee runs into the hard-coded bit and the priority;
the assumption on `Events` excludes it, and types above 255, of which the
identifier has eight bits. The `memcpy` of the transmit half copies the wrong
way, so that the data written is that of the last frame received: `FramesKept`
speaks of identifiers there. `convertCanalToEvent` leaves the old `sizeData`,
which is left out, and so are device names, masks and filters, which `open`
never stores, and the close of a socket that was never opened.

## What TLC checks

`tlc -config <cfg> <module>`; every run finishes within two to four minutes.

| Run | Configuration | Shows |
|---|---|---|
| `router_text` | `EventRouter_text.cfg`: a text session, a device, the decision matrix; one event each; queues of 1 | `TypeOK`, `InQueueBound`, `NoLostWakeup`, `NoUseAfterRemove`, `AddressedOnce` |
| `router_order` | `EventRouter_order.cfg`: a text and a binary session, two events each, queues of 2, READ hangs | `OutQueueBound`, `PerSenderOrder`, `NoEcho` |
| `router_live` | `EventRouter_live.cfg`: a text and a binary session, READ goes on, filters change | `EventuallyRouted`, `SubmitCompletes`, and `BusSpec`: the router implements `EventBus` |
| `router_echo` | `EventRouter_echo.cfg` | violated: `NoEchoBinary`, a binary session gets its own event back |
| `router_retry` | `EventRouter_retry.cfg` | violated: `DeviceRetries`, a refused event waits for ever |
| `driver` | `DeviceDriver_drive.cfg`: all four kinds of driver, three events, a stop at any moment | `HeldIsHead`, `ServedInOrder`, `NothingVanishes`, `NoCallAfterClose`, `ShutdownCompletes` |
| `driver_race` | `DeviceDriver_race.cfg` | violated: `ListUnshared`, a deletion during an append |
| `variables` | `Variables_storage.cfg`: two sessions and the main thread, every call apart; three commands of one name and one value, or two of five names with and without prefixes and of lengths that are cut differently, four types and two texts of which one spoils the file | `HashInList`, `ListIsRead`, `SavedComesBack` |
| `matrix` | `DecisionMatrix_loop.cfg`: seven matrices, one timer, one variable, one session with a command, minutes of two seconds | `TimerExact`, `StopsOnlyKnown`, `OnceASecond`, `TimerFires`, `CommandAnswered` |
| `session` | `TcpSession_calls.cfg`: three users, right and wrong passwords, three commands, two events, one kind of trouble | `OwnAnswer`, `EventsArrive`, `CallReturns`, `SessionEnds` |
| `daemon` | `Daemon_life.cfg`: a device, the UDP receiver, two connections of which one too many | `EntryAsLongAsThread`, `NoneOutlivesItsObject`, `ShutdownEnds` |
| `socketcan` | `SocketCan_polled.cfg`: lists of 1, three frames, two writes, a failure of `select` | `FramesKept`, `CloseEndsOrHangs` |

`TypeOK` of each module is checked with the others. It holds more than types
where a type would be idle: that only a verified user from a permitted address
is in the receive loop (`TcpSession`), that a handler goes on only with a
variable that exists (`Variables`), that the main thread is among the rows only
with the mutex (`DecisionMatrix`), that no session is twice in the list
(`Daemon`).

**Bounds.** In the router, `MaxSend` (events a session submits), `MaxItems`
(length of the queues; 8191 in the code) and the number of sessions. With
queues of 1 and 2 and two or three sessions the queues are full, overshoot
their limit and drain in the runs; two events of one sender are the fewest that
can be out of order, and three sessions the fewest with a sender, an addressee
and a bystander. For the driver three events let one be sent, one refused and
one wait. `Filters` offers everything or nothing, which with one kind of event
is every filter there is.

In the others `MaxCommands` (commands of the sessions or calls of the library),
`MaxEvents`, `MaxFrames`, `MaxWrites` and `MaxErrors` count what may happen from
outside; `MaxFaults` ends the calls of a connection after two kinds of trouble,
`MaxDown` keeps an idle receive loop from filling the socket, `MaxRows`,
`MaxDelay` and `Minute` keep the matrix small. In `Variables` the run chooses at
its start (`Budgets`) between three commands of one name, which let two sessions
and the main thread be in a command at once, or let one save between two that
write, and two commands, the fewest that can overlap, of names that meet every
way of cutting. In `TcpSession` three written commands are a login and a call
after it, or a call that gives up, one that takes its answer, and one more; a
delay of two seconds in minutes of two lets a timer be paused, started again and
miss a second. Two connections where one is allowed are the fewest with a
refusal while another session ends.

**Deadlock** is checked in `variables`. Elsewhere the model stops when the daemon
or the sessions are done: every session has left or submitted its events, the
main thread has returned, the device is closed or its close hangs.

**Fairness.** Every thread that the daemon has started keeps running: weak
fairness for each of its steps. Nothing is assumed of clients, networks or
users.

* `EventRouter`: a step that needs `m_wxClientMutex` may be enabled and disabled
  for ever by others, so it has strong fairness: the lock is not withheld for
  ever from a thread that asks for it again and again. A write to a socket ends
  (`ListEnd`), as does a call of a driver. Nothing is assumed of a session's
  wish to submit, read or leave. A driver's write thread does serve its queue.
* `DeviceDriver`: nobody has to set `quit`.
* `DecisionMatrix`: strong fairness for the main thread's and each session's
  `m_mutexDM`, for the same reason, and for a second to pass while the main
  thread waits: its wait on the semaphore takes time.
* `TcpSession`: the session's thread notices that its client has gone (`Notice`),
  and the library's wait ends (`Wait`); no call need be made, nor a command be
  served in time.
* `Daemon`: every thread of the daemon; no client connects, writes or leaves
  of itself, and no datagram comes.
* `SocketCan`: the device thread and the worker; nobody has to close.

The exceptions that the liveness properties name are part of what they show.
`ShutdownEnds`: the stop ends, or the daemon hangs for ever in one of the places
of `Blocked`: in a row of the matrix or for `m_mutexDM`; for `m_wxClientMutex`, which
somebody keeps who waits for the queue of a session that hangs; in the join of a
driver that does not close, of a receiver in `recvfrom`, or of a listen thread that
waits for a session that hangs or that is in binary mode. `SessionEnds`: a session
that hangs in READ. `CloseEndsOrHangs`: `Deadlocked` and `Revived` (a failure of
`select` that raises `m_bRun` again). `TimerFires` and `CommandAnswered`: the nine
things above, the end of the daemon; for a timer a pause and a variable that is
gone or was created with a prefix; for a command, that it is a known one.

**The refinement.** The bus is the event in the worker's hands followed by the
output queue; a client has been considered when the worker has the lock and the
client is neither on the rest of its list nor the target of the append to come.
`Submit`, the tests, and most of the lock's steps are stutters of the bus;
`WorkerUnlock` retires the event. `DropFull` and `DirectFull` are stutters:
the abstract bus never accepted the event.

**Disagreements with the code's own comments.**

* "Save the originating clients id so this client dont get the message back"
  (`tcpipclientthread.cpp:3031`): the `memcpy` that follows overwrites it
  (`router_echo`).
* "Give it another try" (`devicethread.cpp:768`): the post goes to the output
  queue's semaphore (`router_retry`). The worker wakes, finds its queue as it
  was and goes on: this is why `NoLostWakeup` is an inequality.
* "Mutex handle that is used for sharing of the client object"
  (`clientlist.h:92`): `DeleteNode` is called without it (`driver_race`).

More that follow from the models and have no run of their own: "There must
be room in the send queue" is at every producer's test, and the queue overshoots
its limit by as many events as `OutQueueBound` says; "Another try"
(`devicethread.cpp:430`) precedes the deletion of the refused event, which is
`dropped` in `DeviceDriver`;
the help and the names of the handlers promise a DM DISABLE and a DM CLRTRIG
that the dispatch never reaches; `doBinaryReceive` and `doBinarySend` fail when
they succeed; `open` of the SocketCAN driver parses a mask and a filter that
nothing uses.

## What is proved

`EventRouterProofs.tla`, for any finite set of sessions of any kinds, any
filters and any bounds, under `RouterAssumption` (the kinds are disjoint, the
set is finite, limits are numbers) and `NoneIsNoEvent`.

| Theorem | Argument |
|---|---|
| `TypeInvariant`, `TypeCorrect` | `TypeOK` alone is not inductive: a session that looks for an addressee must have an event with one, the worker that appends must have an event. `Staged` says so. |
| `NoneUsedAfterRemove` | With `Owners`: who is in "list" or "put" owns the lock, and a target means the worker does. Hence a session can leave only when nobody holds on to it. |
| `InputQueuesBounded` | The invariant also says that the room that was found is still there: for the worker's target and for a sender in "put". Both need the lock, so no two of them have reserved the same place. |
| `WakeupsKept` | Directly inductive: every append posts, every wait takes at most one, and the other steps only take events away or add posts. |
| `OutputQueueBounded` | The producers between test and append count as if they had appended; a producer joins them only when the queue itself is below its limit, and there are at most as many as sessions. |

`EventBusProofs.tla`, on top of these:

| Theorem | Argument |
|---|---|
| `NothingEchoed` | A marked event keeps `obid = src` while it is pending, queued and in the worker's hands, and the worker's target is never its event's `obid` (`EchoInv`). |
| `SenderOrderKept` | Everything on its way stands in one line: what is in a session's log, then the worker's event, then the output queue, then what is pending; of two events of one sender, the one further ahead was submitted first (`Line`). While the worker goes round, its event is ahead of some logs and behind others: `Ahead` says of which sessions it is still to come. An event is *settled* once its session is done with it (`Done`), so a pending event is newer than everything settled. |
| `AddressedNotBroadcast` | The same line: a directly delivered event was pending, hence newer than all that is settled, and is itself settled from then on, hence never pending again. |
| `RouterImplementsBus` | Under the conjunction of the invariants above and `Attached` (a session is in the list from `addClient` to `removeClient`), every step is a step of `EventBus` or a stutter: `WorkerPut` is `Hand`, a `WorkerVisit` that passes a session over is `Skip`, `WorkerUnlock` is `Retire`, `AppendOut` is `Accept`, `DirectPut` is `Direct`. Each of the invariants is needed: `RoomInv` for the fullness test of `Hand`, `EchoInv` for its sender test, `OrderInv` for the target not being on the worker's list twice, `LockInv` for nobody attaching or leaving during a round. |

`DeviceDriverProofs.tla`, for any events, any set of kinds of driver and any
length of the queue (`DriverAssumption`):

| Theorem | Argument |
|---|---|
| `DriverInvariant`, `TypeCorrect` | `TypeOK`, with which threads run in each phase of `deviceThread` (`Placed`) and that the sender works on the head of a queue that is not empty and deletes only what the driver took or refused (`Working`). |
| `HeadStaysHeld`, `ClosedIsLeftAlone` | Follow from `Working` and `Placed`. Without `Placed` the first is not inductive: a removal of the session would free what the sender holds. |
| `AcceptedIsKept` | Relative to the invariant. An event that goes from the queue is in `served` or `dropped` already; an append adds to `accepted` and the queue together unless it has been overlapped. |
| `OrderIsKept` | `Ordered`: what has left the queue are the first events of `accepted`, `Finished` of them, each served or dropped and none both; what was served is at rising places among them; the queue is the rest (`Waiting`). The event that the sender has given to the driver and not yet deleted counts as finished while it is still in the queue. |

`DaemonProofs.tla`, for any set of services, any finite set of connections and
any limit (`ServicesAssumption`, `ConnsAssumption`):

| Theorem | Argument |
|---|---|
| `LifeInvariant`, `LifeTypeCorrect` | The types in parts; which places each kind of thread can be in (`Placed`); that `init` starts a thread once and `cleanup` joins only what was turned on (`Unstarted`); that every session that runs is in the list, unless the list has lost it (`Listed`); `Entered`; `Freed`. |
| `EntryAsLong` | `Entered`: the entries say of each place whether there is one, so that each `addClient` and `removeClient` is matched. |
| `NoneOutlives` | `Freed`, and with `Listed`: the listen thread ends only with an empty list, hence with every session ended that is not lost. Who joins a session takes it out of the list afterwards. |

`DecisionMatrixProofs.tla`, for any matrices, rows to be added, timers, names and
sessions (`MatrixAssumption`):

| Theorem | Argument |
|---|---|
| `MatrixInvariant`, `MatrixTypeCorrect` | The types in parts, with what follows. That the row looked at is a row needs that a set of numbers has a least one, which is well-foundedness (`FirstOf`). |
| `TimersExact` | Inductive with the types: each start, pause, store and turn of the timers keeps it; there is nothing else that touches a timer. |
| `OnlyKnownStops` | `Risk`: a null timer, a freed variable and a session that keeps the mutex, each of which stops the main loop later, are there only after one of the nine things. |
| `ServedOnceASecond` | `OnTheWay`: from the moment the clock showed a new second to the turn of the timers the main thread is on its way there, through any number of feeds of other events, and a second has passed. |

`VariablesProofs.tla`, for any sessions, names, types and values
(`VariablesAssumption`):

| Theorem | Argument |
|---|---|
| `ShapeInvariant`, `TypeCorrect` | `Shape`: every variable, in the tables or still to be put, has a name that `setName` has left and a value of its type as `setValueFromString` writes it (`Sound`); what a load or the matrix puts has its own name as its key (`OwnKey`); an actor that is about to use a variable has found one, and one that is to append holds what it has entered (`Placed`). One lemma for each kind of step says where the actor is afterwards (`Goal`). |
| `TablesInvariant`, `HashAndListAgree` | `Tables`: no variable is twice in the list or in the hash, and one of the hash is in the list, or in the hands of an actor between `Insert` and `Append`, or of one that is about to erase its name. `Entries`: a plain key leads to a variable of that name. Only four kinds of step change either (`TablesInsert`, `TablesAppend`, `TablesDelete`, `TablesErase`; all others only `Touch`), and none depends on what other actors have looked up before. |
| `ListAgrees` | `Led`: a listed variable whose name nobody is working on and that was never contested is what its name leads to. It needs `Race` (whoever works on a name at the same time as another has it in `raced`) and `Alone` (while the daemon loads there is only the main thread): an actor between two calls on an uncontested name is the only one, hence still finds what it has left (`Before`, `OnlyToucher`). |
| `SavedIsLoaded` | `LoadedSoFar`: from the start to the first command the variables are those of the first rows of the file, in order, the rest waits to be put, and each name leads to the last variable of that name, unless that is just being replaced. `Quiet`: when the load is done nothing else has begun. That a loaded value is the saved one needs `Sound`: a number or a logical value is stored as its conversion left it. |

`TcpSessionProofs.tla`, for any users, passwords, rights and addresses, any number
of commands and events and any way of cutting the answers:

| Theorem | Argument |
|---|---|
| `SessionInvariant`, `SessionTypeCorrect` | The types in parts. That only a verified user is in the receive loop or in binary mode, and that a verified user has given the password from a permitted address, is inductive with the type of what USER is given. |
| `AnswersMatch` | `OneExchange`: before any trouble, at most one text command is on its way to the session and it is that of the call under way; or no command is, and what comes back holds one status, which is the last thing in it that the library can take for one (`Final`). RCVLOOP is the exception: its call is always followed by trouble, and a SEND that met a full queue is trouble, because it is answered twice. Of what the library has read and kept none is a status. |
| `NoEventLost` | `Order`: what the caller has, what `doCmdBlockReceive` keeps, the reply, the socket and the session's queue form one line, each part in order and before the next. `Holding`: `doCmdReceive` is guarded by `m_bModeReceiveLoop` and `doCmdBlockReceive` needs it, so that reply and `strBuf` never compete for the next event. `Whole`, as long as there is no fault: reply and socket together are one answer to the command of this call, its status in the last place but one, and an event only before the "+OK" of RETR. Hence a read that ends with a whole status has read everything, and a call that ends leaves nothing behind. |

`SocketCanProofs.tla`, for any frames on the bus, any events the driver may be given
and lists of any size (`FramesAssumption`, `EventsAssumption`, `BoundsAssumption`):

| Theorem | Argument |
|---|---|
| `TypedInvariant`, `TypeCorrect` | With the types, that a `write` that has found room still finds it when it has the mutex: only `write` fills that list. |
| `NothingLostOrMixed` | `Inward` and `Outward`: the events made so far, then the list, are what arrived; the frames written so far, then the list, are what was sent. `FieldsOfSum` is the arithmetic: five fields of 3, 1, 9, 8 and 8 bits that were added up come apart again; `SentSaysMeant` and `GotSaysFields` apply it to the two conversions. |

Every invariant and every action property that a passing run checks is thereby
also a theorem, for all values of the constants under the assumptions named
above. Only model-checked are the properties that need fairness, which the prover
cannot reason about: `EventuallyRouted`, `SubmitCompletes`, `ShutdownCompletes`,
`TimerFires`, `CommandAnswered`, `CallReturns`, `SessionEnds`, `ShutdownEnds` and
`CloseEndsOrHangs`. Of the abstract bus its safety part is proved to be
implemented (`BusSpec`); that the router is live is `EventuallyRouted`.

## Not modelled

* The calendar of an action's time, the XML file of the rows, DM RESET.
* The fields of UDP datagrams and the filters of a UDP peer.
* The contents of the daemon thread's answers.
* The commands of the text protocol that are stubs (FILE, UDP, DRIVER, CLIENT,
  TEST, RESTART, HELP), INTERFACE UNIQUE and ALL, statistics.
* The two worker threads of the client library (`vscpclientthreads.h`), which call
  what `TcpSession` models, and its Windows wrapper.
* The conversions between events and text, the fields of filters and GUIDs
  (`vscphelper.cpp`), apart from CAN identifiers and 16 bit numbers.
* Checksums, MD5, the parsing of the configuration file, becoming a daemon
  process, the Windows parts and log messages: they have no state that another
  part of the daemon depends on.
* `checkEvent` of the user list, and the permitted events with it: nothing calls
  it. The queues of `dllist.c` and the functions of `dlldrvobj.cpp` are lists and
  calls through pointers, modelled by their users.

## Plan

1. Composition: a session of `TcpSession` as a client of `EventBus`, so that
   an event is followed from one client's call to another's.
2. DM RESET in `Daemon`, with the restart of the daemon thread.
3. Pure algorithms as operators over bounded inputs: `doLevel2Filter`, GUIDs,
   `ShouldWeDoAction`.

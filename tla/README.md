# A TLA+ model of libcontrolcan2

libcontrolcan2 forwards a CAN bus over TCP. `can_agent` reads frames from a USB
CAN device and sends each of them, as one text line, to every connected client;
`libControlCAN` is the client library, with the API of the vendor's library, so
that an application may use a remote device as if it were local.

## 1. Inventory

| Component | State | Operations | Interacts with |
|---|---|---|---|
| Publisher thread (`can_agent/main.cc`, `canRxFunc`) | `send_count`, the device | open/init/start, receive a batch, number, enqueue, `processIf` | event queue, `run_flag` |
| Event queue and callback list (`3rd/include/eventpp`) | `queueList`; linked nodes with counters and shared ownership | `enqueue`, `processIf`, `append`, `remove`, the walk `doForEachIf` | called by both threads |
| Server (`server.cc`) | `session_`, one outstanding accept | `startAccepting`, `handleAccept` | io_context, sessions |
| Session (`session.cc`) | spsc queue, transmit buffer, timer, socket, listener handle | `start`, `consumeCanObjHandler` (publisher thread), `doCanObjTranspose`, `handleWrite`, `disconnectToEventqq` (io thread) | callback list, socket |
| `main()` | `run_flag`, io_context | start, signal handler, catch, join | both threads |
| Network client (`lib_control_can_imp_net.cc`) | `_connected`, socket, `rx_buff_`, timer, private io_context | the `VCI_` calls, `connect`, `write_line`, `async_read` | the agent over TCP |
| Facade (`lib_control_can.cc`) | `can_imp_` | choose network or device, fall back, delegate, convert the status | network client, direct device |
| Direct device (`..._dc2.cc`) | `_lib`, `_dev_type` | search `kerneldll.ini`, load, unload, delegate | vendor library |
| Hex codec (`hex_dump.hpp`, patterns of `line_process`) | none | `bin2hex_fast`, `hex_string_to_bin_fastest`, `line_process` | agent, client |
| Tick extension (`tick_ext.h`) | milestone, ratio, `tickUpdate` | calibrate, stamp, move the milestone | publisher thread |
| `ini.h`, `format.hpp`, `misc.hpp` | none | configuration, formatting | agent, client |

What is hard here:

* two threads share the listener list, a session's queue and `run_flag`; clients
  join and leave while the publisher stands in the middle of the list;
* a session is kept alive only by its listener node and its pending handlers, and
  must neither die early nor stay for ever;
* one session alternates between a timer handler and a write handler on one
  buffer that `async_write` is sending from;
* slow clients, full queues, failing writes, failing accepts, a port that is
  taken, a signal at any moment;
* in the client, a socket operation and its deadline finish in either order, and
  a handler that is queued cannot be cancelled any more; lines arrive in pieces;
  the receive buffer outlives a connection;
* the facade reuses, replaces and drops implementation objects while a device or a
  connection is open, and three of the calls that open disagree on which to use;
* lines that were cut by the end of a connection are glued to the next line and must
  not be taken for a frame;
* clock and tick counter are read one after the other, by a thread that may be
  preempted, while somebody sets the clock.

What makes the parts correct: the agent offers every frame once and in order to
every connected client, loses nothing it accepted, stays within its buffers, is
not held up by one client, reclaims dead sessions and ends when told to; the
client library delivers the frames in order without loss, reports success only
for what was sent, keeps within the caller's array, and always returns; the facade
reports success only for a device or a connection that can be used and leaves no
device open that was closed; a line is decoded to the frame it was made from or
refused; a time stamp is as good as the calibration.

## 2. Modules

    ListenerSet      what the callback list promises (abstract)
      ^   ^
      |   CallbackList     the linked list; implements ListenerSet
      |     MCCallbackList
      |     CallbackListProofs   its structure and the refinement, proved
    CanAgent         publisher, server, sessions; built on ListenerSet
      |   |     MCCanAgent
      |   v
      |   SessionStream    what a session promises to its client (abstract)
      |                    implemented by CanAgent, used by CanSystem
    CanAgentProofs   types, handlers, conservation, bounds and fan-out of CanAgent,
                     and that every session implements SessionStream, proved

    NetPort          what CanImpCanNet promises to its caller (abstract)
      ^   ^
      |   CanFacade        CanAbstract and the direct device; built on NetPort
      |     MCCanFacade
      |     FacadeProofs   the invariants of CanFacade, proved
    NetClient        CanImpCanNet and its io_context; implements NetPort
      ^  |  MCNetClient
      |  NetClientProofs   the control of the calls, the refinement, and the
      |                    frames on their way to the application, proved
      |
    CanSystem        NetClient in full, connected to a session known by SessionStream
            MCCanSystem
            CanSystemProofs   from the publisher to the application, proved

    WellOrder        a set of numbers has a least one (for the proofs)
    HexCodec         the text of a line          MCHexCodec
      HexCodecProofs   encoding, decoding and glued lines, proved
    TickExt          the time stamps             MCTickExt
      TickExtProofs    the accuracy of a stamp, proved

**ListenerSet** is a set of listeners (`live`), the removed ones whose node a walk
still keeps (`pinned`), what the walk has still to reach (`todo`), the one being
called (`cur`) and the phase of the walk. A step is one critical section of the
list's mutex or one access outside it.

**CallbackList** has the nodes with `next`, `previous` and `counter`, `head`,
`tail`, `currentCounter`, and the locals of `append` and `doForEachIf`. `append`
is two steps, because the counter is taken before the mutex; the walk reads
`head` under the mutex and the counter snapshot without it. Which nodes are
allocated is computed: those that some `shared_ptr` leads to, the least set of nodes
that is closed under the pointers (`Reach`). The refinement
mapping sends linked nodes to `live`, other allocated nodes to `pinned`, and
the nodes ahead of the walk that pass its counter test to `todo`.

**CanAgent** has the publisher (`pub`, `sendCount`, `queueList`), the main thread
(`main`, `io`, `left`), the server (`session_`, `acceptPending`) and, per session,
`spsc`, `tx`, `timer`, `wr` and the state `peer` of the connection. A frame is its
`send_count`; the text of a line is left out. The io thread's handler
`doCanObjTranspose` is not atomic: every pop from the spsc queue is a step, since
the publisher pushes at the same time. `handleAccept` is `AcceptOk` and the steps
of `doCanObjTranspose`, and ends with the next accept. `sent`, `kept` and `lost`
are history. Session objects are used again once nothing refers to them
(`Alive`). A client stalls and reads again; it closes, so that the agent's first write
after that succeeds and resets the connection, or it ends with data unread, which
resets it at once. A session whose write has failed never uses its socket again, and
`peer` is then `none`.

**NetClient** has one `CanImpCanNet` object and its calling thread. A call starts a
socket operation (`op`) and the deadline (`timer`); completions are appended to
`ready` and run in order; `CancelSocket` affects an operation that is outstanding
but not one whose completion is queued; the call goes on when nothing is left,
as `io_context::run()` does. A line is two chunks so that reads, writes and
connections may stop inside it. Socket, kernel and server are external and
modelled by what the code relies on: the kernel may take nothing, take a part,
report data in pieces, report an error after a reset; operation and deadline may
be reported in either order (one poll of the reactor reports both; a completion
port orders them by arrival, and a handler that chains the next read queues
behind a deadline that was reported with it). The name in `control_can.ini`
resolves to one address.

`OpenUnresolved` is `VCI_OpenDevice` without a configured address, or with a name that
`resolve()` does not find: it throws, and nobody catches the exception.

**NetPort** has `connected`, the call that runs and the status returned last, and
`Outcomes(c)`: for each kind of call the pairs of a status and of whether the
connection is kept. Sockets, timers and buffers are gone; NetClient implements it
with the identity mapping.

**SessionStream** has, for one session, whether it is registered (`on`), its
`backlog` (transmit buffer and queue) and the lines its connection took (`wire`).
CanAgent implements it for each session: `on` is membership in `live`, `backlog` is
`tx \o spsc`, `wire` is `sent`.

**CanSystem** is NetClient with a session of the agent at the other end: NetClient's
server actions are replaced by the session's, so that lines carry frames.
`AgentAccepts` is `handleAccept`, `AgentOffers` a dispatch of the publisher,
`AgentSends` half a line of the session's write. `unread` is what the client has sent
and no session reads. A session is ended with its connection; what CanAgent says of
the time between the two is not repeated here.

**CanFacade** has `can_imp_` (`imp`), the network client's `_connected`, the direct
device's `_lib` and `_dev_type` (`lib`), what the configuration files say (`addr`,
`entries`) and which devices the vendor's library holds open (`open`, external). A
call is one step, with the network client's part taken from NetPort; an exception
that leaves the library is the status `THROW`. Unloading the vendor's library may or
may not close its device. `owed`, `neat` and `dead` are history: what the caller has
opened, whether it closed it in order, and whether the implementation is spent, which it
is when it was closed, when an open found neither a server nor a library, and when the
network failed a call. `RefusesNull` is `VCI_ReadErrInfo` without a place for the answer:
it returns `STATUS_ERR`, sends nothing and keeps the connection.

**HexCodec** has the functions of `hex_dump.hpp` on sequences of character codes, the
two regular expressions as predicates, `line_process` with `DecoderInput`, the characters
it hands to the decoder, and a small specification in
which `rx_buff_` gets whole lines and lines cut at any character. A line is a record of
its head, the bytes in front of the object and the bytes of the object. `Lines` and
`CutLines` are any sets of these; `MCHexCodec` gives them the lines of its run.

**TickExt** has the time, the clock's skew, and the fields of `tickExt` and
`tickUpdate`. `ReadBoth(d)` reads the clock, is preempted for `d`, and reads the ticks.
A ratio is a pair of integers; the unsigned difference of two clock values wraps at
`Word`, which stands for 2^64.

The definitions named `Mutant: ...` in comments are not used by any
specification. Each is a plausible mistake in the definition that follows it, and
shows that a property can fail.

## 3. Runs

| Run | Instance | Shows |
|---|---|---|
| `agent_sessions` | 3 sessions, 2 frames, batches of 2, queue of 1, transmit batch of 1 | types, one handler per session, conservation, fan-out, bounded backlog; CanAgent implements SessionStream for every session |
| `agent_liveness` | 3 sessions, 1 frame, queue and transmit batch of 1 | dead sessions are destroyed, delivery unless the client itself stalls, the process ends |
| `agent_accept` | 2 sessions | violated: the server keeps accepting |
| `list_structure` | 4 nodes, 6 appends | well-formed list, no ownership cycle; CallbackList implements ListenerSet |
| `client_safety` | 3 frames, `len` up to 2, up to 2 lines per `VCI_Transmit` | client safety properties; NetClient implements NetPort |
| `client_timeout` | 1 frame, `len` up to 2 | violated: `VCI_Receive` returns |
| `client_count` | 2 frames, `len` 1 | violated: the result is the frame count |
| `facade_calls` | 2 device types, up to 2 entries each, with and without an address | a checked open is usable, nothing is left open, a spent implementation stays silent |
| `codec_lines` | both heads, every byte value; cuts at every character, 2 lines glued | a line of the agent is decoded to its frame, everything else is refused; one object is written; the decoder looks up only what its table has |
| `tick_stamps` | 24 time units, preemption of 1, clock set back a little or far | a stamp is off by no more than the calibration is |
| `tick_due` | as `tick_stamps` | violated: the next update is due after a second |
| `system_end_to_end` | 2 frames, `len` up to 2, queue of 1, room for 2 chunks of the client | what the application has is a prefix of what was dispatched since it joined, but for the drops; it is delivered at last; connecting and writing calls return |

Bounds. Two connected clients and a third session object that waits for the next
client are needed for one to leave while another joins during a walk; with four
nodes the walk can stand on a removed node between removed neighbours while the
list changes on both sides. Queues of one slot overflow at once, and transmit batches
of one leave frames behind; larger queues, batches and streams are covered by the
proofs. Three frames let the client find one line delivered, one in its buffer and
one cut; two elements of `pReceive` let the chain of handlers go on and stop at its
end. In `agent_liveness`, too, three session objects, used again and again, let one client
stay while another stalls for good or others come and go during the walk; one frame is
enough, because what could keep it waiting are the other listeners of its walk, the other
handlers of the io thread and its own session's chain of handlers, and each of these is
there with one frame. In `system_end_to_end` a receive of two lines may lose its deadline
between them and still wait. Sessions and list nodes are interchangeable, so
symmetry is used for invariants and step-by-step refinement, not for liveness. Device types are
interchangeable in the same way; with two of them a device can be opened as one type
and closed as the other, and two entries let the first be missing or broken and the
second be good. The 256 objects of `codec_lines` put every byte value at every
position; two parts suffice for glued lines, since a third would only be longer. In
TickExt a sleep of 5 and preemptions of 1 make the ratio wrong by up to a fourth,
and 24 units reach three possible updates.

The specifications never stop unless the program does: deadlock is checked in
every run, and `Finished` is the process that is gone.

Fairness. In CanAgent each thread takes a step when it can take one for ever (weak
fairness): both run on the operating system's scheduler and wait for nothing but
what the guards say. A handler that is ready again and again is run (strong
fairness per session), because the io_context serves its queue in order. A write
to a client that does not read is not ready. The device, the clients, signals and
failing system calls are not assumed to do anything; only the error of a
connection that was reset is sure to be reported. In NetClient the calling thread
runs what is ready, deadlines pass, and the kernel reports data that has arrived
and connections that are gone; nothing is assumed of the server, nor that a
write finds room. CanSystem adds that the agent accepts and that its io thread
writes what it has, that the application calls `VCI_Receive` again and again (strong
fairness: other calls may come in between), and that a read which is started again
and again on a socket with data finds it, because `async_read_until` tries the socket
before it waits for the reactor.

### Findings

* `agent_accept`: an accept that fails (for instance, no descriptor left) is only
  printed; no further accept is started.
* `client_timeout`: the deadline of `VCI_Receive` passes while a completed read is
  queued. `cancel()` has nothing to cancel, the handler starts the next read, and
  no timer is left: with a silent server the call does not return.
* `client_count`: `VCI_OpenNetCan` after a lost connection reuses the object and its
  `rx_buff_`. Half a line of the old connection spoils the first line of the new
  one; it is counted, and the caller's element is left as it was.
* `tick_due`: `is_ellapsed` in `tick_ext.h` ("longer than 1 second") subtracts a time
  since 1970 from a time since the tick counter started, so that after the first update
  no further one is due.

`DeliveredAtLast` speaks of connected clients because a connection may be established
just as the deadline of `connect()` passes: the agent has a session for it and sends,
while the client has reported a failure and does not receive.

More that the model shows:

* The loop at the end of `VCI_Receive` ("post process: try read available data in rx
  buffer") never finds a line (`NothingLeftToPost`), so the model leaves it out.
* A failing write does not cancel the deadline, whose handler then replaces the error
  by `operation_canceled`; `write_line` returns 0, and `VCI_Transmit` keeps the broken
  connection unless the deadline was reported first. A line cut by the timeout of
  `VCI_Transmit` stays on the connection, in front of the next one
  (`TornOnlyAfterTransmit` says that no other call does this).
* The head pattern of `line_process` lists `VCI_Transmit` and wants 32 digits after it;
  a line of `CanImpCanNet::VCI_Transmit` has 24 there, so that 40 digits are left for
  an object of 48, and the line is refused (`DecodedIffOneLine`).
* What `tick_due` finds hides a second mistake: `reset_state` advances `tm0_` and keeps
  `tick0_`, and a further update would make the stamps jump (`StampAccurate`), as the
  mutant `is_ellapsed_since_tm0` shows.
* No session reads from its socket (`handleRead` is never called): `unread` in CanSystem
  grows as long as a connection lasts. That clients send to the CAN device by Transmit, as
  `src/README.md` promises, cannot happen; the calls that write fill the socket's buffer
  and then time out (`WritesReturn`).
* `VCI_ReadErrInfo` with a null pointer returns the same `STATUS_ERR` as a failed
  connection, but the calls after it go on working.
* A server name that does not resolve makes `VCI_OpenDevice` throw, so that the facade
  does not fall back on the device, as it does for a server that does not answer.

## 4. Proofs

`CanAgentProofs` proves, for any finite or infinite set of sessions
and any values of `MaxFrames`, `MaxBatch`, `SpscCapacity >= 1`, `TxBatch >= 1`:

* `TypeCorrect`: `Spec => []TypeOK`;
* `HandlerChain`: `Spec => []OneHandlerInFlight`;
* `NothingLostInASession`: `Spec => []StreamConservation`;
* `BufferBounded`: `Spec => []BacklogBounded`;
* `EveryFrameOffered`: `Spec => []FanoutContiguous`;
* `SessionImplementsStream`: `Spec => ImplementsStream`.

The assumptions are `BoundsAssumption` and `NoSessionAssumption`, both evaluated by
TLC in the runs. No property is inductive as it stands.

* `TypeInv` is `TypeOK` with `Phases`: a walk is under way only while the publisher
  processes a queue that is not empty, and the queue is empty before it receives.
  Without it `Head` and `Tail` could be taken of an empty queue.
* `HandlerInv` is `OneHandlerInFlight` with what holds when the io_context does not
  run: while the publisher initialises the device, `main` waits; while `main` waits
  there is no listener, no timer and no write; no handler runs unless `main` is
  running. It also says that an outstanding write covers exactly what the buffer
  holds (`WriteInBuffer`).
* `BufferInv`: a connected session's buffer holds at most one batch; what is in the
  buffer of the running handler and what its loop may still add fit in one batch;
  a session that waits for its timer has an empty buffer. This is why the second
  `consume` in `handleWrite` finds nothing and why conservation holds. `StreamInv`
  joins it with the conservation equation.
* `FanInv`: the frames in `queueList` have consecutive numbers and are the last ones
  received (`QueueContiguous`); a removed listener is not linked, a walk reaches
  allocated nodes only, and without a walk there is nothing to reach (`WalkInv`);
  and each connected session was offered an interval of frames that ends at
  `End(s)`, the frame in hand or, when the walk has still to reach it, the one
  before. A listener appended during a walk starts with the empty interval.

Each is shown to hold initially and to be kept by each group of actions (publisher,
main, io, clients); steps that leave a conjunct's variables alone are settled by
frame lemmas. `AppendAtEnd`, `MoveHead`, `ConsumeAll`, `RangeAppend` and
`IntervalGrows` are the facts about sequences and intervals.

`SessionImplementsStream` needs all of them. There is a lemma for each way in which a
session may see a step (`StreamOpens`, `StreamOffered`, `StreamWrites`, `StreamBreaks`,
`StreamStutters`), and each action is one of these for one session and a stutter for
all others. `FanInv` says that the frame in hand is newer than all a session had,
`StreamConservation` that these are `wire \o backlog`, `WriteInBuffer` and `BufferInv`
that a write takes the whole buffer and at most one batch, and `OneHandlerInFlight` that
only a connected session writes. A visit to a listener that was removed a moment ago is
a stutter: its stream has ended.

`FacadeProofs` proves, for any set of device types, any kerneldll.ini of up to
`MaxEntries` entries per type and any `DwordSize > 2` (`FacadeAssumption`):

* `FacadeTypeCorrect`: `Spec => []FacadeTypeOK`;
* `OpenIsUsable`: `Spec => []CheckedOpenIsUsable`;
* `NoDeviceLeftOpen`: `Spec => []NothingLeftOpen`;
* `SpentStaysSilent`: `Spec => []DeadUntilReopened`.

`FacadeInv` joins the four with two facts. With an orderly caller that is owed
nothing, no device is open at all: without it an open could unload the library of a
device that the previous call left open. And an implementation that is spent has
neither a library nor a connection: without it a later call could succeed on it.
There is one lemma per kind of call; the outcomes of the network calls come from
NetPort's `Outcomes`, so the theorems hold with any implementation of that contract.

`CallbackListProofs` proves, for any set of listeners and any number of appends
(`ListAssumption`):

* `ListTypeCorrect`: `CSpec => []CTypeOK`;
* `ListStaysWellFormed`: `CSpec => []ListWellFormed`;
* `RemovedNodesAreFreed`: `CSpec => []NoOwnershipCycle`;
* `ListImplementsListenerSet`: `CSpec => ImplementsListenerSet`.

`ListenersInv` is stated on `Live`, the nodes that have a counter and are linked, without
reachability. `ListInv`: `next` and `previous` of live nodes are inverse, and counters grow
from `head` to `tail`. `CounterInv`: the node that `append` has allocated has the greatest
counter, and nothing points to it. `OwnershipInv`: there is a rank that grows with every
removal, and a removed node points to nodes that are live or have a higher rank; so no
chain of `shared_ptr` returns to its start. That every live node is reached from `head` is
not an induction along the list: among those that are not reached, take the one with the
smallest counter (`MinNat`); its predecessor has a smaller one and is reached. For the
refinement, what is ahead of the walk is compared before and after each step (`Heap` and
`Ahead` with the lemmas on least closed sets): appending adds the new node wherever the
walk can still come to `tail`, and removing a node takes it out of `todo` or leaves it
where a walk that stands on a removed neighbour may still pass it.

`NetClientProofs` proves, for any number of frames and lines and any
`len` (`ClientBoundsAssumption`):

* `ClientTypeCorrect`, `ConnectedMeansSocket`, `ReceiveStaysInBounds`, `PostProcessIdle`,
  `OkIsSent`, `CutLineWasReported`: the invariants `NetTypeOK`, `ConnectedIsUsable`,
  `BufferNotOverrun`, `NothingLeftToPost`, `OkMeansSent`, `TornOnlyAfterTransmit`;
* `ClientImplementsPort`: `Spec => ImplementsNetPort`;
* `FramesInOrder` and `NothingLostOnTheWay`: `GotInOrder` and `NoFrameLost`.

`ClientInv` says what may wait in the io_context (`QueueInv`: the timer's handler and one
result at most, never beside the operation or the wait it belongs to) and what a result
means before and after its handler has run: "ok" of a connect means a connection
(`SockInv`), "ok" of a write that the kernel has the whole line (`WriteInv`), "ok" of a read
that the buffer has a line and the caller an element for it, while an outstanding read has
found none (`ReadInv`). Each outcome of a race between operation, deadline and cancellation
is then one of the few orders that `QueueInv` leaves. `StreamInv` is about the chunks in
`rx \o inflight`: they come in order, below `sendNo` and behind the frames in `got`
(`Ordered`); and on a connection that began with an empty buffer the decoded frames are all
from `base` to some `k - 1` and the chunks are all that follow (`CleanInv`).

`CanSystemProofs` proves `DeliveredEndToEnd`, `SysSpec => []EndToEnd`, from
`ClientBoundsAssumption` and `SystemAssumption`. Every step of the system is a step of
NetClient or a stutter, so `ClientInv` and `StreamInv` hold in it. `SystemInv` adds that
chunks and lines are counted alike and a session has a connection (`LinesInv`), that wire
and backlog with the dropped frames are the frames since the session joined (`OfferedInv`),
and that the decoded frames of a clean connection are consecutive lines (`DecodedInv`); the
last follows from the gaplessness of `CleanInv` with the order of `Ordered`.

The theorems fit together as the models do: the agent is proved on ListenerSet, which the
list implements; the system on SessionStream, which the agent's sessions implement, and on
NetClient itself; the facade on NetPort, which NetClient implements.

`HexCodecProofs` proves, for lines with any bytes, cut at any character, and for any
`MaxParts` of them glued together (`CodecAssumption`):

* `CodecTypeCorrect`: `Spec => []CodecTypeOK`;
* `DecodesOneLine`: `Spec => []DecodedIffOneLine`;
* `ObjectFits`: `Spec => []WritesOneObject`;
* `InsideTable`: `Spec => []LooksUpInsideTable`.

`Digit` says that `hexmap` and `hashmap` fit together digit by digit, `RoundTrip`
that the decoder therefore inverts `do_conv` for any bytes, and `Line` where head, digits
and newline stand in a line. `CodecInv` adds `MadeOf` to the properties: what is made of one
part is a beginning of that line, and what is made of two or more has a `V` behind its
first character. A beginning that ends with the newline is the whole line (`EndOfLine`).
It is decoded to its object (`ReceiveLine`), or refused since 40 digits are fewer than 48
(`TransmitLine`). And a `V` behind the first character is refused wherever it stands
(`GluedRefused`): it is neither a later character of a head nor a digit. This is why no
cut, at whatever place, yields a frame. `HandedOn` is about any buffer that the pattern
accepts, cut or not: what the decoder is given are pairs of hexadecimal digits, all of them
below the size of its table; `InsideTable` follows.

`TickExtProofs` proves, for any rate, any sleep and any preemption shorter than the
sleep:

* `TickTypeCorrect`: `Spec => []TickTypeOK`;
* `StampsAccurate`: `Spec => []StampAccurate`.

`TickAssumption` says that the sleep is long enough for a calibration, that the clock is not
set before 1970 and that no value reaches `Word`. `UptimeAssumption` came out of the proof:
that the machine has been up for less time than since 1970 is not enough, because the
ratio of the first update is too large by the share of a preemption in the time it was
measured over, so the uptime must stay below when it is enlarged by that share. `TickInv`
is `TickTypeInv`, `StampAccurate` and, while nobody sets the clock, `CalmInv`: a milestone is
a pair of readings one preemption apart (`Paired`), and so are `tick0_` and `tm0_` until the
first update; the ratio was measured over at least the sleep and is off by one preemption
(`Measured`); and with the ratio of the first update no tick value is ever far enough from
`tm0_` (`NeverDue`). `Extrapolate` bounds what a ratio that is off by one preemption adds over
the time since the milestone; `GoodStamp` joins it with the preemption in the milestone and
with rounding. `FirstRatio` is where `UptimeAssumption` is used.

Only model-checked: the liveness properties `ReclaimedAfterReset`, `DeliveredUnlessStalled`,
`ShutdownCompletes`, `DeliveredAtLast` and `WritesReturn`, which need fairness and are
outside what the prover covers; and the four violated properties, which are
counterexamples.

## 5. Not modelled

* The configuration reader (`ini.h`), formatting (`format.hpp`, `misc.hpp`,
  `bin2hex_dump`), the tests and the Boost.Asio exercises: sequential text handling, or
  programs that only use the code.
* The vendored libraries (glog, googletest, libzmq, cppzmq, spdlog with fmt), which are
  nearly all of the repository's lines; they carry none of its logic, and the
  program's own code is some three thousand lines. Of eventpp, which the agent depends
  on, the parts the agent calls are modelled.
* `CanImpDirectCan` (`lib_control_can_imp_dc.cc`), which nothing creates;
  `pubSimuFunc`, which is not started; `handleRead`, which is never called;
  `SessionPool`, whose entries nothing uses; `hex_string_to_bin`, the decoder that nothing
  calls.
* Two threads in one `CanImpCanNet` or in the facade: neither has a lock, and the
  repository's callers use one thread.
* The wrap of the callback list's counter after 2^32 appends, destructors that run
  after all concurrency has ended, the rounding of a `double` in `tick_ext.h`.
* What the vendor's library returns beyond success and failure.

## 6. Plan

The modules of the plan are written, and every safety property and refinement that a run
checks is proved. The liveness properties stay with TLC. What a further step could add is
listed with its reason in section 5 and among the hazards without a property: the error
value of the device's `VCI_Receive`, the destruction of registered sessions at the end,
stamps after the clock was set, and the growth of `SessionPool`.

------------------------------- MODULE CanAgent -------------------------------
(***************************************************************************)
(* The can_agent process: a publisher thread (canRxFunc) reads frames from *)
(* the CAN device, numbers them with send_count and dispatches them        *)
(* through the eventpp queue to one listener per connected client; the     *)
(* main thread runs the io_context whose handlers accept clients and copy  *)
(* each session's queue to its socket.                                     *)
(*                                                                         *)
(* A frame is its send_count.  Both threads are interleaved at every       *)
(* access to state they share: the listener list, a session's spsc queue   *)
(* and run_flag.                                                           *)
(***************************************************************************)
EXTENDS ListenerSet, Naturals, Sequences, Functions

CONSTANTS MaxFrames,     \* bound: frames the device delivers in one run
          MaxBatch,      \* frames one VCI_Receive returns at most (100)
          SpscCapacity,  \* slots of Session::spsc_queue_ (2048)
          TxBatch        \* nodes one doCanObjTranspose pops at most (8)

ASSUME BoundsAssumption ==
  /\ MaxFrames \in Nat
  /\ MaxBatch \in Nat
  /\ SpscCapacity \in Nat \ {0}
  /\ TxBatch \in Nat \ {0}

VARIABLES
  main,           \* where main() is
  pub,            \* where the publisher thread is
  runFlag,        \* run_flag
  sendCount,      \* send_count, the number of the next frame
  queueList,      \* EventQueue::queueList, tempList while it is processed
  session_,       \* Server::session_
  acceptPending,  \* an async_accept on session_ is outstanding
  io,             \* the session whose doCanObjTranspose is running
  left,           \* iterations its pop loop has left
  spsc,           \* Session::spsc_queue_
  tx,             \* Session::shr_tx_buff_
  timer,          \* the wait on Session::deadline_ is outstanding
  wr,             \* lines covered by the outstanding async_write, 0 if none
  peer,           \* the client's end of the connection
  sent,           \* history: lines the connection took
  kept,           \* history: frames pushed to spsc_queue_
  lost            \* history: frames dropped because spsc_queue_ was full

pubVars  == <<pub, sendCount, queueList>>
srvVars  == <<session_, acceptPending>>
ioVars   == <<io, left, tx, timer, wr, sent>>
spscVars == <<spsc, kept, lost>>
vars     == <<lvars, main, runFlag, pubVars, srvVars, ioVars, spscVars, peer>>

Peers == {"none", "open", "stalled", "closed", "reset"}

Frames == 0..MaxFrames

ThreadTypeOK ==
  /\ main \in {"wait", "running", "stopping", "joining", "exited", "aborted"}
  /\ pub \in {"init", "receive", "process", "exited", "aborted"}
  /\ runFlag \in BOOLEAN
  /\ session_ \in Session \cup {NoSession}
  /\ acceptPending \in BOOLEAN
  /\ io \in Session \cup {NoSession}
  /\ left \in 0..TxBatch

QueueTypeOK ==
  /\ sendCount \in Frames
  /\ queueList \in Seq(Frames)

SpscTypeOK ==
  /\ spsc \in [Session -> Seq(Frames)]
  /\ \A s \in Session : Len(spsc[s]) <= SpscCapacity
  /\ kept \in [Session -> Seq(Frames)]
  /\ lost \in [Session -> SUBSET Frames]

SocketTypeOK ==
  /\ tx \in [Session -> Seq(Frames)]
  /\ timer \in [Session -> BOOLEAN]
  /\ wr \in [Session -> Nat]
  /\ peer \in [Session -> Peers]
  /\ sent \in [Session -> Seq(Frames)]

TypeOK == LTypeOK /\ ThreadTypeOK /\ QueueTypeOK /\ SpscTypeOK /\ SocketTypeOK

Init ==
  /\ LInit
  /\ main = "wait"
  /\ pub = "init"
  /\ runFlag = TRUE
  /\ sendCount = 0
  /\ queueList = <<>>
  /\ session_ = NoSession
  /\ acceptPending = FALSE
  /\ io = NoSession
  /\ left = 0
  /\ spsc = [s \in Session |-> <<>>]
  /\ tx = [s \in Session |-> <<>>]
  /\ timer = [s \in Session |-> FALSE]
  /\ wr = [s \in Session |-> 0]
  /\ peer = [s \in Session |-> "none"]
  /\ sent = [s \in Session |-> <<>>]
  /\ kept = [s \in Session |-> <<>>]
  /\ lost = [s \in Session |-> {}]

------------------------------------------------------------------------------
(* The publisher thread. *)

\* The device opens and pub_thd_init_done is set; then the loop test.
PubInit ==
  /\ pub = "init"
  /\ pub' = IF runFlag THEN "receive" ELSE "exited"
  /\ UNCHANGED <<lvars, main, runFlag, sendCount, queueList, srvVars, ioVars,
                 spscVars, peer>>

\* A CHECK on the device fails: the process aborts.
PubInitFail ==
  /\ pub = "init"
  /\ pub' = "aborted"
  /\ main' = "aborted"
  /\ UNCHANGED <<lvars, runFlag, sendCount, queueList, srvVars, ioVars,
                 spscVars, peer>>

\* Mutant: send_count is advanced once per batch.
PubReceiveCountsBatches(n) ==
  /\ pub = "receive"
  /\ sendCount + n <= MaxFrames
  /\ queueList' = queueList \o [i \in 1..n |-> sendCount]
  /\ sendCount' = IF n = 0 THEN sendCount ELSE sendCount + 1
  /\ pub' = "process"
  /\ UNCHANGED <<lvars, main, runFlag, srvVars, ioVars, spscVars, peer>>

\* VCI_Receive returns n frames; each is numbered and enqueued.
PubReceive(n) ==
  /\ pub = "receive"
  /\ sendCount + n <= MaxFrames
  /\ queueList' = queueList \o [i \in 1..n |-> sendCount + i - 1]
  /\ sendCount' = sendCount + n
  /\ pub' = "process"
  /\ UNCHANGED <<lvars, main, runFlag, srvVars, ioVars, spscVars, peer>>

\* processIf starts to dispatch the first event that is left.
PubBegin ==
  /\ pub = "process"
  /\ queueList # <<>>
  /\ BeginDispatch
  /\ UNCHANGED <<main, runFlag, pubVars, srvVars, ioVars, spscVars, peer>>

\* Mutant: a full queue is not noticed.
consumeWithoutLimit(s, frame) ==
  /\ spsc' = [spsc EXCEPT ![s] = Append(@, frame)]
  /\ kept' = [kept EXCEPT ![s] = Append(@, frame)]
  /\ UNCHANGED lost

\* Session::consumeCanObjHandler: a frame that does not fit is dropped.
consumeCanObjHandler(s, frame) ==
  IF Len(spsc[s]) < SpscCapacity
  THEN /\ spsc' = [spsc EXCEPT ![s] = Append(@, frame)]
       /\ kept' = [kept EXCEPT ![s] = Append(@, frame)]
       /\ UNCHANGED lost
  ELSE /\ lost' = [lost EXCEPT ![s] = @ \cup {frame}]
       /\ UNCHANGED <<spsc, kept>>

PubReadCounter ==
  /\ ReadCounter
  /\ UNCHANGED <<main, runFlag, pubVars, srvVars, ioVars, spscVars, peer>>

PubVisit(s) ==
  /\ Visit(s)
  /\ consumeCanObjHandler(s, Head(queueList))
  /\ UNCHANGED <<main, runFlag, pubVars, srvVars, ioVars, peer>>

PubReturn ==
  /\ Return
  /\ UNCHANGED <<main, runFlag, pubVars, srvVars, ioVars, spscVars, peer>>

PubSkip(s) ==
  /\ Skip(s)
  /\ UNCHANGED <<main, runFlag, pubVars, srvVars, ioVars, spscVars, peer>>

PubEnd ==
  /\ EndDispatch
  /\ queueList' = Tail(queueList)
  /\ UNCHANGED <<main, runFlag, pub, sendCount, srvVars, ioVars, spscVars, peer>>

\* processIf has nothing left: back to the loop test.
PubLoop ==
  /\ pub = "process"
  /\ queueList = <<>>
  /\ pub' = IF runFlag THEN "receive" ELSE "exited"
  /\ UNCHANGED <<lvars, main, runFlag, sendCount, queueList, srvVars, ioVars,
                 spscVars, peer>>

------------------------------------------------------------------------------
(* The main thread: server and sessions. *)

\* Session objects some shared_ptr keeps alive: Server::session_, the binder
\* stored in the listener node, a pending handler, the handler that runs.
Alive == ({session_, io} \ {NoSession}) \cup NodeHeld
           \cup {s \in Session : timer[s] \/ wr[s] > 0}

\* Server::startAccepting: a new Session object waits for the next client.
startAccepting(n) ==
  /\ n \notin Alive
  /\ session_' = n
  /\ acceptPending' = TRUE

\* The wait for pub_thd_init_done ends; the server is built and accepts.
MainStart(n) ==
  /\ main = "wait"
  /\ pub # "init"
  /\ main' = "running"
  /\ startAccepting(n)
  /\ UNCHANGED <<lvars, runFlag, pubVars, ioVars, spscVars, peer>>

\* Mutant: the catch block forgets run_flag.
BindFailKeepsRunning ==
  /\ main = "wait"
  /\ pub # "init"
  /\ main' = "joining"
  /\ UNCHANGED <<lvars, runFlag, pubVars, srvVars, ioVars, spscVars, peer>>

\* The acceptor cannot bind: the exception is caught.
MainBindFail ==
  /\ main = "wait"
  /\ pub # "init"
  /\ main' = "joining"
  /\ runFlag' = FALSE
  /\ UNCHANGED <<lvars, pubVars, srvVars, ioVars, spscVars, peer>>

\* The io thread is free to run the next handler.
IoIdle == main = "running" /\ io = NoSession

\* Session::doCanObjTranspose is entered.
Transpose(s) ==
  /\ io' = s
  /\ left' = TxBatch

\* Server::handleAccept and Session::start.  A Session object that is used
\* again starts afresh.
AcceptOk(s) ==
  /\ IoIdle
  /\ acceptPending
  /\ s = session_
  /\ Session \ Alive # {}      \* bound: Session objects at one time
  /\ acceptPending' = FALSE
  /\ AppendListener(s)
  /\ Transpose(s)
  /\ peer' = [peer EXCEPT ![s] = "open"]
  /\ spsc' = [spsc EXCEPT ![s] = <<>>]
  /\ tx' = [tx EXCEPT ![s] = <<>>]
  /\ sent' = [sent EXCEPT ![s] = <<>>]
  /\ kept' = [kept EXCEPT ![s] = <<>>]
  /\ lost' = [lost EXCEPT ![s] = {}]
  /\ UNCHANGED <<main, runFlag, pubVars, session_, timer, wr>>

\* Server::handleAccept with an error: it only prints.
AcceptErr ==
  /\ IoIdle
  /\ acceptPending
  /\ acceptPending' = FALSE
  /\ UNCHANGED <<lvars, main, runFlag, pubVars, session_, ioVars, spscVars, peer>>

\* One iteration of the pop loop of doCanObjTranspose.
TransposePop(s) ==
  /\ io = s
  /\ left > 0
  /\ spsc[s] # <<>>
  /\ spsc' = [spsc EXCEPT ![s] = Tail(@)]
  /\ tx' = [tx EXCEPT ![s] = Append(@, Head(spsc[s]))]
  /\ left' = left - 1
  /\ UNCHANGED <<lvars, main, runFlag, pubVars, srvVars, io, timer, wr, sent,
                 kept, lost, peer>>

\* Mutant: no return after writeMessage().
ArmWriteAndTimer(s) ==
  /\ wr' = [wr EXCEPT ![s] = Len(tx[s])]
  /\ timer' = [timer EXCEPT ![s] = TRUE]

\* The rest of doCanObjTranspose: write what there is, else wait 10 ms.
ArmHandler(s) ==
  IF tx[s] # <<>>
  THEN wr' = [wr EXCEPT ![s] = Len(tx[s])] /\ UNCHANGED timer
  ELSE timer' = [timer EXCEPT ![s] = TRUE] /\ UNCHANGED wr

\* Mutant: the pop comes before the loop's limit, so a full batch costs a frame.
TransposeEndPopsFirst(s) ==
  /\ io = s
  /\ left = 0 \/ spsc[s] = <<>>
  /\ ArmHandler(s)
  /\ io' = NoSession
  /\ left' = 0
  /\ spsc' = [spsc EXCEPT ![s] = IF @ = <<>> THEN @ ELSE Tail(@)]
  /\ IF s = session_ THEN \E n \in Session : startAccepting(n)
                     ELSE UNCHANGED srvVars
  /\ UNCHANGED <<lvars, main, runFlag, pubVars, tx, sent, kept, lost, peer>>

\* In handleAccept (s is still session_) the next accept follows start().
TransposeEnd(s) ==
  /\ io = s
  /\ left = 0 \/ spsc[s] = <<>>
  /\ ArmHandler(s)
  /\ io' = NoSession
  /\ left' = 0
  /\ IF s = session_ THEN \E n \in Session : startAccepting(n)
                     ELSE UNCHANGED srvVars
  /\ UNCHANGED <<lvars, main, runFlag, pubVars, tx, sent, spscVars, peer>>

\* The 10 ms wait of doCanObjTranspose is over.
TimerFires(s) ==
  /\ IoIdle
  /\ timer[s]
  /\ timer' = [timer EXCEPT ![s] = FALSE]
  /\ Transpose(s)
  /\ UNCHANGED <<lvars, main, runFlag, pubVars, srvVars, tx, wr, sent, spscVars,
                 peer>>

\* streambuf::consume(n): what is beyond the end is ignored.
Consume(q, n) == SubSeq(q, n + 1, Len(q))

\* async_write consumes what it transferred and handleWrite consumes it again.
Written(s, n) ==
  /\ sent' = [sent EXCEPT ![s] = @ \o SubSeq(tx[s], 1, n)]
  /\ tx' = [tx EXCEPT ![s] = Consume(Consume(@, n), n)]
  /\ wr' = [wr EXCEPT ![s] = 0]

\* handleWrite without an error.  The kernel takes one write after the client
\* has closed its end; the answer to it resets the connection.
WriteOk(s) ==
  /\ IoIdle
  /\ wr[s] > 0
  /\ peer[s] \in {"open", "closed"}
  /\ Written(s, wr[s])
  /\ peer' = [peer EXCEPT ![s] = IF @ = "closed" THEN "reset" ELSE @]
  /\ Transpose(s)
  /\ UNCHANGED <<lvars, main, runFlag, pubVars, srvVars, timer, spscVars>>

\* Mutant: the listener stays.
disconnectForgotten(s) == UNCHANGED lvars

\* Session::disconnectToEventqq.
disconnectToEventqq(s) ==
  IF s \in NodeHeld THEN RemoveListener(s) ELSE UNCHANGED lvars

\* handleWrite with an error, after n whole lines went out.  The session never
\* uses its socket again, so the peer no longer matters.
WriteErr(s, n) ==
  /\ IoIdle
  /\ wr[s] > n
  /\ Written(s, n)
  /\ disconnectToEventqq(s)
  /\ peer' = [peer EXCEPT ![s] = "none"]
  /\ UNCHANGED <<main, runFlag, pubVars, srvVars, io, left, timer, spscVars>>

\* SIGINT or SIGTERM: the handler clears run_flag and stops the io_context.
Signal ==
  /\ IoIdle
  /\ main' = "stopping"
  /\ runFlag' = FALSE
  /\ UNCHANGED <<lvars, pubVars, srvVars, ioVars, spscVars, peer>>

\* run() returns: the server, and the io_context with every pending handler,
\* are destroyed; only the listener list still refers to sessions.
LeaveScope ==
  /\ main = "stopping"
  /\ main' = "joining"
  /\ session_' = NoSession
  /\ acceptPending' = FALSE
  /\ timer' = [s \in Session |-> FALSE]
  /\ wr' = [s \in Session |-> 0]
  /\ UNCHANGED <<lvars, runFlag, pubVars, io, left, tx, sent, spscVars, peer>>

\* join() returns and main() destroys the queue with its listeners.
MainJoin ==
  /\ main = "joining"
  /\ pub = "exited"
  /\ main' = "exited"
  /\ live' = {}
  /\ UNCHANGED <<pinned, todo, cur, walk, runFlag, pubVars, srvVars,
                 ioVars, spscVars, peer>>

------------------------------------------------------------------------------
(* The clients. *)

SetPeer(s, from, to) ==
  /\ s \in live
  /\ peer[s] \in from
  /\ peer' = [peer EXCEPT ![s] = to]
  /\ UNCHANGED <<lvars, main, runFlag, pubVars, srvVars, ioVars, spscVars>>

\* The client stops reading and its socket buffers fill up.
ClientStall(s)  == SetPeer(s, {"open"}, "stalled")
ClientResume(s) == SetPeer(s, {"stalled"}, "open")

\* The client ends.  One that has left data unread resets the connection.
ClientClose(s) == SetPeer(s, {"open"}, "closed")
ClientReset(s) == SetPeer(s, {"stalled"}, "reset")

------------------------------------------------------------------------------
\* The process is gone.
Finished == main \in {"exited", "aborted"} /\ UNCHANGED vars

PubNext ==
  \/ PubInit \/ PubBegin \/ PubReadCounter \/ PubReturn \/ PubEnd \/ PubLoop
  \/ \E n \in 0..MaxBatch : PubReceive(n)
  \/ \E s \in Session : PubVisit(s) \/ PubSkip(s)

MainNext ==
  \/ MainBindFail \/ LeaveScope \/ MainJoin
  \/ \E s \in Session : MainStart(s) \/ TransposePop(s) \/ TransposeEnd(s)

WriteFails(s) == \E n \in 0..(TxBatch - 1) : WriteErr(s, n)

\* A handler of session s that is ready runs; an error is sure to come only
\* from a connection that was reset.
HandlerRuns(s) ==
  TimerFires(s) \/ WriteOk(s) \/ (peer[s] = "reset" /\ WriteFails(s))

IoNext ==
  \/ AcceptErr \/ Signal
  \/ \E s \in Session : AcceptOk(s) \/ TimerFires(s) \/ WriteOk(s) \/ WriteFails(s)

ClientNext ==
  \E s \in Session : ClientStall(s) \/ ClientResume(s) \/ ClientClose(s) \/ ClientReset(s)

Next ==
  \/ PubInitFail \/ PubNext \/ MainNext \/ IoNext \/ ClientNext \/ Finished

Spec == Init /\ [][Next]_vars

\* Both threads run as long as they have something to do: main() is a plain
\* sequence of steps, and the io_context runs its ready handlers first in,
\* first out, so a handler that is ready again and again is run even though
\* other handlers keep the thread busy in between (SF).  Nothing is assumed of
\* clients, of the device, or that a signal or a bind failure ever comes.
Fairness ==
  /\ WF_vars(PubNext)
  /\ WF_vars(MainNext)
  /\ \A s \in Session : SF_vars(HandlerRuns(s))

FairSpec == Spec /\ Fairness

------------------------------------------------------------------------------
(* Properties. *)

\* While the io_context runs, the handler chain of a connected session is
\* neither broken nor doubled: exactly one of the running handler, the timer
\* wait and the write is there, and a session that was disconnected has none
\* (doCanObjTranspose returns after writeMessage, handleWrite after an error).
\* Without it a session would stop sending, or append to a buffer that
\* async_write is sending.
OneHandlerInFlight ==
  main = "running" =>
    \A s \in Session :
      \/ s \in live /\ io = s  /\ ~timer[s] /\ wr[s] = 0
      \/ s \in live /\ io # s  /\ timer[s]  /\ wr[s] = 0
      \/ s \in live /\ io # s  /\ ~timer[s] /\ wr[s] > 0
      \/ s \notin live /\ io # s /\ ~timer[s] /\ wr[s] = 0

\* What a client received, then the transmit buffer, then the session's queue,
\* is exactly the sequence of frames the publisher pushed for it: nothing that
\* was accepted is lost, duplicated or reordered on its way to the socket,
\* although handleWrite consumes a buffer async_write has consumed already.
StreamConservation ==
  \A s \in live : sent[s] \o tx[s] \o spsc[s] = kept[s]

\* The number of frames whose dispatch has begun.
Begun == IF dispatching THEN sendCount - Len(queueList) + 1
                        ELSE sendCount - Len(queueList)

\* From the frame at which it joined, a connected session is offered every
\* frame once and in order, whatever other sessions come and go while the
\* publisher walks the list: the frames it kept or dropped are an interval
\* that ends at the frame being dispatched, or just before it when the walk
\* has still to reach the session.
FanoutContiguous ==
  \A s \in live :
    /\ \A i, j \in 1..Len(kept[s]) : i < j => kept[s][i] < kept[s][j]
    /\ lost[s] \cap Range(kept[s]) = {}
    /\ \E first \in 0..Begun :
         lost[s] \cup Range(kept[s]) =
           {f \in first..MaxFrames : IF s \in todo THEN f + 1 < Begun
                                                   ELSE f < Begun}

\* The transmit buffer never holds more than one batch of doCanObjTranspose,
\* so a client that stalls costs the agent spsc_queue_ and one batch at most.
BacklogBounded ==
  \A s \in live : Len(tx[s]) <= TxBatch /\ wr[s] \in {0, Len(tx[s])}

\* No frame waits for ever for a connected client, neither in the event queue nor
\* in its session: unless the client stalls the frame is sent to it (or dropped, if
\* the session's queue is full, or passed by, if the session joined too late), and
\* after its last stall the promise holds again.  That another client stalls for
\* good, or that clients keep joining and leaving while the publisher walks the
\* list, is no excuse: the walk ends, and the session gets its turn.
DeliveredUnlessStalled ==
  \A s \in Session, f \in 0..(MaxFrames - 1) :
    LET Pending == /\ main = "running" /\ s \in live
                   /\ f \in Range(queueList \o tx[s] \o spsc[s])
    IN  []<>(~Pending \/ peer[s] = "stalled")

\* A session whose client is gone is destroyed as soon as there is traffic for
\* it: the session never reads and notices only by a write that fails.  (The first
\* write after the client closed still succeeds, and makes the connection a reset
\* one.)  Then the listener is removed although a walk may be standing on it, and
\* nothing else keeps the session (disconnectToEventqq: "remove listener to let
\* this session destroied"): no handler, no node, and no other session's doing.
ReclaimedAfterReset ==
  \A s \in Session :
    (s \in live /\ peer[s] = "reset" /\ tx[s] \o spsc[s] # <<>>)
      ~> (s \notin Alive \/ main # "running")

\* Each session keeps the promise of SessionStream to its client, whatever the
\* publisher, the handlers of the session and other sessions do in between
\* (for all s, Stream(s)!SSpec, with the quantifier inside the box).
Stream(s) == INSTANCE SessionStream WITH
  Frame <- Frames, Capacity <- SpscCapacity, MaxWrite <- TxBatch,
  on <- s \in live, backlog <- IF s \in live THEN tx[s] \o spsc[s] ELSE <<>>, wire <- sent[s]
ImplementsStream ==
  /\ \A s \in Session : Stream(s)!SInit
  /\ [][\A s \in Session : [Stream(s)!SNext]_(Stream(s)!svars)]_vars

\* Once main() left the io_context, on a signal or because the port is taken,
\* the publisher stops and the process exits, also with clients that stall.
ShutdownCompletes == []<>(main \notin {"stopping", "joining"})

\* The comment on Server::handleAccept: every attempt to connect is handled
\* and the server starts accepting a new client.
ServerKeepsAccepting == IoIdle => acceptPending
==============================================================================

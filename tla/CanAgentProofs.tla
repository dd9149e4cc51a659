---------------------------- MODULE CanAgentProofs ----------------------------
(***************************************************************************)
(* Proofs about CanAgent for any number of sessions, any bounds and any    *)
(* queue capacity.                                                         *)
(***************************************************************************)
EXTENDS CanAgent, SequenceTheorems, TLAPS

\* What the publisher's place says of the event queue: a walk is under way
\* only while processIf has an event in hand, and the queue is empty again
\* when the publisher asks the device for more.
Phases ==
  /\ dispatching => pub = "process" /\ queueList # <<>>
  /\ pub \in {"init", "receive"} => queueList = <<>>

\* The inductive form of the type invariant: Head and Tail are applied to a
\* queue that is not empty.
TypeInv == TypeOK /\ Phases

\* An outstanding write covers exactly what the buffer holds.
WriteInBuffer == \A s \in Session : wr[s] \in {0, Len(tx[s])}

\* The types hold when main() has started the publisher.
LEMMA TypeInvInit == Init => TypeInv
  <1> SUFFICES ASSUME Init PROVE TypeInv
    OBVIOUS
  <1> USE BoundsAssumption DEF Init, LInit
  <1>1. LTypeOK
    BY DEF LTypeOK
  <1>2. ThreadTypeOK
    <2>1. left \in 0..TxBatch
      OBVIOUS
    <2> QED
      BY <2>1, Zenon DEF ThreadTypeOK
  <1>3. QueueTypeOK /\ Phases
    BY DEF QueueTypeOK, Frames, Phases, dispatching
  <1>4. SpscTypeOK
    BY DEF SpscTypeOK
  <1>5. SocketTypeOK
    BY DEF SocketTypeOK, Peers
  <1> QED
    BY <1>1, <1>2, <1>3, <1>4, <1>5 DEF TypeInv, TypeOK

\* The parts of the type invariant that a step leaves alone because it leaves
\* their variables alone.
LEMMA TypeFrame ==
  /\ LTypeOK /\ UNCHANGED lvars => LTypeOK'
  /\ QueueTypeOK /\ UNCHANGED <<sendCount, queueList>> => QueueTypeOK'
  /\ SpscTypeOK /\ UNCHANGED spscVars => SpscTypeOK'
  /\ SocketTypeOK /\ UNCHANGED <<tx, timer, wr, peer, sent>> => SocketTypeOK'
  /\ Phases /\ UNCHANGED <<walk, pub, queueList>> => Phases'
  BY DEF LTypeOK, lvars, QueueTypeOK, SpscTypeOK, spscVars, SocketTypeOK, Phases,
         dispatching

\* The publisher's steps keep the types: what it enqueues are frame numbers,
\* and it pushes only to a queue that has room.
LEMMA TypeInvPub ==
  ASSUME TypeInv, PubInitFail \/ PubNext
  PROVE  TypeInv'
  <1> USE TypeFrame DEF TypeInv, TypeOK, pubVars, srvVars, ioVars
  <1>1. CASE PubInit \/ PubInitFail \/ PubLoop
    <2>1. ThreadTypeOK' /\ Phases'
      BY <1>1 DEF PubInit, PubInitFail, PubLoop, ThreadTypeOK, Phases, dispatching, lvars
    <2> QED
      BY <1>1, <2>1 DEF PubInit, PubInitFail, PubLoop
  <1>2. ASSUME NEW n \in 0..MaxBatch, PubReceive(n) PROVE TypeInv'
    <2>1. ThreadTypeOK' /\ Phases'
      BY <1>2 DEF PubReceive, ThreadTypeOK, Phases, dispatching, lvars
    <2>2. [i \in 1..n |-> sendCount + i - 1] \in Seq(Frames)
      BY <1>2, BoundsAssumption DEF PubReceive, QueueTypeOK, Frames
    <2>3. QueueTypeOK'
      BY <1>2, <2>2, BoundsAssumption DEF PubReceive, QueueTypeOK, Frames
    <2> QED
      BY <1>2, <2>1, <2>3 DEF PubReceive
  <1>3. CASE PubBegin \/ PubReadCounter \/ PubReturn
    <2>1. ThreadTypeOK' /\ Phases'
      BY <1>3 DEF PubBegin, PubReadCounter, PubReturn, BeginDispatch, ReadCounter,
                  Return, ThreadTypeOK, Phases, dispatching
    <2>2. LTypeOK'
      BY <1>3 DEF PubBegin, PubReadCounter, PubReturn, BeginDispatch, ReadCounter,
                  Return, Unpin, LTypeOK
    <2> QED
      BY <1>3, <2>1, <2>2 DEF PubBegin, PubReadCounter, PubReturn
  <1>4. ASSUME NEW s \in Session, PubVisit(s) PROVE TypeInv'
    <2>1. ThreadTypeOK' /\ Phases' /\ LTypeOK'
      BY <1>4 DEF PubVisit, Visit, ThreadTypeOK, Phases, dispatching, LTypeOK
    <2>2. Head(queueList) \in Frames
      BY <1>4 DEF PubVisit, Visit, walking, Phases, dispatching, QueueTypeOK
    <2>3. SpscTypeOK'
      <3>1. CASE Len(spsc[s]) < SpscCapacity
        <4>1. Append(spsc[s], Head(queueList)) \in Seq(Frames)
          BY <2>2 DEF SpscTypeOK
        <4>2. Len(Append(spsc[s], Head(queueList))) <= SpscCapacity
          BY <2>2, <3>1, BoundsAssumption DEF SpscTypeOK
        <4>3. Append(kept[s], Head(queueList)) \in Seq(Frames)
          BY <2>2 DEF SpscTypeOK
        <4> QED
          BY <1>4, <3>1, <4>1, <4>2, <4>3 DEF PubVisit, consumeCanObjHandler, SpscTypeOK
      <3>2. CASE ~(Len(spsc[s]) < SpscCapacity)
        BY <1>4, <2>2, <3>2 DEF PubVisit, consumeCanObjHandler, SpscTypeOK
      <3> QED
        BY <3>1, <3>2
    <2> QED
      BY <1>4, <2>1, <2>3 DEF PubVisit
  <1>5. ASSUME NEW s \in Session, PubSkip(s) PROVE TypeInv'
    <2>1. ThreadTypeOK' /\ Phases' /\ LTypeOK'
      BY <1>5 DEF PubSkip, Skip, Unpin, ThreadTypeOK, Phases, dispatching, LTypeOK
    <2> QED
      BY <1>5, <2>1 DEF PubSkip
  <1>6. CASE PubEnd
    <2>1. ThreadTypeOK' /\ Phases' /\ LTypeOK'
      BY <1>6 DEF PubEnd, EndDispatch, walking, ThreadTypeOK, Phases, dispatching, LTypeOK
    <2>2. QueueTypeOK'
      BY <1>6 DEF PubEnd, EndDispatch, walking, Phases, dispatching, QueueTypeOK
    <2> QED
      BY <1>6, <2>1, <2>2 DEF PubEnd
  <1> QED
    BY <1>1, <1>2, <1>3, <1>4, <1>5, <1>6 DEF PubNext

\* The steps of main() and of a handler that is running keep the types.
LEMMA TypeInvMain ==
  ASSUME TypeInv, MainNext
  PROVE  TypeInv'
  <1> USE TypeFrame DEF TypeInv, TypeOK, pubVars, srvVars, ioVars, spscVars
  <1>1. CASE MainBindFail
    <2>1. ThreadTypeOK'
      BY <1>1 DEF MainBindFail, ThreadTypeOK
    <2> QED
      BY <1>1, <2>1 DEF MainBindFail, lvars
  <1>2. CASE LeaveScope
    <2>1. ThreadTypeOK'
      BY <1>2, Zenon DEF LeaveScope, ThreadTypeOK
    <2>2. SocketTypeOK'
      BY <1>2 DEF LeaveScope, SocketTypeOK
    <2> QED
      BY <1>2, <2>1, <2>2 DEF LeaveScope, lvars
  <1>3. CASE MainJoin
    <2>1. ThreadTypeOK' /\ LTypeOK'
      BY <1>3 DEF MainJoin, ThreadTypeOK, LTypeOK
    <2> QED
      BY <1>3, <2>1 DEF MainJoin
  <1>4. ASSUME NEW s \in Session, MainStart(s) PROVE TypeInv'
    <2>1. ThreadTypeOK'
      BY <1>4 DEF MainStart, startAccepting, ThreadTypeOK
    <2> QED
      BY <1>4, <2>1 DEF MainStart, lvars
  <1>5. ASSUME NEW s \in Session, TransposePop(s) PROVE TypeInv'
    <2>1. ThreadTypeOK'
      BY <1>5, BoundsAssumption DEF TransposePop, ThreadTypeOK
    <2>2. /\ Tail(spsc[s]) \in Seq(Frames)
          /\ Len(Tail(spsc[s])) <= SpscCapacity
          /\ Append(tx[s], Head(spsc[s])) \in Seq(Frames)
      BY <1>5, BoundsAssumption DEF TransposePop, SpscTypeOK, SocketTypeOK
    <2>3. SpscTypeOK'
      BY <1>5, <2>2 DEF TransposePop, SpscTypeOK
    <2>4. SocketTypeOK'
      BY <1>5, <2>2 DEF TransposePop, SocketTypeOK
    <2> QED
      BY <1>5, <2>1, <2>3, <2>4 DEF TransposePop, lvars
  <1>6. ASSUME NEW s \in Session, TransposeEnd(s) PROVE TypeInv'
    <2>1. session_' \in Session \cup {NoSession} /\ acceptPending' \in BOOLEAN
      BY <1>6 DEF TransposeEnd, startAccepting, ThreadTypeOK
    <2>2. ThreadTypeOK'
      BY <1>6, <2>1, BoundsAssumption DEF TransposeEnd, ThreadTypeOK
    <2>3. SocketTypeOK'
      <3>1. Len(tx[s]) \in Nat
        BY DEF SocketTypeOK
      <3>2. CASE tx[s] # <<>>
        BY <1>6, <3>1, <3>2 DEF TransposeEnd, ArmHandler, SocketTypeOK
      <3>3. CASE tx[s] = <<>>
        BY <1>6, <3>3 DEF TransposeEnd, ArmHandler, SocketTypeOK
      <3> QED
        BY <3>2, <3>3
    <2> QED
      BY <1>6, <2>2, <2>3 DEF TransposeEnd, lvars
  <1> QED
    BY <1>1, <1>2, <1>3, <1>4, <1>5, <1>6 DEF MainNext

\* Handlers that start, and the signal, keep the types.
LEMMA TypeInvIo ==
  ASSUME TypeInv, IoNext, WriteInBuffer
  PROVE  TypeInv'
  <1> USE TypeFrame DEF TypeInv, TypeOK, pubVars, srvVars, ioVars, spscVars
  <1>1. CASE AcceptErr \/ Signal
    <2>1. ThreadTypeOK'
      BY <1>1 DEF AcceptErr, Signal, ThreadTypeOK
    <2> QED
      BY <1>1, <2>1 DEF AcceptErr, Signal, lvars
  <1>2. ASSUME NEW s \in Session, AcceptOk(s) PROVE TypeInv'
    <2>1. ThreadTypeOK'
      <3>1. TxBatch \in 0..TxBatch
        BY BoundsAssumption
      <3> QED
        BY <1>2, <3>1, Zenon DEF AcceptOk, Transpose, ThreadTypeOK
    <2>2. LTypeOK' /\ Phases'
      BY <1>2 DEF AcceptOk, AppendListener, LTypeOK, Phases, dispatching
    <2>3. SpscTypeOK'
      BY <1>2, BoundsAssumption DEF AcceptOk, SpscTypeOK
    <2>4. SocketTypeOK'
      BY <1>2 DEF AcceptOk, SocketTypeOK, Peers
    <2> QED
      BY <1>2, <2>1, <2>2, <2>3, <2>4 DEF AcceptOk
  <1>3. ASSUME NEW s \in Session, TimerFires(s) PROVE TypeInv'
    <2>1. ThreadTypeOK'
      BY <1>3, BoundsAssumption DEF TimerFires, Transpose, ThreadTypeOK
    <2>2. SocketTypeOK'
      BY <1>3 DEF TimerFires, SocketTypeOK
    <2> QED
      BY <1>3, <2>1, <2>2 DEF TimerFires, lvars
  <1>4. ASSUME NEW s \in Session, NEW n \in Nat, n <= Len(tx[s]), Written(s, n)
        PROVE  /\ tx' \in [Session -> Seq(Frames)]
               /\ sent' \in [Session -> Seq(Frames)]
               /\ wr' \in [Session -> Nat]
    <2>1. tx[s] \in Seq(Frames) /\ sent[s] \in Seq(Frames)
      BY DEF SocketTypeOK
    <2>2. SubSeq(tx[s], 1, n) \in Seq(Frames)
      BY <1>4, <2>1
    <2>3. Consume(Consume(tx[s], n), n) \in Seq(Frames)
      <3>1. \A q \in Seq(Frames) : Consume(q, n) \in Seq(Frames)
        BY DEF Consume
      <3> QED
        BY <2>1, <3>1
    <2> QED
      BY <1>4, <2>1, <2>2, <2>3 DEF Written, SocketTypeOK
  <1>5. ASSUME NEW s \in Session, WriteOk(s) PROVE TypeInv'
    <2>1. ThreadTypeOK'
      <3>1. TxBatch \in 0..TxBatch
        BY BoundsAssumption
      <3> QED
        BY <1>5, <3>1, Zenon DEF WriteOk, Transpose, ThreadTypeOK
    <2>2. wr[s] \in Nat /\ wr[s] <= Len(tx[s])
      BY DEF WriteInBuffer, SocketTypeOK
    <2>3. /\ tx' \in [Session -> Seq(Frames)]
          /\ sent' \in [Session -> Seq(Frames)]
          /\ wr' \in [Session -> Nat]
      BY <1>4, <1>5, <2>2 DEF WriteOk
    <2>4. SocketTypeOK'
      BY <1>5, <2>3 DEF WriteOk, SocketTypeOK, Peers
    <2> QED
      BY <1>5, <2>1, <2>4 DEF WriteOk, lvars
  <1>6. ASSUME NEW s \in Session, NEW n \in 0..(TxBatch - 1), WriteErr(s, n)
        PROVE  TypeInv'
    <2>1. ThreadTypeOK'
      BY <1>6 DEF WriteErr, ThreadTypeOK
    <2>2. n \in Nat /\ n <= Len(tx[s])
      BY <1>6, BoundsAssumption DEF WriteErr, WriteInBuffer, SocketTypeOK
    <2>3. /\ tx' \in [Session -> Seq(Frames)]
          /\ sent' \in [Session -> Seq(Frames)]
          /\ wr' \in [Session -> Nat]
      BY <1>4, <1>6, <2>2 DEF WriteErr
    <2>4. SocketTypeOK'
      BY <1>6, <2>3 DEF WriteErr, SocketTypeOK, Peers
    <2>5. LTypeOK' /\ Phases'
      BY <1>6 DEF WriteErr, disconnectToEventqq, RemoveListener, LTypeOK, Phases,
                  dispatching, lvars
    <2> QED
      BY <1>6, <2>1, <2>4, <2>5 DEF WriteErr
  <1> QED
    BY <1>1, <1>2, <1>3, <1>5, <1>6 DEF IoNext, WriteFails

\* What a client does changes its own end of a connection only.
LEMMA TypeInvClient ==
  ASSUME TypeInv, ClientNext \/ UNCHANGED vars
  PROVE  TypeInv'
  <1> USE TypeFrame DEF TypeInv, TypeOK, pubVars, srvVars, ioVars, spscVars
  <1>1. ASSUME NEW s \in Session, NEW from, NEW to \in Peers, SetPeer(s, from, to)
        PROVE  TypeInv'
    <2>1. ThreadTypeOK' /\ SocketTypeOK'
      BY <1>1 DEF SetPeer, ThreadTypeOK, SocketTypeOK
    <2> QED
      BY <1>1, <2>1 DEF SetPeer, lvars
  <1>2. CASE UNCHANGED vars
    <2>1. ThreadTypeOK'
      BY <1>2 DEF vars, ThreadTypeOK
    <2> QED
      BY <1>2, <2>1 DEF vars, lvars
  <1> QED
    BY <1>1, <1>2 DEF ClientNext, ClientStall, ClientResume, ClientClose, ClientReset, Peers

\* Every step keeps the types.
LEMMA TypeInvNext ==
  ASSUME TypeInv, WriteInBuffer, [Next]_vars
  PROVE  TypeInv'
  BY TypeInvPub, TypeInvMain, TypeInvIo, TypeInvClient DEF Next, Finished

------------------------------------------------------------------------------
(* The handler chains of the sessions. *)

\* The io thread runs a handler only inside run(), and before the server is
\* built there is no session at all; with this, and the size of outstanding
\* writes, OneHandlerInFlight is inductive.
HandlerInv ==
  /\ pub = "init" => main = "wait"
  /\ main # "running" => io = NoSession
  /\ main = "wait" => live = {} /\ \A s \in Session : ~timer[s] /\ wr[s] = 0
  /\ WriteInBuffer
  /\ OneHandlerInFlight

\* No session and no handler exists at the start.
LEMMA HandlerInvInit == Init => HandlerInv
  BY NoSessionAssumption DEF Init, LInit, HandlerInv, WriteInBuffer, OneHandlerInFlight

\* Steps that touch neither the io thread's state nor the set of listeners.
LEMMA HandlerFrame ==
  ASSUME HandlerInv, UNCHANGED <<live, io, timer, wr, tx>>,
         pub' = "init" => pub = "init" /\ main' = main,
         main' = main \/ (main' \in {"stopping", "aborted"} /\ io = NoSession)
  PROVE  HandlerInv'
  BY DEF HandlerInv, WriteInBuffer, OneHandlerInFlight

\* The publisher never touches a timer, a write or the set of listeners.
LEMMA HandlerInvPub ==
  ASSUME TypeInv, HandlerInv, PubInitFail \/ PubNext
  PROVE  HandlerInv'
  <1> USE DEF pubVars, ioVars, lvars
  <1>1. UNCHANGED <<live, io, timer, wr, tx>>
    BY DEF PubInitFail, PubNext, PubInit, PubReceive, PubBegin, PubReadCounter,
           PubVisit, PubReturn, PubSkip, PubEnd, PubLoop, BeginDispatch, ReadCounter,
           Visit, Return, Skip, EndDispatch
  <1>2. pub' = "init" => pub = "init" /\ main' = main
    BY DEF PubInitFail, PubNext, PubInit, PubReceive, PubBegin, PubReadCounter,
           PubVisit, PubReturn, PubSkip, PubEnd, PubLoop
  <1>3. main' = main \/ (main' = "aborted" /\ io = NoSession)
    BY DEF PubInitFail, PubNext, PubInit, PubReceive, PubBegin, PubReadCounter,
           PubVisit, PubReturn, PubSkip, PubEnd, PubLoop, HandlerInv
  <1> QED
    BY <1>1, <1>2, <1>3, HandlerFrame

\* doCanObjTranspose ends by arming exactly one of the timer and the write.
LEMMA HandlerInvMain ==
  ASSUME TypeInv, HandlerInv, MainNext
  PROVE  HandlerInv'
  <1> USE NoSessionAssumption DEF pubVars, ioVars, lvars, HandlerInv, OneHandlerInFlight
  <1>1. CASE MainBindFail
    BY <1>1 DEF MainBindFail, WriteInBuffer
  <1>2. CASE LeaveScope
    BY <1>2 DEF LeaveScope, WriteInBuffer
  <1>3. CASE MainJoin
    BY <1>3 DEF MainJoin, WriteInBuffer
  <1>4. ASSUME NEW s \in Session, MainStart(s) PROVE HandlerInv'
    BY <1>4 DEF MainStart, WriteInBuffer
  <1>5. ASSUME NEW s \in Session, TransposePop(s) PROVE HandlerInv'
    <2>1. main = "running" /\ wr[s] = 0
      BY <1>5 DEF TransposePop
    <2>2. WriteInBuffer'
      BY <1>5, <2>1 DEF TransposePop, WriteInBuffer, TypeInv, TypeOK, SocketTypeOK
    <2> QED
      BY <1>5, <2>1, <2>2 DEF TransposePop
  <1>6. ASSUME NEW s \in Session, TransposeEnd(s) PROVE HandlerInv'
    <2>1. main = "running" /\ s \in live /\ ~timer[s] /\ wr[s] = 0
      BY <1>6 DEF TransposeEnd
    <2>2. tx[s] \in Seq(Frames) /\ timer \in [Session -> BOOLEAN] /\ wr \in [Session -> Nat]
      BY DEF TypeInv, TypeOK, SocketTypeOK
    <2>3. \A t \in Session \ {s} : io # t /\ timer'[t] = timer[t] /\ wr'[t] = wr[t]
      BY <1>6, <2>2 DEF TransposeEnd, ArmHandler
    <2>4. CASE tx[s] # <<>>
      <3>1. wr'[s] = Len(tx[s]) /\ Len(tx[s]) > 0 /\ ~timer'[s]
        BY <1>6, <2>1, <2>2, <2>4 DEF TransposeEnd, ArmHandler
      <3>2. WriteInBuffer'
        BY <1>6, <2>3, <3>1 DEF TransposeEnd, WriteInBuffer
      <3> QED
        BY <1>6, <2>1, <2>3, <3>1, <3>2 DEF TransposeEnd
    <2>5. CASE tx[s] = <<>>
      <3>1. wr'[s] = 0 /\ timer'[s]
        BY <1>6, <2>1, <2>2, <2>5 DEF TransposeEnd, ArmHandler
      <3>2. WriteInBuffer'
        BY <1>6, <2>3, <3>1 DEF TransposeEnd, WriteInBuffer
      <3> QED
        BY <1>6, <2>1, <2>3, <3>1, <3>2 DEF TransposeEnd
    <2> QED
      BY <2>4, <2>5
  <1> QED
    BY <1>1, <1>2, <1>3, <1>4, <1>5, <1>6 DEF MainNext

\* A handler that starts gives up its timer or its write, and a failed write
\* takes its session out of the list.
LEMMA HandlerInvIo ==
  ASSUME TypeInv, HandlerInv, IoNext
  PROVE  HandlerInv'
  <1> USE NoSessionAssumption DEF pubVars, ioVars, lvars, HandlerInv, OneHandlerInFlight
  <1>1. CASE AcceptErr \/ Signal
    <2>1. UNCHANGED <<live, io, timer, wr, tx, pub>> /\ main = "running" /\ io = NoSession
      BY <1>1 DEF AcceptErr, Signal, IoIdle
    <2>2. main' \in {main, "stopping"}
      BY <1>1 DEF AcceptErr, Signal
    <2> QED
      BY <2>1, <2>2, HandlerFrame
  <1>2. timer \in [Session -> BOOLEAN] /\ wr \in [Session -> Nat] /\ tx \in [Session -> Seq(Frames)]
    BY DEF TypeInv, TypeOK, SocketTypeOK
  <1>3. ASSUME NEW s \in Session, AcceptOk(s) PROVE HandlerInv'
    <2>1. main = "running" /\ io = NoSession /\ s \notin live /\ live' = live \cup {s} /\ io' = s
      BY <1>3 DEF AcceptOk, IoIdle, AppendListener, NodeHeld, Transpose
    <2>2. ~timer[s] /\ wr[s] = 0
      BY <2>1
    <2>3. WriteInBuffer'
      BY <1>2, <1>3, <2>2 DEF AcceptOk, WriteInBuffer
    <2> QED
      BY <1>3, <2>1, <2>2, <2>3 DEF AcceptOk
  <1>4. ASSUME NEW s \in Session, TimerFires(s) PROVE HandlerInv'
    <2>1. main = "running" /\ io = NoSession /\ s \in live /\ wr[s] = 0 /\ io' = s
      BY <1>4 DEF TimerFires, IoIdle, Transpose
    <2>2. ~timer'[s] /\ \A t \in Session \ {s} : timer'[t] = timer[t]
      BY <1>2, <1>4 DEF TimerFires
    <2>3. WriteInBuffer'
      BY <1>4 DEF TimerFires, WriteInBuffer
    <2> QED
      BY <1>4, <2>1, <2>2, <2>3 DEF TimerFires
  <1>5. ASSUME NEW s \in Session, NEW n \in Nat, Written(s, n)
        PROVE  /\ wr'[s] = 0
               /\ \A t \in Session \ {s} : wr'[t] = wr[t] /\ tx'[t] = tx[t]
               /\ WriteInBuffer'
    BY <1>2, <1>5 DEF Written, WriteInBuffer
  <1>6. ASSUME NEW s \in Session, WriteOk(s) PROVE HandlerInv'
    <2>1. main = "running" /\ io = NoSession /\ s \in live /\ ~timer[s] /\ io' = s
      BY <1>6 DEF WriteOk, IoIdle, Transpose
    <2>2. /\ wr'[s] = 0
          /\ \A t \in Session \ {s} : wr'[t] = wr[t]
          /\ WriteInBuffer'
      BY <1>2, <1>5, <1>6 DEF WriteOk
    <2> QED
      BY <1>6, <2>1, <2>2 DEF WriteOk
  <1>7. ASSUME NEW s \in Session, NEW n \in 0..(TxBatch - 1), WriteErr(s, n)
        PROVE  HandlerInv'
    <2>1. main = "running" /\ io = NoSession /\ s \in live /\ ~timer[s] /\ wr[s] > n
      BY <1>2, <1>7, BoundsAssumption DEF WriteErr, IoIdle
    <2>2. /\ wr'[s] = 0
          /\ \A t \in Session \ {s} : wr'[t] = wr[t]
          /\ WriteInBuffer'
      BY <1>5, <1>7, BoundsAssumption DEF WriteErr
    <2>3. live' = live \ {s}
      BY <1>7, <2>1 DEF WriteErr, disconnectToEventqq, NodeHeld, RemoveListener
    <2> QED
      BY <1>7, <2>1, <2>2, <2>3 DEF WriteErr
  <1> QED
    BY <1>1, <1>3, <1>4, <1>6, <1>7 DEF IoNext, WriteFails

\* Every step keeps the chain of handlers.
LEMMA HandlerInvNext ==
  ASSUME TypeInv, HandlerInv, [Next]_vars
  PROVE  HandlerInv'
  <1>1. CASE ClientNext \/ UNCHANGED vars
    <2>1. UNCHANGED <<live, io, timer, wr, tx, pub, main>>
      BY <1>1 DEF ClientNext, ClientStall, ClientResume, ClientClose, ClientReset, SetPeer, vars,
                  lvars, pubVars, ioVars
    <2> QED
      BY <2>1, HandlerFrame
  <1> QED
    BY <1>1, HandlerInvPub, HandlerInvMain, HandlerInvIo DEF Next, Finished

\* The types and the chain of handlers are one inductive invariant.
LEMMA CoreInvariant == Spec => [](TypeInv /\ HandlerInv)
  <1>1. Init => TypeInv /\ HandlerInv
    BY TypeInvInit, HandlerInvInit
  <1>2. TypeInv /\ HandlerInv /\ [Next]_vars => (TypeInv /\ HandlerInv)'
    BY TypeInvNext, HandlerInvNext DEF HandlerInv
  <1> QED
    BY <1>1, <1>2, PTL DEF Spec

\* Every variable of the agent has its type in every reachable state; in
\* particular no spsc_queue_ ever holds more than its capacity, and Head and
\* Tail are only taken of queues that are not empty.
THEOREM TypeCorrect == Spec => []TypeOK
  BY CoreInvariant, PTL DEF TypeInv

\* The handler chain of a connected session (doCanObjTranspose, the deadline
\* timer, async_write and handleWrite) is never broken and never doubled, for
\* any number of sessions and any queue sizes.
THEOREM HandlerChain == Spec => []OneHandlerInFlight
  BY CoreInvariant, PTL DEF HandlerInv

------------------------------------------------------------------------------
(* What is buffered for a session, and in which order it is sent. *)

\* A frame pushed to the queue is the last of the whole stream.
LEMMA AppendAtEnd ==
  ASSUME NEW a \in Seq(Frames), NEW b \in Seq(Frames), NEW c \in Seq(Frames),
         NEW x \in Frames
  PROVE  a \o b \o Append(c, x) = Append(a \o b \o c, x)
  OBVIOUS

\* A frame popped from the queue and appended to the buffer stays where it was
\* in the stream.
LEMMA MoveHead ==
  ASSUME NEW a \in Seq(Frames), NEW b \in Seq(Frames), NEW c \in Seq(Frames),
         c # <<>>
  PROVE  a \o Append(b, Head(c)) \o Tail(c) = a \o b \o c
  <1> DEFINE h == <<Head(c)>>
             t == Tail(c)
  <1>1. h \in Seq(Frames) /\ t \in Seq(Frames)
    OBVIOUS
  <1>2. h \o t = c
    <2>1. Len(h \o t) = Len(c)
      OBVIOUS
    <2>2. \A i \in 1..Len(c) : (h \o t)[i] = c[i]
      OBVIOUS
    <2> QED
      BY <1>1, <2>1, <2>2, SeqEqual
  <1>3. Append(b, Head(c)) = b \o h
    BY AppendIsConcat
  <1> HIDE DEF h, t
  <1>4. a \o (b \o h) = (a \o b) \o h
    BY <1>1, SMTT(30)
  <1>5. a \o b \in Seq(Frames)
    OBVIOUS
  <1>6. ((a \o b) \o h) \o t = (a \o b) \o (h \o t)
    BY <1>1, <1>5, SMTT(30)
  <1> QED
    BY <1>2, <1>3, <1>4, <1>6 DEF t

\* After a complete write the buffer is empty, also when it is consumed twice.
LEMMA ConsumeAll ==
  ASSUME NEW q \in Seq(Frames)
  PROVE  /\ SubSeq(q, 1, Len(q)) = q
         /\ Consume(Consume(q, Len(q)), Len(q)) = <<>>
  BY DEF Consume

\* The pop loop fills the buffer with one batch at most, and a session that
\* waits for its timer has nothing left to send.
BufferInv ==
  /\ \A s \in live : Len(tx[s]) <= TxBatch
  /\ \A s \in Session : io = s => Len(tx[s]) + left <= TxBatch
  /\ main = "running" => \A s \in Session : timer[s] => tx[s] = <<>>

\* Nothing has been pushed, buffered or sent at the start.
LEMMA StreamInit == Init => BufferInv /\ StreamConservation
  BY NoSessionAssumption DEF Init, LInit, BufferInv, StreamConservation

StreamInv == BufferInv /\ StreamConservation

\* A step that leaves these variables alone, and adds no listener, changes
\* nothing here.
LEMMA StreamFrame ==
  ASSUME StreamInv, UNCHANGED <<io, left, tx, timer, sent, spsc, kept>>,
         live' \subseteq live, main' = "running" => main = "running"
  PROVE  StreamInv'
  BY DEF StreamInv, BufferInv, StreamConservation

\* A visit appends one frame to both the queue and the history, or to neither.
LEMMA StreamPub ==
  ASSUME TypeInv, HandlerInv, StreamInv, PubInitFail \/ PubNext
  PROVE  StreamInv'
  <1> USE DEF pubVars, ioVars, spscVars, lvars
  <1>1. ASSUME NEW s \in Session, PubVisit(s) PROVE StreamInv'
    <2>1. UNCHANGED <<io, left, tx, timer, sent, live, main>>
      BY <1>1 DEF PubVisit, Visit
    <2>2. BufferInv'
      BY <2>1 DEF StreamInv, BufferInv
    <2>3. Head(queueList) \in Frames
      BY <1>1 DEF PubVisit, Visit, walking, TypeInv, TypeOK, Phases, dispatching,
                  QueueTypeOK
    <2>4. ASSUME NEW t \in live PROVE sent'[t] \o tx'[t] \o spsc'[t] = kept'[t]
      <3>1. /\ t \in Session
            /\ sent[t] \in Seq(Frames) /\ tx[t] \in Seq(Frames)
            /\ spsc[t] \in Seq(Frames) /\ kept[t] \in Seq(Frames)
            /\ spsc \in [Session -> Seq(Frames)] /\ kept \in [Session -> Seq(Frames)]
        BY DEF TypeInv, TypeOK, LTypeOK, SpscTypeOK, SocketTypeOK
      <3>2. sent[t] \o tx[t] \o spsc[t] = kept[t]
        BY DEF StreamInv, StreamConservation
      <3>3. CASE t = s /\ Len(spsc[s]) < SpscCapacity
        <4>1. /\ spsc'[t] = Append(spsc[t], Head(queueList))
              /\ kept'[t] = Append(kept[t], Head(queueList))
          BY <1>1, <3>1, <3>3 DEF PubVisit, consumeCanObjHandler
        <4>2. sent[t] \o tx[t] \o Append(spsc[t], Head(queueList))
                = Append(sent[t] \o tx[t] \o spsc[t], Head(queueList))
          BY <2>3, <3>1, AppendAtEnd, ZenonT(40)
        <4> QED
          BY <2>1, <3>2, <4>1, <4>2
      <3>4. CASE ~(t = s /\ Len(spsc[s]) < SpscCapacity)
        <4>1. spsc'[t] = spsc[t] /\ kept'[t] = kept[t]
          <5>1. CASE Len(spsc[s]) < SpscCapacity
            BY <1>1, <3>1, <3>4, <5>1 DEF PubVisit, consumeCanObjHandler
          <5>2. CASE ~(Len(spsc[s]) < SpscCapacity)
            BY <1>1, <5>2 DEF PubVisit, consumeCanObjHandler
          <5> QED
            BY <5>1, <5>2
        <4> QED
          BY <2>1, <3>2, <4>1
      <3> QED
        BY <3>3, <3>4
    <2> QED
      BY <2>1, <2>2, <2>4 DEF StreamInv, StreamConservation
  <1>2. CASE \/ PubInitFail \/ PubInit \/ PubBegin \/ PubReadCounter \/ PubReturn
             \/ PubEnd \/ PubLoop \/ (\E n \in 0..MaxBatch : PubReceive(n))
             \/ (\E s \in Session : PubSkip(s))
    <2>1. UNCHANGED <<io, left, tx, timer, sent, spsc, kept, live>>
      BY <1>2 DEF PubInitFail, PubInit, PubReceive, PubBegin, PubReadCounter,
                  PubReturn, PubSkip, PubEnd, PubLoop, BeginDispatch, ReadCounter,
                  Return, Skip, EndDispatch
    <2>2. main' = "running" => main = "running"
      BY <1>2 DEF PubInitFail, PubInit, PubReceive, PubBegin, PubReadCounter,
                  PubReturn, PubSkip, PubEnd, PubLoop
    <2> QED
      BY <2>1, <2>2, StreamFrame
  <1> QED
    BY <1>1, <1>2 DEF PubNext

\* The pop loop moves frames from the queue to the buffer, at most a batch.
LEMMA StreamMain ==
  ASSUME TypeInv, HandlerInv, StreamInv, MainNext
  PROVE  StreamInv'
  <1> USE DEF pubVars, ioVars, spscVars, lvars
  <1>1. CASE MainBindFail \/ MainJoin
    <2>1. UNCHANGED <<io, left, tx, timer, sent, spsc, kept>> /\ live' \subseteq live
      BY <1>1 DEF MainBindFail, MainJoin
    <2> QED
      BY <1>1, <2>1, StreamFrame DEF MainBindFail, MainJoin
  <1>2. CASE LeaveScope
    BY <1>2 DEF LeaveScope, StreamInv, BufferInv, StreamConservation
  <1>3. ASSUME NEW s \in Session, MainStart(s) PROVE StreamInv'
    BY <1>3 DEF MainStart, StreamInv, BufferInv, StreamConservation, HandlerInv
  <1>4. ASSUME NEW s \in Session, TransposePop(s) PROVE StreamInv'
    <2>1. /\ tx \in [Session -> Seq(Frames)] /\ spsc \in [Session -> Seq(Frames)]
          /\ sent \in [Session -> Seq(Frames)] /\ left \in 0..TxBatch
      BY DEF TypeInv, TypeOK, SpscTypeOK, SocketTypeOK, ThreadTypeOK
    <2>2. /\ tx'[s] = Append(tx[s], Head(spsc[s])) /\ spsc'[s] = Tail(spsc[s])
          /\ Len(tx'[s]) = Len(tx[s]) + 1
      BY <1>4, <2>1 DEF TransposePop
    <2>3. \A t \in Session \ {s} : tx'[t] = tx[t] /\ spsc'[t] = spsc[t] /\ io # t
      BY <1>4, <2>1 DEF TransposePop
    <2>4. ~timer[s] /\ main = "running" /\ io = s
      BY <1>4, NoSessionAssumption DEF TransposePop, HandlerInv, OneHandlerInFlight
    <2>5. Len(tx[s]) + left <= TxBatch /\ left > 0 /\ left' = left - 1
      BY <1>4, <2>4 DEF TransposePop, StreamInv, BufferInv
    <2>6. \A t \in live' : Len(tx'[t]) <= TxBatch
      BY <1>4, <2>1, <2>2, <2>3, <2>5, BoundsAssumption
      DEF TransposePop, StreamInv, BufferInv, TypeInv, TypeOK, LTypeOK
    <2>7. \A t \in Session : io' = t => Len(tx'[t]) + left' <= TxBatch
      BY <1>4, <2>1, <2>2, <2>3, <2>5, BoundsAssumption DEF TransposePop
    <2>8. \A t \in Session : timer'[t] => tx'[t] = <<>>
      BY <1>4, <2>3, <2>4 DEF TransposePop, StreamInv, BufferInv
    <2>9. StreamConservation'
      <3>1. sent[s] \o Append(tx[s], Head(spsc[s])) \o Tail(spsc[s])
              = sent[s] \o tx[s] \o spsc[s]
        <4>1. /\ sent[s] \in Seq(Frames) /\ tx[s] \in Seq(Frames)
              /\ spsc[s] \in Seq(Frames) /\ spsc[s] # <<>>
          BY <1>4, <2>1 DEF TransposePop
        <4> QED
          BY <4>1, MoveHead
      <3> QED
        BY <1>4, <2>2, <2>3, <3>1
        DEF TransposePop, StreamInv, StreamConservation, TypeInv, TypeOK, LTypeOK
    <2> QED
      BY <2>6, <2>7, <2>8, <2>9 DEF StreamInv, BufferInv
  <1>5. ASSUME NEW s \in Session, TransposeEnd(s) PROVE StreamInv'
    <2>1. UNCHANGED <<tx, sent, spsc, kept, live, main>> /\ io' = NoSession
      BY <1>5 DEF TransposeEnd
    <2>2. ASSUME main = "running", NEW t \in Session, timer'[t] PROVE tx[t] = <<>>
      BY <1>5, <2>2 DEF TransposeEnd, ArmHandler, StreamInv, BufferInv, TypeInv,
                        TypeOK, SocketTypeOK
    <2> QED
      BY <2>1, <2>2, NoSessionAssumption DEF StreamInv, BufferInv, StreamConservation
  <1> QED
    BY <1>1, <1>2, <1>3, <1>4, <1>5 DEF MainNext

\* A session joins empty; a complete write moves the buffer to the socket.
LEMMA StreamIo ==
  ASSUME TypeInv, HandlerInv, StreamInv, IoNext
  PROVE  StreamInv'
  <1> USE DEF pubVars, ioVars, spscVars, lvars
  <1>1. /\ tx \in [Session -> Seq(Frames)] /\ spsc \in [Session -> Seq(Frames)]
        /\ sent \in [Session -> Seq(Frames)] /\ kept \in [Session -> Seq(Frames)]
        /\ timer \in [Session -> BOOLEAN] /\ wr \in [Session -> Nat]
        /\ live \subseteq Session
    BY DEF TypeInv, TypeOK, LTypeOK, SpscTypeOK, SocketTypeOK
  <1>2. CASE AcceptErr \/ Signal
    BY <1>2, StreamFrame DEF AcceptErr, Signal
  <1>3. ASSUME NEW s \in Session, AcceptOk(s) PROVE StreamInv'
    <2>1. main = "running" /\ main' = main /\ live' = live \cup {s} /\ io' = s /\ left' = TxBatch
      BY <1>3 DEF AcceptOk, IoIdle, AppendListener, Transpose
    <2>2. /\ tx'[s] = <<>> /\ spsc'[s] = <<>> /\ sent'[s] = <<>> /\ kept'[s] = <<>>
          /\ \A t \in Session \ {s} : /\ tx'[t] = tx[t] /\ spsc'[t] = spsc[t]
                                      /\ sent'[t] = sent[t] /\ kept'[t] = kept[t]
          /\ timer' = timer
      BY <1>1, <1>3 DEF AcceptOk
    <2>3. BufferInv'
      <3>1. Len(tx'[s]) + left' <= TxBatch /\ Len(tx'[s]) <= TxBatch
        BY <2>1, <2>2, BoundsAssumption
      <3>2. \A t \in live' : Len(tx'[t]) <= TxBatch
        BY <1>1, <2>1, <2>2, <3>1 DEF StreamInv, BufferInv
      <3>3. \A t \in Session : timer'[t] => tx'[t] = <<>>
        BY <2>1, <2>2 DEF StreamInv, BufferInv
      <3> QED
        BY <2>1, <3>1, <3>2, <3>3 DEF BufferInv
    <2>4. <<>> \o <<>> \o <<>> = <<>>
      OBVIOUS
    <2>5. StreamConservation'
      BY <1>1, <2>1, <2>2, <2>4 DEF StreamInv, StreamConservation
    <2> QED
      BY <2>3, <2>5 DEF StreamInv
  <1>4. ASSUME NEW s \in Session, TimerFires(s) PROVE StreamInv'
    <2>1. tx[s] = <<>>
      BY <1>4 DEF TimerFires, IoIdle, StreamInv, BufferInv
    <2>2. UNCHANGED <<tx, sent, spsc, kept, live, main>> /\ io' = s /\ left' = TxBatch
      BY <1>4 DEF TimerFires, Transpose
    <2>3. \A t \in Session : timer'[t] => timer[t]
      BY <1>1, <1>4 DEF TimerFires
    <2>4. \A t \in Session : io' = t => Len(tx'[t]) + left' <= TxBatch
      BY <2>1, <2>2, BoundsAssumption
    <2>5. \A t \in Session : timer'[t] => tx'[t] = <<>>
      BY <1>4, <2>2, <2>3 DEF TimerFires, IoIdle, StreamInv, BufferInv
    <2> QED
      BY <2>2, <2>4, <2>5 DEF StreamInv, BufferInv, StreamConservation
  <1>5. ASSUME NEW s \in Session, WriteOk(s) PROVE StreamInv'
    <2>1. /\ UNCHANGED <<spsc, kept, live, main, timer>> /\ main = "running"
          /\ io' = s /\ left' = TxBatch
      BY <1>5 DEF WriteOk, Transpose, IoIdle
    <2>2. wr[s] = Len(tx[s])
      BY <1>5 DEF WriteOk, HandlerInv, WriteInBuffer
    <2>3. tx'[s] = <<>> /\ sent'[s] = sent[s] \o tx[s]
      BY <1>1, <1>5, <2>2, ConsumeAll DEF WriteOk, Written
    <2>4. \A t \in Session \ {s} : tx'[t] = tx[t] /\ sent'[t] = sent[t]
      BY <1>1, <1>5 DEF WriteOk, Written
    <2>5. BufferInv'
      <3>1. \A t \in Session : io' = t => Len(tx'[t]) + left' <= TxBatch
        BY <2>1, <2>3, BoundsAssumption
      <3>2. \A t \in live' : Len(tx'[t]) <= TxBatch
        <4>1. Len(tx'[s]) <= TxBatch
          BY <2>3, BoundsAssumption
        <4>2. \A t \in live \ {s} : Len(tx'[t]) <= TxBatch
          BY <1>1, <2>4 DEF StreamInv, BufferInv
        <4> QED
          BY <2>1, <4>1, <4>2
      <3>3. \A t \in Session : timer'[t] => tx'[t] = <<>>
        BY <2>1, <2>3, <2>4 DEF StreamInv, BufferInv
      <3> QED
        BY <3>1, <3>2, <3>3 DEF BufferInv
    <2>6. (sent[s] \o tx[s]) \o <<>> \o spsc[s] = sent[s] \o tx[s] \o spsc[s]
      BY <1>1
    <2>7. StreamConservation'
      BY <1>1, <2>1, <2>3, <2>4, <2>6 DEF StreamInv, StreamConservation
    <2> QED
      BY <2>5, <2>7 DEF StreamInv
  <1>6. ASSUME NEW s \in Session, NEW n \in 0..(TxBatch - 1), WriteErr(s, n)
        PROVE  StreamInv'
    <2>1. /\ UNCHANGED <<spsc, kept, main, io, left, timer>> /\ main = "running"
          /\ io = NoSession
      BY <1>6 DEF WriteErr, IoIdle
    <2>2. s \in live /\ ~timer[s]
      BY <1>1, <1>6, <2>1, BoundsAssumption DEF WriteErr, HandlerInv, OneHandlerInFlight
    <2>3. live' = live \ {s}
      BY <1>6, <2>2 DEF WriteErr, disconnectToEventqq, NodeHeld, RemoveListener
    <2>4. \A t \in Session \ {s} : tx'[t] = tx[t] /\ sent'[t] = sent[t]
      BY <1>1, <1>6 DEF WriteErr, Written
    <2> QED
      BY <1>1, <2>1, <2>2, <2>3, <2>4, NoSessionAssumption
      DEF StreamInv, BufferInv, StreamConservation
  <1> QED
    BY <1>2, <1>3, <1>4, <1>5, <1>6 DEF IoNext, WriteFails

\* Every step keeps the stream of each connected session.
LEMMA StreamNext ==
  ASSUME TypeInv, HandlerInv, StreamInv, [Next]_vars
  PROVE  StreamInv'
  <1>1. CASE ClientNext \/ UNCHANGED vars
    <2>1. UNCHANGED <<io, left, tx, timer, sent, spsc, kept, live, main>>
      BY <1>1 DEF ClientNext, ClientStall, ClientResume, ClientClose, ClientReset, SetPeer, vars,
                  lvars, ioVars, spscVars
    <2> QED
      BY <2>1, StreamFrame
  <1> QED
    BY <1>1, StreamPub, StreamMain, StreamIo DEF Next, Finished

\* The stream invariant, from the types and the chain of handlers.
LEMMA StreamInvariant == Spec => []StreamInv
  <1>1. Init => StreamInv
    BY StreamInit DEF StreamInv
  <1>2. TypeInv /\ HandlerInv /\ StreamInv /\ [Next]_vars => StreamInv'
    BY StreamNext
  <1> QED
    BY <1>1, <1>2, CoreInvariant, PTL DEF Spec

\* Nothing the publisher pushed for a connected client is lost, duplicated or
\* reordered between the push in consumeCanObjHandler and the socket, for any
\* capacity of spsc_queue_ and any batch size.
THEOREM NothingLostInASession == Spec => []StreamConservation
  BY StreamInvariant, PTL DEF StreamInv

\* shr_tx_buff_ never holds more than one batch, and a write covers all of it.
THEOREM BufferBounded == Spec => []BacklogBounded
  <1>1. TypeInv /\ HandlerInv /\ StreamInv => BacklogBounded
    BY DEF TypeInv, TypeOK, LTypeOK, HandlerInv, WriteInBuffer, StreamInv, BufferInv,
           BacklogBounded
  <1> QED
    BY <1>1, CoreInvariant, StreamInvariant, PTL

------------------------------------------------------------------------------
(***************************************************************************)
(* FanoutContiguous for any number of sessions and any bounds: what the    *)
(* publisher's walk and the coming and going of listeners leave in a       *)
(* session is an interval of frames.                                       *)
(***************************************************************************)

\* The event queue holds the numbers that were given last, in order.
QueueContiguous ==
  /\ Len(queueList) <= sendCount
  /\ \A i \in 1..Len(queueList) : queueList[i] = sendCount - Len(queueList) + i - 1

\* A removed listener is not linked, a walk reaches allocated nodes only, and
\* there is nothing to reach when there is no walk.
WalkInv ==
  /\ live \cap pinned = {}
  /\ todo \subseteq NodeHeld
  /\ ~dispatching => todo = {}

\* The first frame that session s has still to be offered.
End(s) == IF s \in todo THEN Begun - 1 ELSE Begun

\* FanoutContiguous for one session.
Fan(s) ==
  /\ \A i, j \in 1..Len(kept[s]) : i < j => kept[s][i] < kept[s][j]
  /\ lost[s] \cap Range(kept[s]) = {}
  /\ \E first \in 0..Begun :
       lost[s] \cup Range(kept[s]) = {f \in first..MaxFrames : f < End(s)}

FanInv == QueueContiguous /\ WalkInv /\ \A s \in live : Fan(s)

\* Begun counts frames, and the frame in hand is the last one of them.
LEMMA BegunType ==
  ASSUME TypeInv, QueueContiguous
  PROVE  /\ Begun \in Nat
         /\ Begun <= MaxFrames
         /\ dispatching => Begun >= 1 /\ Head(queueList) = Begun - 1
  <1>1. sendCount \in Nat /\ sendCount <= MaxFrames /\ MaxFrames \in Nat
    BY BoundsAssumption DEF TypeInv, TypeOK, QueueTypeOK, Frames
  <1>2. queueList \in Seq(Frames) /\ Len(queueList) \in Nat
    BY DEF TypeInv, TypeOK, QueueTypeOK
  <1>3. CASE dispatching
    <2>1. queueList # <<>>
      BY <1>3 DEF TypeInv, Phases
    <2>2. Len(queueList) >= 1
      BY <1>2, <2>1
    <2>3. Head(queueList) = queueList[1]
      BY <1>2, <2>1
    <2>4. queueList[1] = sendCount - Len(queueList) + 1 - 1
      BY <1>2, <2>2 DEF QueueContiguous
    <2> QED
      BY <1>1, <1>2, <1>3, <2>2, <2>3, <2>4 DEF Begun, QueueContiguous
  <1>4. CASE ~dispatching
    BY <1>1, <1>2, <1>4 DEF Begun, QueueContiguous
  <1> QED
    BY <1>3, <1>4

\* A step that neither offers a frame to s nor moves the end of its interval.
LEMMA FanKeeps ==
  ASSUME NEW s \in Session, Fan(s), kept'[s] = kept[s], lost'[s] = lost[s],
         End(s)' = End(s), Begun \in Nat, Begun' \in Nat, Begun <= Begun'
  PROVE  Fan(s)'
  <1>1. PICK first \in 0..Begun :
          lost[s] \cup Range(kept[s]) = {f \in first..MaxFrames : f < End(s)}
    BY DEF Fan
  <1>2. first \in 0..Begun'
    OBVIOUS
  <1>3. lost'[s] \cup Range(kept'[s]) = {f \in first..MaxFrames : f < End(s)'}
    BY <1>1
  <1>4. /\ \A i, j \in 1..Len(kept'[s]) : i < j => kept'[s][i] < kept'[s][j]
        /\ lost'[s] \cap Range(kept'[s]) = {}
    BY DEF Fan
  <1> QED
    BY <1>2, <1>3, <1>4 DEF Fan

\* An interval that ends before b - 1 grows by b - 1.
LEMMA IntervalGrows ==
  ASSUME NEW b \in Nat, b >= 1, b <= MaxFrames, MaxFrames \in Nat, NEW S,
         NEW first \in 0..b, S = {f \in first..MaxFrames : f < b - 1}
  PROVE  \E g \in 0..b : S \cup {b - 1} = {f \in g..MaxFrames : f < b}
  <1>1. CASE first <= b - 1
    <2>1. S \cup {b - 1} = {f \in first..MaxFrames : f < b}
      BY <1>1
    <2> QED
      BY <2>1
  <1>2. CASE first = b
    <2>1. S \cup {b - 1} = {f \in (b - 1)..MaxFrames : f < b}
      BY <1>2
    <2> QED
      BY <2>1
  <1> QED
    BY <1>1, <1>2

\* What a queue holds after a push.
LEMMA RangeAppend ==
  ASSUME NEW q \in Seq(Frames), NEW x \in Frames
  PROVE  Range(Append(q, x)) = Range(q) \cup {x}
  <1>1. /\ DOMAIN Append(q, x) = 1..(Len(q) + 1) /\ DOMAIN q = 1..Len(q)
        /\ Append(q, x)[Len(q) + 1] = x
        /\ \A i \in 1..Len(q) : Append(q, x)[i] = q[i]
        /\ Len(q) \in Nat
    OBVIOUS
  <1>2. ASSUME NEW y \in Range(Append(q, x)) PROVE y \in Range(q) \cup {x}
    BY <1>1 DEF Range
  <1>3. ASSUME NEW y \in Range(q) \cup {x} PROVE y \in Range(Append(q, x))
    <2>1. CASE y = x
      BY <1>1, <2>1 DEF Range
    <2>2. CASE y \in Range(q)
      BY <1>1, <2>2 DEF Range
    <2> QED
      BY <2>1, <2>2
  <1> QED
    BY <1>2, <1>3

\* consumeCanObjHandler, for the session that is visited: the frame in hand is
\* kept or dropped, and either way it extends the session's interval.
LEMMA FanVisit ==
  ASSUME TypeInv, QueueContiguous, NEW s \in Session, s \in todo, Fan(s), PubVisit(s)
  PROVE  Fan(s)'
  <1> DEFINE b == Begun  x == Head(queueList)
  <1>1. /\ kept \in [Session -> Seq(Frames)] /\ lost \in [Session -> SUBSET Frames]
        /\ kept[s] \in Seq(Frames) /\ MaxFrames \in Nat
    BY BoundsAssumption DEF TypeInv, TypeOK, SpscTypeOK
  <1>2. dispatching
    BY DEF PubVisit, Visit, walking, dispatching
  <1>3. b \in Nat /\ b >= 1 /\ b <= MaxFrames /\ x = b - 1 /\ x \in Frames
    BY <1>1, <1>2, BegunType DEF Frames
  <1>4. todo' = todo \ {s} /\ walk' = walk /\ UNCHANGED <<sendCount, queueList>>
    BY DEF PubVisit, Visit, pubVars
  <1>5. Begun' = b /\ End(s) = b - 1 /\ End(s)' = b
    BY <1>4 DEF Begun, End, dispatching
  <1>6. PICK first \in 0..b :
          lost[s] \cup Range(kept[s]) = {f \in first..MaxFrames : f < b - 1}
    BY <1>5 DEF Fan
  <1>7. \E g \in 0..b :
          (lost[s] \cup Range(kept[s])) \cup {b - 1} = {f \in g..MaxFrames : f < b}
    BY <1>1, <1>3, <1>6, IntervalGrows
  <1>8. \A f \in lost[s] \cup Range(kept[s]) : f \in Nat /\ f < x
    BY <1>1, <1>3, <1>6
  <1>9. CASE Len(spsc[s]) < SpscCapacity
    <2>1. kept'[s] = Append(kept[s], x) /\ lost'[s] = lost[s]
      BY <1>1, <1>9 DEF PubVisit, consumeCanObjHandler
    <2>2. Range(kept'[s]) = Range(kept[s]) \cup {x}
      BY <1>1, <1>3, <2>1, RangeAppend
    <2>3. lost'[s] \cap Range(kept'[s]) = {}
      BY <1>3, <1>8, <2>1, <2>2 DEF Fan
    <2>4. lost'[s] \cup Range(kept'[s]) = (lost[s] \cup Range(kept[s])) \cup {b - 1}
      BY <1>3, <2>1, <2>2
    <2>5. \A i, j \in 1..Len(kept'[s]) : i < j => kept'[s][i] < kept'[s][j]
      <3>1. \A i \in 1..Len(kept[s]) : kept[s][i] \in Range(kept[s])
        BY <1>1 DEF Range
      <3>2. /\ Len(kept'[s]) = Len(kept[s]) + 1 /\ Len(kept[s]) \in Nat
            /\ kept'[s][Len(kept[s]) + 1] = x
            /\ \A i \in 1..Len(kept[s]) : kept'[s][i] = kept[s][i]
        BY <1>1, <1>3, <2>1
      <3>3. \A i \in 1..Len(kept[s]) : kept[s][i] < x
        BY <1>8, <3>1
      <3>4. \A i, j \in 1..Len(kept[s]) : i < j => kept[s][i] < kept[s][j]
        BY DEF Fan
      <3> SUFFICES ASSUME NEW i \in 1..Len(kept'[s]), NEW j \in 1..Len(kept'[s]), i < j
                   PROVE  kept'[s][i] < kept'[s][j]
        OBVIOUS
      <3>5. CASE j \in 1..Len(kept[s])
        BY <3>2, <3>4, <3>5, SMTT(30)
      <3>6. CASE j = Len(kept[s]) + 1
        BY <3>2, <3>3, <3>6
      <3> QED
        BY <3>2, <3>5, <3>6
    <2> QED
      BY <1>5, <1>7, <2>3, <2>4, <2>5 DEF Fan
  <1>10. CASE ~(Len(spsc[s]) < SpscCapacity)
    <2>1. kept'[s] = kept[s] /\ lost'[s] = lost[s] \cup {x}
      BY <1>1, <1>10 DEF PubVisit, consumeCanObjHandler
    <2>2. x \notin Range(kept[s])
      BY <1>3, <1>8
    <2>3. lost'[s] \cap Range(kept'[s]) = {}
      BY <2>1, <2>2 DEF Fan
    <2>4. lost'[s] \cup Range(kept'[s]) = (lost[s] \cup Range(kept[s])) \cup {b - 1}
      BY <1>3, <2>1
    <2>5. \A i, j \in 1..Len(kept'[s]) : i < j => kept'[s][i] < kept'[s][j]
      BY <2>1 DEF Fan
    <2> QED
      BY <1>5, <1>7, <2>3, <2>4, <2>5 DEF Fan
  <1> QED
    BY <1>9, <1>10

\* Nothing is connected, and the queue is empty.
LEMMA FanInit == Init => FanInv
  BY DEF Init, LInit, FanInv, QueueContiguous, WalkInv, NodeHeld, dispatching

\* A step that leaves the queue alone and whose changes of the listener set
\* leave every session that stays connected where it was in the walk.
LEMMA FanSame ==
  ASSUME TypeInv, FanInv, WalkInv', live' \subseteq live,
         UNCHANGED <<sendCount, queueList>>, dispatching' = dispatching,
         \A s \in live' : /\ kept'[s] = kept[s] /\ lost'[s] = lost[s]
                          /\ s \in todo' <=> s \in todo
  PROVE  FanInv'
  <1>1. QueueContiguous'
    BY DEF FanInv, QueueContiguous
  <1>2. Begun' = Begun /\ Begun \in Nat
    BY BegunType DEF FanInv, Begun
  <1>3. ASSUME NEW s \in live' PROVE Fan(s)'
    <2>1. s \in Session /\ Fan(s)
      BY DEF FanInv, TypeInv, TypeOK, LTypeOK
    <2>2. End(s)' = End(s)
      BY <1>2 DEF End
    <2> QED
      BY <1>2, <2>1, <2>2, FanKeeps
  <1> QED
    BY <1>1, <1>3 DEF FanInv

\* A step that leaves all of it alone.
LEMMA FanFrame ==
  ASSUME TypeInv, FanInv, UNCHANGED <<sendCount, queueList, lvars, kept, lost>>
  PROVE  FanInv'
  <1>1. WalkInv'
    BY DEF FanInv, WalkInv, NodeHeld, dispatching, lvars
  <1> QED
    BY <1>1, FanSame DEF lvars, dispatching

\* The publisher's steps.
LEMMA FanPub ==
  ASSUME TypeInv, FanInv, PubInitFail \/ PubNext
  PROVE  FanInv'
  <1> USE DEF pubVars, spscVars, lvars
  <1>1. CASE PubInit \/ PubInitFail \/ PubLoop
    BY <1>1, FanFrame DEF PubInit, PubInitFail, PubLoop
  <1>2. CASE PubReadCounter \/ PubReturn \/ \E s \in Session : PubSkip(s)
    <2>1. /\ UNCHANGED <<sendCount, queueList, live, kept, lost>>
          /\ dispatching' = dispatching
      BY <1>2 DEF PubReadCounter, PubReturn, PubSkip, ReadCounter, Return, Skip,
                  dispatching, walking
    <2>2. WalkInv'
      BY <1>2, <2>1 DEF PubReadCounter, PubReturn, PubSkip, ReadCounter, Return, Skip,
                        Unpin, FanInv, WalkInv, NodeHeld, dispatching, walking
    <2>3. \A s \in live : s \in todo' <=> s \in todo
      BY <1>2 DEF PubReadCounter, PubReturn, PubSkip, ReadCounter, Return, Skip,
                  FanInv, WalkInv
    <2> QED
      BY <2>1, <2>2, <2>3, FanSame
  <1>3. ASSUME NEW n \in 0..MaxBatch, PubReceive(n) PROVE FanInv'
    <2>1. /\ UNCHANGED <<lvars, kept, lost>> /\ sendCount' = sendCount + n
          /\ queueList' = queueList \o [i \in 1..n |-> sendCount + i - 1]
      BY <1>3 DEF PubReceive
    <2>2. /\ sendCount \in Nat /\ n \in Nat /\ queueList \in Seq(Frames)
          /\ queueList = <<>>
      BY <1>3, BoundsAssumption
      DEF PubReceive, TypeInv, TypeOK, QueueTypeOK, Frames, Phases
    <2>3. /\ Len(queueList') = n
          /\ \A i \in 1..n : queueList'[i] = sendCount + i - 1
      BY <2>1, <2>2
    <2>4. QueueContiguous'
      BY <2>1, <2>2, <2>3 DEF QueueContiguous
    <2>5. Begun' = Begun /\ Begun \in Nat
      <3>1. ~dispatching /\ ~dispatching'
        BY <1>3, <2>1 DEF PubReceive, TypeInv, Phases, dispatching
      <3> QED
        BY <2>1, <2>2, <2>3, <3>1 DEF Begun
    <2>6. ASSUME NEW s \in live' PROVE Fan(s)'
      <3>1. s \in Session /\ Fan(s)
        BY <2>1 DEF FanInv, TypeInv, TypeOK, LTypeOK
      <3>2. End(s)' = End(s)
        BY <2>1, <2>5 DEF End
      <3> QED
        BY <2>1, <2>5, <3>1, <3>2, FanKeeps
    <2>7. WalkInv'
      BY <2>1 DEF FanInv, WalkInv, NodeHeld, dispatching
    <2> QED
      BY <2>4, <2>6, <2>7 DEF FanInv
  <1>4. CASE PubBegin
    <2>1. /\ UNCHANGED <<sendCount, queueList, live, pinned, kept, lost>>
          /\ todo' = live /\ ~dispatching /\ dispatching'
      BY <1>4 DEF PubBegin, BeginDispatch, dispatching
    <2>2. QueueContiguous' /\ WalkInv'
      BY <2>1 DEF FanInv, QueueContiguous, WalkInv, NodeHeld
    <2>3. Begun \in Nat /\ Begun' = Begun + 1
      <3>1. sendCount \in Nat /\ Len(queueList) \in Nat
        BY BoundsAssumption DEF TypeInv, TypeOK, QueueTypeOK, Frames
      <3> QED
        BY <2>1, <3>1, BegunType DEF FanInv, Begun
    <2>4. ASSUME NEW s \in live' PROVE Fan(s)'
      <3>1. s \in Session /\ Fan(s) /\ s \notin todo
        BY <2>1 DEF FanInv, WalkInv, TypeInv, TypeOK, LTypeOK
      <3>2. End(s)' = End(s)
        BY <2>1, <2>3, <3>1 DEF End
      <3> QED
        BY <2>1, <2>3, <3>1, <3>2, FanKeeps
    <2> QED
      BY <2>2, <2>4 DEF FanInv
  <1>5. CASE PubEnd
    <2>1. /\ UNCHANGED <<sendCount, live, kept, lost>> /\ queueList' = Tail(queueList)
          /\ pinned' = {} /\ todo = {} /\ todo' = {} /\ dispatching /\ ~dispatching'
      BY <1>5 DEF PubEnd, EndDispatch, dispatching, walking
    <2>2. /\ queueList \in Seq(Frames) /\ queueList # <<>> /\ sendCount \in Nat
      BY <2>1, BoundsAssumption DEF TypeInv, TypeOK, QueueTypeOK, Phases, Frames
    <2>3. /\ Len(queueList') = Len(queueList) - 1 /\ Len(queueList) \in Nat
          /\ \A i \in 1..(Len(queueList) - 1) : queueList'[i] = queueList[i + 1]
      BY <2>1, <2>2
    <2>4. QueueContiguous'
      BY <2>1, <2>2, <2>3 DEF FanInv, QueueContiguous
    <2>5. WalkInv'
      BY <2>1 DEF WalkInv
    <2>6. Begun' = Begun /\ Begun \in Nat
      BY <2>1, <2>2, <2>3, BegunType DEF FanInv, Begun
    <2>7. ASSUME NEW s \in live' PROVE Fan(s)'
      <3>1. s \in Session /\ Fan(s)
        BY <2>1 DEF FanInv, TypeInv, TypeOK, LTypeOK
      <3>2. End(s)' = End(s)
        BY <2>1, <2>6 DEF End
      <3> QED
        BY <2>1, <2>6, <3>1, <3>2, FanKeeps
    <2> QED
      BY <2>4, <2>5, <2>7 DEF FanInv
  <1>6. ASSUME NEW l \in Session, PubVisit(l) PROVE FanInv'
    <2>1. /\ UNCHANGED <<sendCount, queueList, live, pinned, walk>>
          /\ l \in todo /\ todo' = todo \ {l}
      BY <1>6 DEF PubVisit, Visit
    <2>2. QueueContiguous' /\ WalkInv'
      BY <2>1 DEF FanInv, QueueContiguous, WalkInv, NodeHeld, dispatching
    <2>3. Begun' = Begun /\ Begun \in Nat
      BY <2>1, BegunType DEF FanInv, Begun, dispatching
    <2>4. ASSUME NEW s \in live' PROVE Fan(s)'
      <3>1. s \in Session /\ Fan(s)
        BY <2>1 DEF FanInv, TypeInv, TypeOK, LTypeOK
      <3>2. CASE s = l
        BY <1>6, <2>1, <3>1, <3>2, FanVisit DEF FanInv
      <3>3. CASE s # l
        <4>1. End(s)' = End(s)
          BY <2>1, <2>3, <3>3 DEF End
        <4>2. kept'[s] = kept[s] /\ lost'[s] = lost[s]
          <5>1. kept \in [Session -> Seq(Frames)] /\ lost \in [Session -> SUBSET Frames]
            BY DEF TypeInv, TypeOK, SpscTypeOK
          <5>2. CASE Len(spsc[l]) < SpscCapacity
            BY <1>6, <3>1, <3>3, <5>1, <5>2 DEF PubVisit, consumeCanObjHandler
          <5>3. CASE ~(Len(spsc[l]) < SpscCapacity)
            BY <1>6, <3>1, <3>3, <5>1, <5>3 DEF PubVisit, consumeCanObjHandler
          <5> QED
            BY <5>2, <5>3
        <4> QED
          BY <2>3, <3>1, <4>1, <4>2, FanKeeps
      <3> QED
        BY <3>2, <3>3
    <2> QED
      BY <2>2, <2>4 DEF FanInv
  <1> QED
    BY <1>1, <1>2, <1>3, <1>4, <1>5, <1>6 DEF PubNext

\* The steps of main() and of a handler that is running; when main() destroys
\* the list, no walk is under way.
LEMMA FanMain ==
  ASSUME TypeInv, HandlerInv, FanInv, MainNext
  PROVE  FanInv'
  <1> USE DEF pubVars, spscVars, lvars
  <1>1. CASE MainJoin
    <2>1. /\ UNCHANGED <<sendCount, queueList, pinned, todo, walk, kept, lost>>
          /\ live' = {} /\ ~dispatching
      BY <1>1 DEF MainJoin, TypeInv, Phases
    <2>2. WalkInv'
      BY <2>1 DEF FanInv, WalkInv, NodeHeld, dispatching
    <2> QED
      BY <2>1, <2>2, FanSame DEF dispatching
  <1>2. CASE \/ MainBindFail \/ LeaveScope
             \/ \E s \in Session : MainStart(s) \/ TransposePop(s) \/ TransposeEnd(s)
    BY <1>2, FanFrame DEF MainBindFail, LeaveScope, MainStart, TransposePop, TransposeEnd
  <1> QED
    BY <1>1, <1>2 DEF MainNext

\* A session joins with an empty interval, or leaves after a failed write.
LEMMA FanIo ==
  ASSUME TypeInv, HandlerInv, FanInv, IoNext
  PROVE  FanInv'
  <1> USE DEF pubVars, spscVars, lvars
  <1>1. CASE AcceptErr \/ Signal \/ \E s \in Session : TimerFires(s) \/ WriteOk(s)
    BY <1>1, FanFrame DEF AcceptErr, Signal, TimerFires, WriteOk
  <1>2. ASSUME NEW l \in Session, AcceptOk(l) PROVE FanInv'
    <2>1. /\ UNCHANGED <<sendCount, queueList, pinned>> /\ live' = live \cup {l}
          /\ l \notin NodeHeld /\ dispatching' = dispatching
          /\ todo' = todo \/ (dispatching /\ todo' = todo \cup {l})
      BY <1>2 DEF AcceptOk, AppendListener, dispatching
    <2>2. /\ kept'[l] = <<>> /\ lost'[l] = {}
          /\ \A s \in Session \ {l} : kept'[s] = kept[s] /\ lost'[s] = lost[s]
      BY <1>2 DEF AcceptOk, TypeInv, TypeOK, SpscTypeOK
    <2>3. QueueContiguous'
      BY <2>1 DEF FanInv, QueueContiguous
    <2>4. WalkInv'
      BY <2>1 DEF FanInv, WalkInv, NodeHeld
    <2>5. Begun' = Begun /\ Begun \in Nat
      BY <2>1, BegunType DEF FanInv, Begun
    <2>6. ASSUME NEW s \in live' PROVE Fan(s)'
      <3>1. CASE s = l
        <4>1. End(s)' <= Begun' /\ End(s)' \in Int
          BY <2>5 DEF End
        <4>2. Range(kept'[s]) = {} /\ Len(kept'[s]) = 0 /\ lost'[s] = {}
          BY <2>2, <3>1 DEF Range
        <4>3. {f \in Begun'..MaxFrames : f < End(s)'} = {}
          BY <2>5, <4>1, BoundsAssumption
        <4> QED
          BY <2>5, <4>2, <4>3 DEF Fan
      <3>2. CASE s # l
        <4>1. s \in Session /\ Fan(s)
          BY <2>1, <3>2 DEF FanInv, TypeInv, TypeOK, LTypeOK
        <4>2. End(s)' = End(s)
          BY <2>1, <2>5, <3>2 DEF End
        <4> QED
          BY <2>2, <2>5, <3>2, <4>1, <4>2, FanKeeps
      <3> QED
        BY <3>1, <3>2
    <2> QED
      BY <2>3, <2>4, <2>6 DEF FanInv
  <1>3. ASSUME NEW l \in Session, NEW n \in 0..(TxBatch - 1), WriteErr(l, n)
        PROVE  FanInv'
    <2>1. UNCHANGED <<sendCount, queueList, kept, lost>>
      BY <1>3 DEF WriteErr
    <2>2. l \in live
      BY <1>3, BoundsAssumption
      DEF WriteErr, IoIdle, HandlerInv, OneHandlerInFlight, TypeInv, TypeOK, SocketTypeOK
    <2>3. RemoveListener(l)
      BY <1>3, <2>2 DEF WriteErr, disconnectToEventqq, NodeHeld
    <2>4. /\ live' = live \ {l} /\ walk' = walk
          /\ \A s \in live' : s \in todo' <=> s \in todo
      BY <2>3 DEF RemoveListener
    <2>5. WalkInv'
      BY <2>3 DEF RemoveListener, FanInv, WalkInv, NodeHeld, dispatching
    <2> QED
      BY <2>1, <2>4, <2>5, FanSame DEF dispatching
  <1> QED
    BY <1>1, <1>2, <1>3 DEF IoNext, WriteFails

\* Every step keeps the intervals.
LEMMA FanNext ==
  ASSUME TypeInv, HandlerInv, FanInv, [Next]_vars
  PROVE  FanInv'
  <1>1. CASE ClientNext \/ UNCHANGED vars
    BY <1>1, FanFrame DEF ClientNext, ClientStall, ClientResume, ClientClose, ClientReset, SetPeer,
                          vars, pubVars, spscVars
  <1> QED
    BY <1>1, FanPub, FanMain, FanIo DEF Next, Finished

\* The invariant is stronger than the property.
LEMMA FanGivesProperty ==
  ASSUME TypeInv, FanInv
  PROVE  FanoutContiguous
  <1>1. Begun \in Nat /\ MaxFrames \in Nat
    BY BegunType, BoundsAssumption DEF FanInv
  <1>2. ASSUME NEW s \in Session, NEW first \in 0..Begun
        PROVE  {f \in first..MaxFrames : f < End(s)}
                 = {f \in first..MaxFrames : IF s \in todo THEN f + 1 < Begun
                                                           ELSE f < Begun}
    BY <1>1 DEF End
  <1>3. live \subseteq Session
    BY DEF TypeInv, TypeOK, LTypeOK
  <1> QED
    BY <1>2, <1>3 DEF FanInv, Fan, FanoutContiguous

\* From the frame at which it joined, every connected session is offered every
\* frame exactly once and in order, whatever sessions join, leave or overflow
\* during the publisher's walk, for any number of sessions, frames and slots.
THEOREM EveryFrameOffered == Spec => []FanoutContiguous
  <1>1. Init => FanInv
    BY FanInit
  <1>2. TypeInv /\ HandlerInv /\ FanInv /\ [Next]_vars => FanInv'
    BY FanNext
  <1>3. TypeInv /\ FanInv => FanoutContiguous
    BY FanGivesProperty
  <1> QED
    BY <1>1, <1>2, <1>3, CoreInvariant, PTL DEF Spec

------------------------------------------------------------------------------
(* The refinement of SessionStream, session by session. *)

\* What a connected session has still to send, as SessionStream counts it.
Backlog(s) == IF s \in live THEN tx[s] \o spsc[s] ELSE <<>>

\* A step of anybody that session s does not notice.
LEMMA StreamStutters ==
  ASSUME NEW s \in Session, s \in live' <=> s \in live, Backlog(s)' = Backlog(s),
         sent'[s] = sent[s]
  PROVE  [Stream(s)!SNext]_(Stream(s)!svars)
  <1>1. (s \in live') = (s \in live)
    OBVIOUS
  <1> QED
    BY <1>1 DEF Stream!svars, Backlog

\* A step that leaves everything of session s alone.
LEMMA StreamIdle ==
  ASSUME NEW s \in Session, s \in live' <=> s \in live,
         tx'[s] = tx[s], spsc'[s] = spsc[s], sent'[s] = sent[s]
  PROVE  [Stream(s)!SNext]_(Stream(s)!svars)
  BY StreamStutters DEF Backlog

\* The session is started for a client.
LEMMA StreamOpens ==
  ASSUME NEW s \in Session, s \notin live, s \in live', Backlog(s)' = <<>>,
         sent'[s] = <<>>
  PROVE  [Stream(s)!SNext]_(Stream(s)!svars)
  <1>1. (s \in live') = TRUE
    OBVIOUS
  <1>2. Stream(s)!Open
    BY <1>1 DEF Stream!Open, Backlog
  <1> QED
    BY <1>2 DEF Stream!SNext

\* The publisher hands it frame f.
LEMMA StreamOffered ==
  ASSUME NEW s \in Session, NEW f \in Frames, s \in live, s \in live',
         \A i \in 1..Len(sent[s] \o Backlog(s)) : (sent[s] \o Backlog(s))[i] < f,
         \/ Backlog(s)' = Append(Backlog(s), f)
         \/ Len(Backlog(s)) >= SpscCapacity /\ Backlog(s)' = Backlog(s),
         sent'[s] = sent[s]
  PROVE  [Stream(s)!SNext]_(Stream(s)!svars)
  <1>1. (s \in live') = (s \in live)
    OBVIOUS
  <1>2. Stream(s)!Offer(f)
    BY <1>1 DEF Stream!Offer, Backlog
  <1> QED
    BY <1>2 DEF Stream!SNext

\* The connection takes n lines.
LEMMA StreamWrites ==
  ASSUME NEW s \in Session, NEW n \in 1..TxBatch, s \in live, s \in live',
         n <= Len(Backlog(s)),
         sent'[s] = sent[s] \o SubSeq(Backlog(s), 1, n),
         Backlog(s)' = SubSeq(Backlog(s), n + 1, Len(Backlog(s)))
  PROVE  [Stream(s)!SNext]_(Stream(s)!svars)
  <1>1. (s \in live') = (s \in live)
    OBVIOUS
  <1>2. Stream(s)!Write(n)
    BY <1>1 DEF Stream!Write, Stream!Take, Backlog
  <1> QED
    BY <1>2 DEF Stream!SNext

\* The connection ends after n lines.
LEMMA StreamBreaks ==
  ASSUME NEW s \in Session, NEW n \in 0..TxBatch, s \in live, s \notin live',
         n <= Len(Backlog(s)), sent'[s] = sent[s] \o SubSeq(Backlog(s), 1, n)
  PROVE  [Stream(s)!SNext]_(Stream(s)!svars)
  <1>1. (s \in live') = FALSE
    OBVIOUS
  <1>2. Stream(s)!Break(n)
    BY <1>1 DEF Stream!Break, Stream!Take, Backlog
  <1> QED
    BY <1>2 DEF Stream!SNext

\* A write that takes n lines of the transmit buffer takes the first n of what
\* is buffered, and one that takes them all leaves the queue.
LEMMA TakeOfBuffer ==
  ASSUME NEW q \in Seq(Frames), NEW r \in Seq(Frames), NEW n \in 0..Len(q)
  PROVE  /\ SubSeq(q \o r, 1, n) = SubSeq(q, 1, n)
         /\ n <= Len(q \o r)
         /\ SubSeq(q \o r, Len(q) + 1, Len(q \o r)) = r
  <1>1. /\ SubSeq(q \o r, 1, n) \in Seq(Frames) /\ SubSeq(q, 1, n) \in Seq(Frames)
        /\ Len(SubSeq(q \o r, 1, n)) = n /\ Len(SubSeq(q, 1, n)) = n
        /\ \A i \in 1..n : SubSeq(q \o r, 1, n)[i] = SubSeq(q, 1, n)[i]
    OBVIOUS
  <1>2. SubSeq(q \o r, 1, n) = SubSeq(q, 1, n)
    BY <1>1, SeqEqual
  <1> DEFINE t == SubSeq(q \o r, Len(q) + 1, Len(q \o r))
  <1>3. t \in Seq(Frames) /\ Len(t) = Len(r) /\ \A i \in 1..Len(r) : t[i] = r[i]
    OBVIOUS
  <1>4. t = r
    BY <1>3, SeqEqual
  <1> QED
    BY <1>2, <1>4

\* A frame pushed to the queue is the last of the backlog.
LEMMA PushAtEnd ==
  ASSUME NEW b \in Seq(Frames), NEW c \in Seq(Frames), NEW x \in Frames
  PROVE  b \o Append(c, x) = Append(b \o c, x)
  OBVIOUS

\* What was sent, then what is buffered.
LEMMA ThreeParts ==
  ASSUME NEW a \in Seq(Frames), NEW b \in Seq(Frames), NEW c \in Seq(Frames)
  PROVE  a \o (b \o c) = a \o b \o c
  <1>1. /\ Len(a \o (b \o c)) = Len(a \o b \o c)
        /\ \A i \in 1..Len(a \o b \o c) : (a \o (b \o c))[i] = (a \o b \o c)[i]
    BY SMTT(30)
  <1> QED
    BY <1>1, SeqEqual

\* Only the visited session notices a visit: it is offered the frame in hand,
\* newer than all it had; a session that was removed a moment ago is offered
\* it in vain.
LEMMA StreamVisit ==
  ASSUME TypeInv, StreamInv, FanInv, NEW l \in Session, PubVisit(l), NEW s \in Session
  PROVE  [Stream(s)!SNext]_(Stream(s)!svars)
  <1> DEFINE x == Head(queueList)
  <1>1. /\ tx[s] \in Seq(Frames) /\ spsc \in [Session -> Seq(Frames)]
        /\ sent[s] \in Seq(Frames) /\ kept[s] \in Seq(Frames)
    BY DEF TypeInv, TypeOK, SpscTypeOK, SocketTypeOK
  <1>2. UNCHANGED <<live, tx, sent, sendCount, queueList>> /\ l \in todo /\ dispatching
    BY DEF PubVisit, Visit, ioVars, pubVars, walking, dispatching
  <1>3. CASE s # l
    <2>1. spsc'[s] = spsc[s]
      <3>1. CASE Len(spsc[l]) < SpscCapacity
        BY <1>1, <1>3, <3>1 DEF PubVisit, consumeCanObjHandler
      <3>2. CASE ~(Len(spsc[l]) < SpscCapacity)
        BY <3>2 DEF PubVisit, consumeCanObjHandler
      <3> QED
        BY <3>1, <3>2
    <2> QED
      BY <1>2, <2>1, StreamIdle
  <1>4. CASE s = l /\ s \notin live
    BY <1>2, <1>4, StreamStutters DEF Backlog
  <1>5. CASE s = l /\ s \in live
    <2>1. /\ Begun \in Nat /\ Begun <= MaxFrames /\ Begun >= 1 /\ x = Begun - 1
          /\ MaxFrames \in Nat
      BY <1>2, BegunType, BoundsAssumption DEF FanInv
    <2>2. x \in Frames
      BY <2>1 DEF Frames
    <2>3. sent[s] \o Backlog(s) = kept[s]
      <3>1. sent[s] \o tx[s] \o spsc[s] = kept[s]
        BY <1>5 DEF StreamInv, StreamConservation
      <3>2. sent[s] \o (tx[s] \o spsc[s]) = sent[s] \o tx[s] \o spsc[s]
        <4>1. spsc[s] \in Seq(Frames)
          BY <1>1
        <4> QED
          BY <1>1, <4>1, ThreeParts
      <3> QED
        BY <1>5, <3>1, <3>2 DEF Backlog
    <2>4. \A i \in 1..Len(kept[s]) : kept[s][i] < x
      <3>1. \A f \in Range(kept[s]) : f < Begun - 1
        BY <1>2, <1>5 DEF FanInv, Fan, End
      <3>2. \A i \in 1..Len(kept[s]) : kept[s][i] \in Range(kept[s])
        BY <1>1 DEF Range
      <3> QED
        BY <2>1, <3>1, <3>2
    <2>5. \/ Backlog(s)' = Append(Backlog(s), x)
          \/ Len(Backlog(s)) >= SpscCapacity /\ Backlog(s)' = Backlog(s)
      <3>1. CASE Len(spsc[s]) < SpscCapacity
        <4>1. spsc'[s] = Append(spsc[s], x)
          BY <1>1, <1>5, <3>1 DEF PubVisit, consumeCanObjHandler
        <4>2. tx[s] \o Append(spsc[s], x) = Append(tx[s] \o spsc[s], x)
          BY <1>1, <2>2, PushAtEnd, ZenonT(40)
        <4> QED
          BY <1>2, <1>5, <4>1, <4>2 DEF Backlog
      <3>2. CASE ~(Len(spsc[s]) < SpscCapacity)
        <4>1. spsc' = spsc
          BY <1>5, <3>2 DEF PubVisit, consumeCanObjHandler
        <4>2. Len(tx[s] \o spsc[s]) >= SpscCapacity
          BY <1>1, <3>2, BoundsAssumption
        <4> QED
          BY <1>2, <1>5, <4>1, <4>2 DEF Backlog
      <3> QED
        BY <3>1, <3>2
    <2> QED
      BY <1>2, <1>5, <2>2, <2>3, <2>4, <2>5, StreamOffered
  <1> QED
    BY <1>3, <1>4, <1>5

\* The other steps of the publisher are invisible to every session.
LEMMA StreamStepPub ==
  ASSUME TypeInv, StreamInv, FanInv, PubInitFail \/ PubNext, NEW s \in Session
  PROVE  [Stream(s)!SNext]_(Stream(s)!svars)
  <1>1. CASE \E l \in Session : PubVisit(l)
    BY <1>1, StreamVisit
  <1>2. CASE ~\E l \in Session : PubVisit(l)
    <2>1. UNCHANGED <<live, tx, spsc, sent>>
      BY <1>2 DEF PubInitFail, PubNext, PubInit, PubReceive, PubBegin, PubReadCounter,
                  PubReturn, PubSkip, PubEnd, PubLoop, BeginDispatch, ReadCounter,
                  Return, Skip, EndDispatch, lvars, ioVars, spscVars
    <2> QED
      BY <2>1, StreamIdle
  <1> QED
    BY <1>1, <1>2

\* The pop loop moves a frame inside the backlog, and the end of the process
\* breaks every connection that is left.
LEMMA StreamStepMain ==
  ASSUME TypeInv, HandlerInv, MainNext, NEW s \in Session
  PROVE  [Stream(s)!SNext]_(Stream(s)!svars)
  <1> USE DEF lvars, ioVars, spscVars
  <1>1. /\ tx \in [Session -> Seq(Frames)] /\ spsc \in [Session -> Seq(Frames)]
        /\ sent[s] \in Seq(Frames)
    BY DEF TypeInv, TypeOK, SpscTypeOK, SocketTypeOK
  <1>2. CASE MainJoin
    <2>1. UNCHANGED <<tx, spsc, sent>> /\ live' = {}
      BY <1>2 DEF MainJoin
    <2>2. CASE s \in live
      <3>1. Backlog(s) \in Seq(Frames)
        BY <1>1 DEF Backlog
      <3>2. 0 <= Len(Backlog(s)) /\ SubSeq(Backlog(s), 1, 0) = <<>>
        BY <3>1
      <3>3. sent'[s] = sent[s] \o SubSeq(Backlog(s), 1, 0)
        BY <1>1, <2>1, <3>2
      <3>4. 0 \in 0..TxBatch /\ s \notin live'
        BY <2>1, BoundsAssumption
      <3> QED
        BY <2>2, <3>2, <3>3, <3>4, StreamBreaks
    <2>3. CASE s \notin live
      BY <2>1, <2>3, StreamIdle
    <2> QED
      BY <2>2, <2>3
  <1>3. ASSUME NEW l \in Session, TransposePop(l)
        PROVE  [Stream(s)!SNext]_(Stream(s)!svars)
    <2>1. UNCHANGED <<live, sent>>
      BY <1>3 DEF TransposePop
    <2>2. CASE s = l
      <3>1. tx'[s] = Append(tx[s], Head(spsc[s])) /\ spsc'[s] = Tail(spsc[s])
        BY <1>1, <1>3, <2>2 DEF TransposePop
      <3>2. spsc[s] # <<>> /\ tx[s] \in Seq(Frames) /\ spsc[s] \in Seq(Frames)
        BY <1>1, <1>3, <2>2 DEF TransposePop
      <3>3. <<>> \o Append(tx[s], Head(spsc[s])) \o Tail(spsc[s]) = <<>> \o tx[s] \o spsc[s]
        <4>1. <<>> \in Seq(Frames)
          OBVIOUS
        <4> QED
          BY <3>2, <4>1, MoveHead
      <3>4. /\ <<>> \o tx[s] = tx[s]
            /\ <<>> \o Append(tx[s], Head(spsc[s])) = Append(tx[s], Head(spsc[s]))
        BY <3>2
      <3>5. Backlog(s)' = Backlog(s)
        BY <2>1, <3>1, <3>3, <3>4 DEF Backlog
      <3> QED
        BY <2>1, <3>5, StreamStutters
    <2>3. CASE s # l
      <3>1. tx'[s] = tx[s] /\ spsc'[s] = spsc[s]
        BY <1>1, <1>3, <2>3 DEF TransposePop
      <3> QED
        BY <2>1, <3>1, StreamIdle
    <2> QED
      BY <2>2, <2>3
  <1>4. CASE \/ MainBindFail \/ LeaveScope
             \/ \E l \in Session : MainStart(l) \/ TransposeEnd(l)
    <2>1. UNCHANGED <<live, tx, spsc, sent>>
      BY <1>4 DEF MainBindFail, LeaveScope, MainStart, TransposeEnd
    <2> QED
      BY <2>1, StreamIdle
  <1> QED
    BY <1>2, <1>3, <1>4 DEF MainNext

\* handleWrite, for the session l that wrote: without an error the whole
\* transmit buffer went out, with one the session ends after n lines.
LEMMA StreamWritten ==
  ASSUME TypeInv, HandlerInv, StreamInv, NEW l \in Session, IoIdle, wr[l] > 0,
         NEW n \in 0..wr[l], Written(l, n), UNCHANGED spsc,
         \/ live' = live /\ n = wr[l]
         \/ live' = live \ {l},
         NEW s \in Session
  PROVE  [Stream(s)!SNext]_(Stream(s)!svars)
  <1>1. /\ tx \in [Session -> Seq(Frames)] /\ spsc[s] \in Seq(Frames)
        /\ sent \in [Session -> Seq(Frames)] /\ tx[s] \in Seq(Frames)
        /\ wr \in [Session -> Nat]
    BY DEF TypeInv, TypeOK, SpscTypeOK, SocketTypeOK
  <1>2. CASE s # l
    <2>1. tx'[s] = tx[s] /\ sent'[s] = sent[s]
      BY <1>1, <1>2 DEF Written
    <2> QED
      BY <1>2, <2>1, StreamIdle
  <1>3. CASE s = l
    <2>1. /\ s \in live /\ wr[s] = Len(tx[s]) /\ Len(tx[s]) <= TxBatch
          /\ Len(tx[s]) \in Nat /\ n \in 0..Len(tx[s])
      <3>1. s \in live
        BY <1>1, <1>3 DEF IoIdle, HandlerInv, OneHandlerInFlight
      <3>2. wr[s] = Len(tx[s])
        BY <1>1, <1>3 DEF HandlerInv, WriteInBuffer
      <3> QED
        BY <1>1, <1>3, <3>1, <3>2 DEF StreamInv, BufferInv
    <2>2. /\ sent'[s] = sent[s] \o SubSeq(tx[s], 1, n)
          /\ tx'[s] = Consume(Consume(tx[s], n), n)
      BY <1>1, <1>3 DEF Written
    <2>3. Backlog(s) = tx[s] \o spsc[s]
      BY <2>1 DEF Backlog
    <2>4. /\ SubSeq(Backlog(s), 1, n) = SubSeq(tx[s], 1, n) /\ n <= Len(Backlog(s))
          /\ SubSeq(Backlog(s), Len(tx[s]) + 1, Len(Backlog(s))) = spsc[s]
      BY <1>1, <2>1, <2>3, TakeOfBuffer, SMTT(30)
    <2>5. CASE live' = live /\ n = wr[l]
      <3>1. n = Len(tx[s]) /\ n \in 1..TxBatch
        BY <1>3, <2>1, <2>5, BoundsAssumption
      <3>2. tx'[s] = <<>>
        BY <1>1, <2>2, <3>1, ConsumeAll
      <3>3. Backlog(s)' = SubSeq(Backlog(s), n + 1, Len(Backlog(s)))
        BY <1>1, <2>1, <2>4, <2>5, <3>1, <3>2 DEF Backlog
      <3> QED
        BY <2>1, <2>2, <2>4, <2>5, <3>1, <3>3, StreamWrites
    <2>6. CASE live' = live \ {l}
      <3>1. n \in 0..TxBatch
        BY <2>1, BoundsAssumption
      <3> QED
        BY <1>3, <2>1, <2>2, <2>4, <2>6, <3>1, StreamBreaks
    <2> QED
      BY <2>5, <2>6
  <1> QED
    BY <1>2, <1>3

\* The handlers: accepting a client opens a stream, a write takes lines off it.
LEMMA StreamStepIo ==
  ASSUME TypeInv, HandlerInv, StreamInv, IoNext, NEW s \in Session
  PROVE  [Stream(s)!SNext]_(Stream(s)!svars)
  <1> USE DEF lvars, ioVars, spscVars
  <1>1. CASE AcceptErr \/ Signal \/ \E l \in Session : TimerFires(l)
    <2>1. UNCHANGED <<live, tx, spsc, sent>>
      BY <1>1 DEF AcceptErr, Signal, TimerFires
    <2> QED
      BY <2>1, StreamIdle
  <1>2. ASSUME NEW l \in Session, AcceptOk(l) PROVE [Stream(s)!SNext]_(Stream(s)!svars)
    <2>1. /\ tx \in [Session -> Seq(Frames)] /\ spsc \in [Session -> Seq(Frames)]
          /\ sent \in [Session -> Seq(Frames)]
      BY DEF TypeInv, TypeOK, SpscTypeOK, SocketTypeOK
    <2>2. live' = live \cup {l} /\ l \notin live
      BY <1>2 DEF AcceptOk, AppendListener, NodeHeld
    <2>3. CASE s = l
      <3>1. tx'[s] = <<>> /\ spsc'[s] = <<>> /\ sent'[s] = <<>>
        BY <1>2, <2>1, <2>3 DEF AcceptOk
      <3>2. Backlog(s)' = <<>>
        BY <3>1 DEF Backlog
      <3> QED
        BY <2>2, <2>3, <3>1, <3>2, StreamOpens
    <2>4. CASE s # l
      <3>1. tx'[s] = tx[s] /\ spsc'[s] = spsc[s] /\ sent'[s] = sent[s]
        BY <1>2, <2>1, <2>4 DEF AcceptOk
      <3> QED
        BY <2>2, <2>4, <3>1, StreamIdle
    <2> QED
      BY <2>3, <2>4
  <1>3. \A l \in Session : wr[l] \in Nat
    BY DEF TypeInv, TypeOK, SocketTypeOK
  <1>4. ASSUME NEW l \in Session, WriteOk(l) PROVE [Stream(s)!SNext]_(Stream(s)!svars)
    <2>1. wr[l] \in 0..wr[l]
      BY <1>3
    <2>2. IoIdle /\ wr[l] > 0 /\ Written(l, wr[l]) /\ UNCHANGED <<spsc, live>>
      BY <1>4 DEF WriteOk
    <2> QED
      BY <2>1, <2>2, StreamWritten
  <1>5. ASSUME NEW l \in Session, NEW n \in 0..(TxBatch - 1), WriteErr(l, n)
        PROVE  [Stream(s)!SNext]_(Stream(s)!svars)
    <2>1. wr[l] > 0 /\ n \in 0..wr[l]
      BY <1>3, <1>5, BoundsAssumption DEF WriteErr
    <2>2. IoIdle /\ Written(l, n) /\ UNCHANGED spsc
      BY <1>5 DEF WriteErr
    <2>3. l \in live
      BY <1>3, <2>1, <2>2 DEF IoIdle, HandlerInv, OneHandlerInFlight
    <2>4. live' = live \ {l}
      BY <1>5, <2>3 DEF WriteErr, disconnectToEventqq, NodeHeld, RemoveListener
    <2> QED
      BY <2>1, <2>2, <2>4, StreamWritten
  <1> QED
    BY <1>1, <1>2, <1>4, <1>5 DEF IoNext, WriteFails

\* Every session implements SessionStream: whatever the publisher, the handlers
\* of this session and the other sessions do, the frames offered to it reach
\* its connection in order, each once, dropped only by a full queue, at most
\* one batch in a write, and nothing goes out after the connection broke; for
\* any number of sessions, frames and slots.
THEOREM SessionImplementsStream == Spec => ImplementsStream
  <1> DEFINE Step == \A s \in Session : [Stream(s)!SNext]_(Stream(s)!svars)
  <1>1. Init => \A s \in Session : Stream(s)!SInit
    <2> SUFFICES ASSUME Init, NEW s \in Session PROVE Stream(s)!SInit
      OBVIOUS
    <2>1. (s \in live) = FALSE /\ sent[s] = <<>>
      BY DEF Init, LInit
    <2> QED
      BY <2>1 DEF Stream!SInit
  <1>2. TypeInv /\ HandlerInv /\ StreamInv /\ FanInv /\ [Next]_vars => [Step]_vars
    <2> SUFFICES ASSUME TypeInv, HandlerInv, StreamInv, FanInv, [Next]_vars,
                        NEW s \in Session
                 PROVE  [Stream(s)!SNext]_(Stream(s)!svars)
      BY Zenon
    <2>1. CASE ClientNext \/ UNCHANGED vars
      <3>1. UNCHANGED <<live, tx, spsc, sent>>
        BY <2>1 DEF ClientNext, ClientStall, ClientResume, ClientClose, ClientReset, SetPeer, vars,
                    lvars, ioVars, spscVars
      <3> QED
        BY <3>1, StreamIdle
    <2> QED
      BY <2>1, StreamStepPub, StreamStepMain, StreamStepIo DEF Next, Finished
  <1>3. Init => FanInv
    BY FanInit
  <1>4. TypeInv /\ HandlerInv /\ FanInv /\ [Next]_vars => FanInv'
    BY FanNext
  <1> QED
    BY <1>1, <1>2, <1>3, <1>4, CoreInvariant, StreamInvariant, PTL
    DEF Spec, ImplementsStream
==============================================================================

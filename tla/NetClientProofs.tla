--------------------------- MODULE NetClientProofs ---------------------------
(***************************************************************************)
(* Control of NetClient: which handlers may wait, what a result that waits *)
(* says of the connection, the line or the buffer, and from that the       *)
(* safety properties of the calls and the contract NetPort, for any        *)
(* number of frames and lines and any len.                                 *)
(***************************************************************************)
EXTENDS NetClient, WellOrder, SequenceTheorems, FiniteSetTheorems, TLAPS

------------------------------------------------------------------------------
(* The inductive invariant. *)

Up == {"up", "fin", "reset"}

\* The elements of a queue, and that none is in it twice.
Elems(q)    == {q[i] : i \in 1..Len(q)}
Distinct(q) == \A i, j \in 1..Len(q) : q[i] = q[j] => i = j

\* The handlers that wait in the io_context.
Waiting == Elems(ready)

\* At most the timer's handler and one result wait, each once, and not one of
\* an operation or a timer that is still outstanding.
QueueInv ==
  /\ Distinct(ready)
  /\ \A r, s \in Waiting \ {"timer"} : r = s
  /\ timer => "timer" \notin Waiting
  /\ op => Waiting \subseteq {"timer"}
  /\ fn = "idle" => ~op /\ ~timer /\ ready = <<>>

\* The result of the operation has been handled.
Handled == ~op /\ Waiting \subseteq {"timer"}

\* Where the call is, and what it found when it began.
CallInv ==
  /\ (call = "none") = (fn = "idle")
  /\ (call = "Receive") = (fn = "read")
  /\ fn = "connect" => call = "Open" /\ ~connected
  /\ fn \in {"write", "read"} => connected
  /\ (connected \/ fn # "idle") => addr

\* connect(): a result "ok", be it waiting or handled, means a connection.
SockInv ==
  /\ connected => sock \in Up
  /\ sock \notin Up => inflight = <<>>
  /\ fn = "connect" => /\ op => sock = "open"
                       /\ "ok" \in Waiting => sock \in Up
                       /\ (Handled /\ ec = "ok") => sock \in Up

\* write_line(): a result "ok" means that the kernel has the whole line.
WriteInv ==
  /\ fn = "connect" => want = 1 /\ line = 0 /\ whole = 0
  /\ fn = "write" =>
       /\ line < want
       /\ call # "Transmit" => want = 1
       /\ whole \in {line, line + 1}
       /\ op => taken < 2 /\ whole = line
       /\ ("ok" \in Waiting \/ (Handled /\ ec = "ok")) => taken = 2 /\ whole = line + 1
  /\ (call \in {"none", "Receive"} /\ res = "OK") => whole = want /\ line = want

\* VCI_Receive: an outstanding read has looked for a line and found none, a
\* result "ok" that waits has found one, and each has an element to go to.
ReadInv ==
  /\ slots <= cnt /\ cnt <= len
  /\ fn = "read" =>
       /\ op => ~HasLine(rx) /\ cnt < len
       /\ "ok" \in Waiting => HasLine(rx) /\ cnt < len
       /\ (~op /\ "ok" \notin Waiting) => (HasLine(rx) => cnt >= len)

\* A line that was cut and its connection.
TornInv == (sock \in Up /\ torn) => txFailed

ClientInv ==
  NetTypeOK /\ QueueInv /\ CallInv /\ SockInv /\ WriteInv /\ ReadInv /\ TornInv

------------------------------------------------------------------------------
(* The queue of the io_context. *)

\* A queue is empty when nothing waits in it.
LEMMA ElemsEmpty ==
  ASSUME NEW S, NEW q \in Seq(S)
  PROVE  (Elems(q) = {}) <=> (q = <<>>)
<1>1. CASE q = <<>>
  BY <1>1 DEF Elems
<1>2. CASE q # <<>>
  <2>1. 1 \in 1..Len(q)
    BY <1>2
  <2> QED BY <1>2, <2>1 DEF Elems
<1> QED BY <1>1, <1>2

\* What waits after a completion is appended.
LEMMA ElemsAppend ==
  ASSUME NEW S, NEW q \in Seq(S), NEW x \in S
  PROVE  /\ Append(q, x) \in Seq(S)
         /\ Elems(Append(q, x)) = Elems(q) \cup {x}
         /\ (Distinct(q) /\ x \notin Elems(q)) => Distinct(Append(q, x))
<1> DEFINE a == Append(q, x)
<1>1. /\ a \in Seq(S) /\ Len(q) \in Nat /\ Len(a) = Len(q) + 1
      /\ a[Len(q) + 1] = x
      /\ \A i \in 1..Len(q) : a[i] = q[i]
  OBVIOUS
<1> HIDE DEF a
<1>2. Elems(a) = Elems(q) \cup {x}
  <2>1. ASSUME NEW e \in Elems(a) PROVE e \in Elems(q) \cup {x}
    BY <1>1, <2>1 DEF Elems
  <2>2. Elems(q) \subseteq Elems(a)
    BY <1>1 DEF Elems
  <2>3. x \in Elems(a)
    BY <1>1 DEF Elems
  <2> QED BY <2>1, <2>2, <2>3
<1>3. ASSUME Distinct(q), x \notin Elems(q) PROVE Distinct(a)
  BY <1>1, <1>3 DEF Distinct, Elems
<1> QED BY <1>1, <1>2, <1>3 DEF a

\* What waits after the first completion is run.
LEMMA ElemsTail ==
  ASSUME NEW S, NEW q \in Seq(S), q # <<>>, Distinct(q)
  PROVE  /\ Tail(q) \in Seq(S) /\ Head(q) \in S
         /\ Head(q) \in Elems(q)
         /\ Elems(Tail(q)) = Elems(q) \ {Head(q)}
         /\ Distinct(Tail(q))
<1> DEFINE t == Tail(q)
<1>1. /\ t \in Seq(S) /\ Len(q) \in Nat \ {0} /\ Len(t) = Len(q) - 1
      /\ Head(q) = q[1] /\ Head(q) \in S
      /\ \A i \in 1..Len(t) : t[i] = q[i + 1]
  OBVIOUS
<1> HIDE DEF t
<1>2. Head(q) \in Elems(q)
  BY <1>1 DEF Elems
<1>3. Elems(t) = Elems(q) \ {Head(q)}
  <2>1. ASSUME NEW e \in Elems(t) PROVE e \in Elems(q) \ {Head(q)}
    <3>1. PICK i \in 1..Len(t) : e = t[i]
      BY <2>1 DEF Elems
    <3>2. e = q[i + 1] /\ i + 1 \in 1..Len(q) /\ 1 \in 1..Len(q) /\ i + 1 # 1
      BY <1>1, <3>1
    <3>3. e # q[1]
      BY <3>2 DEF Distinct
    <3> QED BY <1>1, <3>2, <3>3 DEF Elems
  <2>2. ASSUME NEW e \in Elems(q) \ {Head(q)} PROVE e \in Elems(t)
    <3>1. PICK i \in 1..Len(q) : e = q[i]
      BY <2>2 DEF Elems
    <3>2. i - 1 \in 1..Len(t) /\ t[i - 1] = e
      BY <1>1, <2>2, <3>1
    <3> QED BY <3>2 DEF Elems
  <2> QED BY <2>1, <2>2
<1>4. Distinct(t)
  BY <1>1 DEF Distinct
<1> QED BY <1>1, <1>2, <1>3, <1>4 DEF t

Handlers == Results \cup {"timer"}

\* A call that begins, or goes on, starts an operation with a deadline.
LEMMA StartKeepsQueue ==
  ASSUME ready = <<>>, NEW f \in {"connect", "write", "read"}, StartTimed(f)
  PROVE  QueueInv' /\ Waiting' = {}
<1>1. ready' = <<>> /\ fn' = f /\ Elems(<<>>) = {} /\ Distinct(<<>>)
  BY DEF StartTimed, Elems, Distinct
<1> QED BY <1>1 DEF QueueInv, Waiting

\* An outstanding operation ends.
LEMMA CompleteKeepsQueue ==
  ASSUME NetTypeOK, QueueInv, op, fn' = fn, NEW r \in Results, Complete(r)
  PROVE  QueueInv' /\ Waiting' = Waiting \cup {r} /\ ready' \in Seq(Handlers)
<1>1. ready \in Seq(Handlers) /\ r \in Handlers /\ r # "timer"
  BY DEF NetTypeOK, Handlers, Results
<1>2. Waiting \subseteq {"timer"} /\ Distinct(ready) /\ r \notin Elems(ready)
  BY <1>1 DEF QueueInv, Waiting
<1>3. /\ Waiting' = Waiting \cup {r} /\ Distinct(ready)' /\ ready' \in Seq(Handlers)
  BY <1>1, <1>2, ElemsAppend DEF Complete, Waiting
<1>4. op' = FALSE /\ timer' = timer
  BY DEF Complete
<1>5. timer' => "timer" \notin Waiting'
  BY <1>1, <1>3, <1>4 DEF QueueInv
<1>6. \A a, b \in Waiting' \ {"timer"} : a = b
  BY <1>2, <1>3
<1> QED BY <1>3, <1>4, <1>5, <1>6 DEF QueueInv

\* A handler runs and cancels no operation.
LEMMA HandleKeepsQueue ==
  ASSUME NetTypeOK, QueueInv, ready # <<>>, fn' = fn, ready' = Tail(ready),
         op' = op, timer' => timer
  PROVE  /\ QueueInv' /\ Waiting' = Waiting \ {Head(ready)} /\ Head(ready) \in Waiting
         /\ ready' \in Seq(Handlers)
<1>1. ready \in Seq(Handlers) /\ Distinct(ready)
  BY DEF NetTypeOK, Handlers, QueueInv
<1>2. /\ Waiting' = Waiting \ {Head(ready)} /\ Head(ready) \in Waiting
      /\ Distinct(ready)' /\ ready' \in Seq(Handlers)
  BY <1>1, ElemsTail DEF Waiting
<1> QED BY <1>2 DEF QueueInv

\* The timer's handler cancels what is outstanding.
LEMMA CancelKeepsQueue ==
  ASSUME NetTypeOK, QueueInv, ready # <<>>, Head(ready) = "timer", fn' = fn,
         timer' = timer, CancelSocket
  PROVE  /\ QueueInv' /\ "timer" \in Waiting
         /\ Waiting' = (Waiting \ {"timer"}) \cup (IF op THEN {"aborted"} ELSE {})
         /\ ready' \in Seq(Handlers)
<1>1. ready \in Seq(Handlers) /\ Distinct(ready)
  BY DEF NetTypeOK, Handlers, QueueInv
<1>2. /\ Tail(ready) \in Seq(Handlers)
      /\ Elems(Tail(ready)) = Waiting \ {"timer"} /\ "timer" \in Waiting
      /\ Distinct(Tail(ready))
  BY <1>1, ElemsTail DEF Waiting
<1>3. ~timer /\ op' = FALSE
  BY <1>2 DEF QueueInv, CancelSocket
<1>4. CASE ~op
  BY <1>2, <1>3, <1>4 DEF CancelSocket, QueueInv, Waiting
<1>5. CASE op
  <2>1. Elems(Tail(ready)) = {} /\ "aborted" \in Handlers
    BY <1>2, <1>5 DEF QueueInv, Handlers, Results
  <2>2. ready' = Append(Tail(ready), "aborted")
    BY <1>5 DEF CancelSocket
  <2> DEFINE t == Tail(ready)
  <2>3. t \in Seq(Handlers) /\ Elems(t) = {} /\ Distinct(t)
    BY <1>2, <2>1
  <2> HIDE DEF t
  <2>4. /\ Elems(Append(t, "aborted")) = {"aborted"}
        /\ Distinct(Append(t, "aborted")) /\ Append(t, "aborted") \in Seq(Handlers)
    BY <2>1, <2>3, ElemsAppend
  <2>5. Waiting' = {"aborted"} /\ Distinct(ready)' /\ ready' \in Seq(Handlers)
    BY <2>2, <2>4 DEF Waiting, t
  <2> QED BY <1>2, <1>3, <1>5, <2>1, <2>5 DEF QueueInv
<1> QED BY <1>4, <1>5

------------------------------------------------------------------------------
(* The calls. *)

\* The invariant holds for a new object.
LEMMA ClientInit == Init => ClientInv
<1> SUFFICES ASSUME Init PROVE ClientInv
  OBVIOUS
<1> USE ClientBoundsAssumption DEF Init
<1>1. NetTypeOK
  <2>1. 0 \in Chunks /\ 0 \in 0..MaxLines \cup {1} /\ 0 \in 0..0
    BY DEF Chunks
  <2>2. <<>> \in Seq(Chunks) /\ <<>> \in Seq(0..MaxFrames) /\ <<>> \in Seq(Results \cup {"timer"})
    OBVIOUS
  <2>3. "ok" \in Results \cup {"timed_out"} /\ 0 \in 0..MaxFrames /\ 0 \in 0..MaxLen
    BY DEF Results
  <2>4. line \in 0..want /\ whole \in 0..want /\ taken \in 0..2 /\ 0 \in Nat
    OBVIOUS
  <2>5. connected \in BOOLEAN /\ op \in BOOLEAN /\ timer \in BOOLEAN /\ clean \in BOOLEAN
          /\ torn \in BOOLEAN /\ txFailed \in BOOLEAN
    OBVIOUS
  <2> QED BY <2>1, <2>2, <2>3, <2>4, <2>5, Zenon DEF NetTypeOK
<1>2. Waiting = {} /\ QueueInv
  BY DEF QueueInv, Waiting, Elems, Distinct
<1>3. CallInv /\ SockInv /\ WriteInv /\ ReadInv /\ TornInv
  BY DEF CallInv, SockInv, WriteInv, ReadInv, TornInv, Up
<1> QED BY <1>1, <1>2, <1>3 DEF ClientInv

\* A call that does no operation: it is refused, or has nothing to do.
LEMMA ImmediateKeeps ==
  ASSUME ClientInv, addr' = addr,
         OpenUnresolved \/ Refused \/ VCI_Transmit(0)
  PROVE  ClientInv'
<1> USE ClientBoundsAssumption DEF ClientInv
<1>1. /\ call = "none" /\ call' = "none" /\ fn = "idle" /\ fn' = "idle"
      /\ UNCHANGED <<connVars, runVars, taken, rxVars, txFailed>>
      /\ Batch(1) \/ Batch(0)
      /\ res' = "OK" => Batch(0)
  BY DEF OpenUnresolved, Refused, VCI_Transmit, Return, CallInv
<1>2. res' \in {"OK", "ERR", "CONN_FAIL", "THROW"}
  BY DEF OpenUnresolved, Refused, VCI_Transmit, Return
<1> USE DEF connVars, runVars, rxVars, Batch
<1>3. NetTypeOK'
  BY <1>1, <1>2 DEF NetTypeOK
<1>4. Waiting' = Waiting /\ QueueInv'
  BY <1>1 DEF QueueInv, Waiting
<1>5. CallInv' /\ SockInv' /\ ReadInv' /\ TornInv'
  BY <1>1, <1>4 DEF CallInv, SockInv, ReadInv, TornInv
<1>6. WriteInv'
  BY <1>1 DEF WriteInv
<1> QED BY <1>3, <1>4, <1>5, <1>6

\* A call that starts to write on the connection.
LEMMA BeginWriteKeeps ==
  ASSUME ClientInv, addr' = addr, call = "none", connected, NEW n \in 0..MaxLines \cup {1},
         n > 0, Batch(n), write_line, call' \in {"Open", "Close", "Command", "Transmit"},
         call' # "Transmit" => n = 1,
         UNCHANGED <<connVars, rxVars, res, txFailed>>
  PROVE  ClientInv'
<1> USE ClientBoundsAssumption DEF ClientInv
<1>1. ready = <<>> /\ fn' = "write" /\ op' = TRUE /\ timer' = TRUE /\ ec' = "ok" /\ taken' = 0
      /\ ready' = ready
  BY DEF CallInv, QueueInv, write_line, StartTimed
<1>2. QueueInv' /\ Waiting' = {}
  BY <1>1, StartKeepsQueue DEF write_line
<1> USE DEF connVars, rxVars, Batch
<1>3. NetTypeOK'
  BY <1>1 DEF NetTypeOK, Results
<1>4. CallInv' /\ SockInv' /\ ReadInv' /\ TornInv'
  BY <1>1, <1>2 DEF CallInv, SockInv, ReadInv, TornInv
<1>5. WriteInv'
  BY <1>1, <1>2 DEF WriteInv, Handled
<1> QED BY <1>2, <1>3, <1>4, <1>5

\* connect() starts an operation and its deadline.
LEMMA BeginConnectKeeps ==
  ASSUME ClientInv, addr' = addr, VCI_OpenDevice, ~connected
  PROVE  ClientInv'
<1> USE ClientBoundsAssumption DEF ClientInv
<1>1. /\ ready = <<>> /\ StartTimed("connect") /\ addr
      /\ sock' = "open" /\ inflight' = <<>> /\ call' = "Open" /\ Batch(1)
      /\ UNCHANGED <<connected, sendNo, base, clean, torn, taken, rxVars, res, txFailed>>
  BY DEF VCI_OpenDevice, connect, CallInv, QueueInv
<1>2. QueueInv' /\ Waiting' = {}
  BY <1>1, StartKeepsQueue
<1> USE DEF StartTimed, rxVars, Batch
<1>3. NetTypeOK'
  BY <1>1 DEF NetTypeOK, Results
<1>4. CallInv' /\ SockInv' /\ ReadInv' /\ TornInv'
  BY <1>1, <1>2 DEF CallInv, SockInv, ReadInv, TornInv, Up, Handled
<1>5. WriteInv'
  BY <1>1, <1>2 DEF WriteInv
<1> QED BY <1>2, <1>3, <1>4, <1>5

\* VCI_Receive starts the first read.
LEMMA ReceiveKeeps ==
  ASSUME ClientInv, addr' = addr, NEW n \in 0..MaxLen, VCI_Receive(n)
  PROVE  ClientInv'
<1> USE ClientBoundsAssumption DEF ClientInv
<1>1. /\ call = "none" /\ len' = n /\ cnt' = 0 /\ slots' = 0 /\ decoded' = 0
      /\ fn = "idle" /\ ready = <<>> /\ ~op /\ ~timer
      /\ UNCHANGED <<connVars, txVars, rx, got, res, txFailed>>
  BY DEF VCI_Receive, CallInv, QueueInv
<1> USE DEF connVars, txVars
<1>2. CASE ~connected \/ n = 0
  <2>1. UNCHANGED <<call, fn, runVars>>
    BY <1>2 DEF VCI_Receive
  <2>2. NetTypeOK' /\ Waiting' = Waiting /\ QueueInv'
    BY <1>1, <2>1 DEF NetTypeOK, runVars, QueueInv, Waiting
  <2>3. CallInv' /\ SockInv' /\ WriteInv' /\ TornInv' /\ ReadInv'
    BY <1>1, <2>1, <2>2 DEF CallInv, SockInv, WriteInv, ReadInv, TornInv, runVars
  <2> QED BY <2>2, <2>3
<1>3. CASE connected /\ n # 0
  <2>1. /\ call' = "Receive" /\ fn' = "read" /\ ec' = "ok" /\ timer' = TRUE
        /\ op' = ~HasLine(rx)
        /\ ready' = IF HasLine(rx) THEN Append(<<>>, "ok") ELSE <<>>
    BY <1>3 DEF VCI_Receive, async_read
  <2>2. /\ ready' = IF HasLine(rx) THEN <<"ok">> ELSE <<>>
    BY <2>1
  <2>3. Waiting' = IF HasLine(rx) THEN {"ok"} ELSE {}
    BY <2>2 DEF Waiting, Elems
  <2>4. Distinct(ready') /\ ready' \in Seq(Handlers)
    <3>1. Distinct(<<>>) /\ Distinct(<<"ok">>)
      BY DEF Distinct
    <3>2. <<>> \in Seq(Handlers) /\ <<"ok">> \in Seq(Handlers)
      BY DEF Handlers, Results
    <3> QED BY <2>2, <3>1, <3>2
  <2>5. QueueInv'
    BY <2>1, <2>3, <2>4 DEF QueueInv
  <2>6. NetTypeOK'
    BY <1>1, <2>1, <2>4 DEF NetTypeOK, Handlers, Results, HasLine
  <2>7. CallInv' /\ SockInv' /\ WriteInv' /\ TornInv'
    BY <1>1, <1>3, <2>1 DEF CallInv, SockInv, WriteInv, TornInv
  <2>8. ReadInv'
    <3>1. HasLine(rx)' = HasLine(rx) /\ 0 < n
      BY <1>1, <1>3
    <3>2. CASE HasLine(rx)
      <4>1. op' = FALSE /\ "ok" \in Waiting' /\ HasLine(rx)'
        BY <2>1, <2>3, <3>1, <3>2
      <4>2. slots' <= cnt' /\ cnt' <= len' /\ cnt' < len'
        BY <1>1, <3>1
      <4> QED BY <4>1, <4>2 DEF ReadInv
    <3>3. CASE ~HasLine(rx)
      BY <1>1, <1>3, <2>1, <2>3, <3>1, <3>3 DEF ReadInv
    <3> QED BY <3>2, <3>3
  <2> QED BY <2>5, <2>6, <2>7, <2>8
<1> QED BY <1>2, <1>3

\* Every call of the API keeps the invariant.
LEMMA CallsKeep ==
  ASSUME ClientInv, addr' = addr, Calls
  PROVE  ClientInv'
<1>1. CASE VCI_OpenDevice
  <2>1. CASE connected
    <3>1. /\ call = "none" /\ call' = "Open" /\ Batch(1) /\ write_line
          /\ UNCHANGED <<connVars, rxVars, res, txFailed>>
      BY <1>1, <2>1 DEF VCI_OpenDevice
    <3> QED BY <2>1, <3>1, BeginWriteKeeps
  <2>2. CASE ~connected
    BY <1>1, <2>2, BeginConnectKeeps
  <2> QED BY <2>1, <2>2
<1>2. CASE OpenUnresolved \/ Refused
  BY <1>2, ImmediateKeeps
<1>3. ASSUME NEW c \in {"Close", "Command"}, VCI_Command(c) PROVE ClientInv'
  <2>1. /\ call = "none" /\ connected /\ call' = c /\ Batch(1) /\ write_line
        /\ UNCHANGED <<connVars, rxVars, res, txFailed>>
    BY <1>3 DEF VCI_Command
  <2> QED BY <1>3, <2>1, BeginWriteKeeps
<1>4. ASSUME NEW n \in 0..MaxLines, VCI_Transmit(n) PROVE ClientInv'
  <2>1. CASE n = 0
    BY <1>4, <2>1, ImmediateKeeps
  <2>2. CASE n # 0
    <3>1. /\ call = "none" /\ connected /\ call' = "Transmit" /\ Batch(n) /\ write_line
          /\ UNCHANGED <<connVars, rxVars, res, txFailed>>
      BY <1>4, <2>2 DEF VCI_Transmit
    <3>2. n > 0
      BY <2>2, ClientBoundsAssumption
    <3> QED BY <3>1, <3>2, BeginWriteKeeps
  <2> QED BY <2>1, <2>2
<1>5. ASSUME NEW n \in 0..MaxLen, VCI_Receive(n) PROVE ClientInv'
  BY <1>5, ReceiveKeeps
<1> QED BY <1>1, <1>2, <1>3, <1>4, <1>5 DEF Calls

------------------------------------------------------------------------------
(* The handlers. *)

\* The type invariant of a step that changes nothing but the io_context.
LEMMA RunTypes ==
  ASSUME NetTypeOK, op' \in BOOLEAN, timer' \in BOOLEAN, ready' \in Seq(Handlers),
         ec' \in Results \cup {"timed_out"},
         UNCHANGED <<addr, connVars, call, fn, txVars, rxVars, res, txFailed>>
  PROVE  NetTypeOK'
BY DEF NetTypeOK, Handlers, connVars, txVars, rxVars

\* The deadline passes.
LEMMA TimerExpiresKeeps ==
  ASSUME ClientInv, addr' = addr, TimerExpires
  PROVE  ClientInv'
<1> USE DEF ClientInv
<1>1. /\ timer /\ timer' = FALSE /\ ready' = Append(ready, "timer") /\ op' = op /\ ec' = ec
      /\ UNCHANGED <<connVars, call, fn, txVars, rxVars, res, txFailed>>
  BY DEF TimerExpires
<1>2. ready \in Seq(Handlers) /\ "timer" \in Handlers /\ "timer" \notin Waiting
  BY <1>1 DEF NetTypeOK, Handlers, QueueInv
<1>3. /\ Waiting' = Waiting \cup {"timer"} /\ Distinct(ready)' /\ ready' \in Seq(Handlers)
  BY <1>1, <1>2, ElemsAppend DEF Waiting, QueueInv
<1>4. QueueInv'
  BY <1>1, <1>3 DEF QueueInv
<1>5. NetTypeOK'
  BY <1>1, <1>3, RunTypes DEF NetTypeOK
<1> USE DEF connVars, txVars, rxVars
<1>6. CallInv' /\ SockInv' /\ TornInv'
  BY <1>1, <1>3 DEF CallInv, SockInv, TornInv, Handled
<1>7. WriteInv' /\ ReadInv'
  BY <1>1, <1>3 DEF WriteInv, ReadInv, Handled
<1> QED BY <1>4, <1>5, <1>6, <1>7

\* The deadline's handler: the operation is aborted if it is outstanding.
LEMMA TimerHandlerKeeps ==
  ASSUME ClientInv, addr' = addr, NEW f \in {"connect", "write", "read"}, TimerHandler(f)
  PROVE  ClientInv'
<1> USE DEF ClientInv
<1>1. /\ fn = f /\ ready # <<>> /\ Head(ready) = "timer" /\ CancelSocket /\ op' = FALSE
      /\ UNCHANGED <<connVars, call, fn, timer, txVars, rxVars, res, txFailed>>
      /\ f = "connect" => ec' = "timed_out"
      /\ f = "write" => ec' = "aborted"
      /\ f = "read" => ec' = ec
  BY DEF TimerHandler, Handler, CancelSocket
<1>2. /\ QueueInv' /\ "timer" \in Waiting /\ ready' \in Seq(Handlers)
      /\ Waiting' = (Waiting \ {"timer"}) \cup (IF op THEN {"aborted"} ELSE {})
  BY <1>1, CancelKeepsQueue
<1>3. NetTypeOK'
  <2>1. ec' \in Results \cup {"timed_out"}
    BY <1>1 DEF NetTypeOK, Results
  <2> QED BY <1>1, <1>2, <2>1, RunTypes DEF NetTypeOK
<1>4. "ok" \in Waiting' => "ok" \in Waiting
  BY <1>2
<1> USE DEF connVars, txVars, rxVars
<1>5. CallInv' /\ SockInv' /\ TornInv'
  BY <1>1, <1>4 DEF CallInv, SockInv, TornInv
<1>6. WriteInv'
  BY <1>1, <1>4 DEF WriteInv
<1>7. ReadInv'
  BY <1>1, <1>2 DEF ReadInv
<1> QED BY <1>2, <1>3, <1>5, <1>6, <1>7

\* The handlers of connect() and write_line().
LEMMA ResultHandlerKeeps ==
  ASSUME ClientInv, addr' = addr, NEW r \in {"ok", "aborted", "error"},
         ConnectHandler(r) \/ WriteHandler(r)
  PROVE  ClientInv'
<1> USE DEF ClientInv
<1>1. /\ fn \in {"connect", "write"} /\ ready # <<>> /\ Head(ready) = r
      /\ ec' = r /\ ready' = Tail(ready) /\ op' = op
      /\ UNCHANGED <<connVars, call, fn, txVars, rxVars, res, txFailed>>
  BY DEF ConnectHandler, WriteHandler, Handler
<1>2. (timer' => timer) /\ timer' \in BOOLEAN
  BY DEF ConnectHandler, WriteHandler
<1>3. /\ QueueInv' /\ Waiting' = Waiting \ {r} /\ r \in Waiting
      /\ ready' \in Seq(Handlers)
  BY <1>1, <1>2, HandleKeepsQueue
<1>4. NetTypeOK'
  <2>1. ec' \in Results \cup {"timed_out"}
    BY <1>1 DEF Results
  <2> QED BY <1>1, <1>2, <1>3, <2>1, RunTypes DEF NetTypeOK
<1>5. ~op /\ "ok" \notin Waiting'
  BY <1>3 DEF QueueInv
<1> USE DEF connVars, txVars, rxVars
<1>6. CallInv' /\ SockInv' /\ TornInv'
  BY <1>1, <1>3, <1>5 DEF CallInv, SockInv, TornInv
<1>7. WriteInv' /\ ReadInv'
  BY <1>1, <1>3, <1>5 DEF WriteInv, ReadInv
<1> QED BY <1>3, <1>4, <1>6, <1>7

\* A read reports an error.
LEMMA ReadFailsKeeps ==
  ASSUME ClientInv, addr' = addr, NEW r \in {"aborted", "error", "eof"}, ReadFails(r)
  PROVE  ClientInv'
<1> USE DEF ClientInv
<1>1. /\ fn = "read" /\ ready # <<>> /\ Head(ready) = r
      /\ ec' = r /\ ready' = Tail(ready)
      /\ UNCHANGED <<connVars, call, fn, op, timer, txVars, rxVars, res, txFailed>>
  BY DEF ReadFails, Handler
<1>2. /\ QueueInv' /\ Waiting' = Waiting \ {r} /\ r \in Waiting
      /\ ready' \in Seq(Handlers)
  BY <1>1, HandleKeepsQueue
<1>3. NetTypeOK'
  <2>1. ec' \in Results \cup {"timed_out"}
    BY <1>1 DEF Results
  <2> QED BY <1>1, <1>2, <2>1, RunTypes DEF NetTypeOK
<1> USE DEF connVars, txVars, rxVars
<1>4. CallInv' /\ SockInv' /\ TornInv' /\ WriteInv'
  BY <1>1 DEF CallInv, SockInv, TornInv, WriteInv
<1>5. ReadInv'
  BY <1>1, <1>2 DEF ReadInv
<1> QED BY <1>2, <1>3, <1>4, <1>5

\* The first newline of a buffer that has one.
LEMMA LineEndFact ==
  ASSUME NEW b \in Seq(Nat), HasLine(b)
  PROVE  /\ LineEnd(b) \in 1..Len(b) /\ b[LineEnd(b)] % 2 = 1
         /\ \A j \in 1..Len(b) : b[j] % 2 = 1 => LineEnd(b) <= j
<1>1. Newlines(b) \subseteq Nat /\ Newlines(b) # {}
  BY DEF HasLine, Newlines
<1>2. \E i \in Newlines(b) : \A j \in Newlines(b) : i <= j
  BY <1>1, MinNat
<1>3. LineEnd(b) \in Newlines(b) /\ \A j \in Newlines(b) : LineEnd(b) <= j
  BY <1>2 DEF LineEnd
<1> QED BY <1>3 DEF Newlines

\* The handler of a read that found a line.
LEMMA LineProcessTypes ==
  ASSUME NetTypeOK, HasLine(rx), line_process(cnt)
  PROVE  /\ rx' \in Seq(Chunks) /\ got' \in Seq(0..MaxFrames)
         /\ decoded' \in Nat /\ slots' \in Nat
<1> DEFINE end == LineEnd(rx)
           ok  == end = 2 /\ rx[2] = rx[1] + 1
<1>1. Chunks \subseteq Nat /\ rx \in Seq(Chunks) /\ rx \in Seq(Nat) /\ Len(rx) \in Nat
  BY ClientBoundsAssumption DEF NetTypeOK, Chunks
<1>2. end \in 1..Len(rx)
  BY <1>1, LineEndFact
<1>3. /\ got' = IF ok THEN Append(got, rx[1] \div 2) ELSE got
      /\ decoded' = IF ok THEN decoded + 1 ELSE decoded
      /\ slots' = IF cnt < slots THEN slots ELSE cnt + 1
      /\ rx' = SubSeq(rx, end + 1, Len(rx))
  BY DEF line_process
<1> HIDE DEF end
<1>4. SubSeq(rx, end + 1, Len(rx)) \in Seq(Chunks)
  BY <1>1, <1>2, SubSeqProperties
<1>5. ok => rx[1] \div 2 \in 0..MaxFrames
  <2> SUFFICES ASSUME ok PROVE rx[1] \div 2 \in 0..MaxFrames
    OBVIOUS
  <2>1. rx[1] \in Chunks
    BY <1>1, <1>2
  <2> QED BY <2>1, ClientBoundsAssumption DEF Chunks
<1>6. got \in Seq(0..MaxFrames) /\ decoded \in Nat /\ slots \in Nat /\ cnt \in Nat
  BY DEF NetTypeOK
<1>7. got' \in Seq(0..MaxFrames)
  <2>1. CASE ok
    <3> DEFINE f == rx[1] \div 2
    <3>1. f \in 0..MaxFrames /\ got' = Append(got, f)
      BY <1>3, <1>5, <2>1
    <3> HIDE DEF f
    <3> QED BY <1>6, <3>1
  <2>2. CASE ~ok
    BY <1>3, <1>6, <2>2
  <2> QED BY <2>1, <2>2
<1> QED BY <1>3, <1>4, <1>6, <1>7

\* A read has found a line: it is processed, and the next read starts.
LEMMA ReadHandlerKeeps ==
  ASSUME ClientInv, addr' = addr, ReadHandler
  PROVE  ClientInv'
<1> USE DEF ClientInv
<1>1. /\ fn = "read" /\ ready # <<>> /\ Head(ready) = "ok" /\ ec' = "ok" /\ line_process(cnt)
      /\ UNCHANGED <<connVars, call, fn, txVars, len, res, txFailed>>
  BY DEF ReadHandler, Handler
<1>2. ready \in Seq(Handlers) /\ Distinct(ready)
  BY DEF NetTypeOK, Handlers, QueueInv
<1>3. /\ "ok" \in Waiting /\ Tail(ready) \in Seq(Handlers) /\ Distinct(Tail(ready))
      /\ Elems(Tail(ready)) = Waiting \ {"ok"}
  BY <1>1, <1>2, ElemsTail DEF Waiting
<1>4. HasLine(rx) /\ cnt < len /\ ~op /\ Waiting \subseteq {"ok", "timer"}
  BY <1>1, <1>3 DEF ReadInv, QueueInv
<1>5. cnt' = cnt + 1 /\ async_read(len, cnt + 1, rx', Tail(ready), timer)
  BY <1>4 DEF ReadHandler
<1>6. /\ rx' \in Seq(Chunks) /\ got' \in Seq(0..MaxFrames)
      /\ decoded' \in Nat /\ slots' \in Nat
  BY <1>1, <1>4, LineProcessTypes
<1>7. slots' <= cnt' /\ cnt' <= len' /\ cnt' \in Nat
  <2>1. slots' = IF cnt < slots THEN slots ELSE cnt + 1
    BY <1>1 DEF line_process
  <2>2. slots \in Nat /\ cnt \in Nat /\ len \in Nat /\ slots <= cnt
    BY ClientBoundsAssumption DEF NetTypeOK, ReadInv
  <2> QED BY <1>1, <1>4, <1>5, <2>1, <2>2
\* What the handler leaves in the io_context.
<1>8. /\ ready' \in Seq(Handlers) /\ Distinct(ready)' /\ op' \in BOOLEAN /\ timer' \in BOOLEAN
      /\ \/ cnt' >= len /\ ~timer' /\ ~op' /\ Waiting' = Waiting \ {"ok"}
         \/ cnt' < len /\ timer' = timer /\ op' /\ ~HasLine(rx') /\ Waiting' = Waiting \ {"ok"}
         \/ cnt' < len /\ timer' = timer /\ ~op' /\ HasLine(rx') /\ Waiting' = Waiting
  <2>1. CASE cnt' >= len
    BY <1>3, <1>5, <2>1 DEF async_read, Waiting
  <2>2. CASE cnt' < len /\ ~HasLine(rx')
    <3>1. ~(cnt + 1 >= len)
      BY <1>5, <1>7, <2>2, ClientBoundsAssumption DEF NetTypeOK
    <3>2. timer' = timer /\ op' = TRUE /\ ready' = Tail(ready)
      BY <1>5, <2>2, <3>1 DEF async_read
    <3> QED BY <1>3, <2>2, <3>2 DEF Waiting, NetTypeOK
  <2>3. CASE cnt' < len /\ HasLine(rx')
    <3>1. ~(cnt + 1 >= len)
      BY <1>5, <1>7, <2>3, ClientBoundsAssumption DEF NetTypeOK
    <3>2. timer' = timer /\ op' = FALSE /\ ready' = Append(Tail(ready), "ok")
      BY <1>5, <2>3, <3>1 DEF async_read
    <3> DEFINE t == Tail(ready)
    <3>3. t \in Seq(Handlers) /\ Elems(t) = Waiting \ {"ok"} /\ Distinct(t) /\ "ok" \in Handlers
      BY <1>3 DEF Handlers, Results
    <3> HIDE DEF t
    <3>4. /\ Elems(Append(t, "ok")) = Waiting /\ Distinct(Append(t, "ok"))
          /\ Append(t, "ok") \in Seq(Handlers)
      <4>1. /\ Elems(Append(t, "ok")) = Elems(t) \cup {"ok"}
            /\ Distinct(Append(t, "ok")) /\ Append(t, "ok") \in Seq(Handlers)
        BY <3>3, ElemsAppend
      <4>2. (Waiting \ {"ok"}) \cup {"ok"} = Waiting
        BY <1>3
      <4> QED BY <3>3, <4>1, <4>2
    <3>5. Waiting' = Waiting /\ Distinct(ready)' /\ ready' \in Seq(Handlers)
      BY <3>2, <3>4 DEF Waiting, t
    <3> QED BY <2>3, <3>2, <3>5 DEF NetTypeOK
  <2> QED BY <1>1, <1>7, <2>1, <2>2, <2>3, ClientBoundsAssumption DEF NetTypeOK
<1>9. QueueInv'
  BY <1>1, <1>4, <1>8 DEF QueueInv
<1> USE DEF connVars, txVars
<1>10. NetTypeOK'
  BY <1>1, <1>6, <1>7, <1>8 DEF NetTypeOK, Handlers, Results
<1>11. CallInv' /\ SockInv' /\ TornInv' /\ WriteInv'
  BY <1>1 DEF CallInv, SockInv, TornInv, WriteInv
<1>12. ReadInv'
  <2>1. len' = len /\ fn' = "read" /\ HasLine(rx)' = HasLine(rx') /\ cnt' \in Nat /\ len \in Nat
    BY <1>1, <1>7, ClientBoundsAssumption DEF NetTypeOK
  <2>2. CASE cnt' >= len /\ ~timer' /\ ~op' /\ Waiting' = Waiting \ {"ok"}
    BY <1>7, <2>1, <2>2 DEF ReadInv
  <2>3. CASE cnt' < len /\ timer' = timer /\ op' /\ ~HasLine(rx') /\ Waiting' = Waiting \ {"ok"}
    BY <1>7, <2>1, <2>3 DEF ReadInv
  <2>4. CASE cnt' < len /\ timer' = timer /\ ~op' /\ HasLine(rx') /\ Waiting' = Waiting
    BY <1>3, <1>7, <2>1, <2>4 DEF ReadInv
  <2> QED BY <1>8, <2>2, <2>3, <2>4
<1> QED BY <1>9, <1>10, <1>11, <1>12

------------------------------------------------------------------------------
(* The kernel and the server. *)

\* The connection is established.
LEMMA ConnectDoneKeeps ==
  ASSUME ClientInv, addr' = addr, ConnectDone
  PROVE  ClientInv'
<1> USE DEF ClientInv
<1>1. /\ fn = "connect" /\ op /\ Complete("ok") /\ sock' = "up" /\ torn' = FALSE
      /\ txFailed' = FALSE /\ clean' = (rx = <<>>)
      /\ UNCHANGED <<connected, inflight, call, fn, txVars, rxVars, res>>
  BY DEF ConnectDone
<1>2. QueueInv' /\ Waiting' = Waiting \cup {"ok"} /\ ready' \in Seq(Handlers)
  BY <1>1, CompleteKeepsQueue DEF Results
<1>3. op' = FALSE /\ timer' = timer /\ ec' = ec /\ ~connected
  BY <1>1 DEF Complete, CallInv
<1> USE DEF txVars, rxVars
<1>4. sendNo' \in Chunks /\ base' \in 0..MaxFrames
  <2>1. sendNo' = sendNo + (sendNo % 2) /\ base' = sendNo' \div 2 /\ sendNo \in 0..(2 * MaxFrames)
    BY DEF ConnectDone, NetTypeOK, Chunks
  <2> QED BY <2>1, ClientBoundsAssumption DEF Chunks
<1>5. NetTypeOK'
  BY <1>1, <1>2, <1>3, <1>4 DEF NetTypeOK, Handlers
<1>6. CallInv' /\ SockInv' /\ TornInv' /\ WriteInv' /\ ReadInv'
  BY <1>1, <1>3 DEF CallInv, SockInv, TornInv, WriteInv, ReadInv, Up
<1> QED BY <1>2, <1>5, <1>6

\* An operation that ends with an error.
LEMMA FailureKeeps ==
  ASSUME ClientInv, addr' = addr, NEW r \in {"error", "eof"}, op, Complete(r),
         UNCHANGED <<connVars, call, fn, txVars, rxVars, res, txFailed>>
  PROVE  ClientInv'
<1> USE DEF ClientInv
<1>1. QueueInv' /\ Waiting' = Waiting \cup {r} /\ ready' \in Seq(Handlers)
  BY CompleteKeepsQueue DEF Results
<1>2. op' = FALSE /\ timer' = timer /\ ec' = ec /\ ("ok" \notin Waiting') /\ ~Handled'
  BY <1>1 DEF Complete, QueueInv, Handled
<1>3. NetTypeOK'
  BY <1>1, <1>2, RunTypes DEF NetTypeOK
<1> USE DEF connVars, txVars, rxVars
<1>4. CallInv' /\ SockInv' /\ TornInv'
  BY <1>2 DEF CallInv, SockInv, TornInv
<1>5. WriteInv' /\ ReadInv'
  BY <1>2 DEF WriteInv, ReadInv
<1> QED BY <1>1, <1>3, <1>4, <1>5

\* The kernel takes a part of the line.
LEMMA WriteTakesKeeps ==
  ASSUME ClientInv, addr' = addr, WriteTakes
  PROVE  ClientInv'
<1> USE DEF ClientInv
<1>1. /\ fn = "write" /\ op /\ sock \in {"up", "fin"} /\ taken' = taken + 1
      /\ sock' \in Up /\ sock' \in {"up", "reset"}
      /\ UNCHANGED <<connected, inflight, sendNo, base, clean, torn, call, fn, want,
                     line, rxVars, res, txFailed>>
  BY DEF WriteTakes, Up
<1>2. /\ taken \in 0..1 /\ whole = line /\ line < want /\ line \in Nat /\ want \in Nat
      /\ call \notin {"none", "Receive"} /\ sock \in Up
  BY <1>1, ClientBoundsAssumption DEF WriteInv, NetTypeOK, CallInv, Up
<1> USE DEF rxVars
<1>3. CASE taken' = 2
  <2>1. Complete("ok") /\ whole' = whole + 1
    BY <1>3 DEF WriteTakes
  <2>2. QueueInv' /\ Waiting' = Waiting \cup {"ok"} /\ ready' \in Seq(Handlers)
    BY <1>1, <2>1, CompleteKeepsQueue DEF Results
  <2>3. op' = FALSE /\ timer' = timer /\ ec' = ec
    BY <2>1 DEF Complete
  <2>4. NetTypeOK'
    <3>1. /\ ready' \in Seq(Results \cup {"timer"}) /\ op' \in BOOLEAN /\ timer' \in BOOLEAN
          /\ ec' \in Results \cup {"timed_out"}
      BY <2>2, <2>3 DEF NetTypeOK, Handlers
    <3>2. whole' \in 0..want' /\ taken' \in 0..2 /\ sock' \in {"closed", "open", "up", "fin", "reset"}
      BY <1>1, <1>2, <1>3, <2>1
    <3> QED BY <1>1, <3>1, <3>2 DEF NetTypeOK
  <2>5. CallInv' /\ SockInv' /\ TornInv' /\ ReadInv'
    BY <1>1, <1>2 DEF CallInv, SockInv, TornInv, ReadInv
  <2>6. WriteInv'
    BY <1>1, <1>2, <1>3, <2>1, <2>3 DEF WriteInv
  <2> QED BY <2>2, <2>4, <2>5, <2>6
<1>4. CASE taken' # 2
  <2>1. UNCHANGED <<runVars, whole>>
    BY <1>4 DEF WriteTakes
  <2> USE DEF runVars
  <2>2. Waiting' = Waiting /\ QueueInv'
    BY <1>1, <2>1 DEF QueueInv, Waiting
  <2>3. NetTypeOK'
    BY <1>1, <1>2, <1>4, <2>1 DEF NetTypeOK
  <2>4. CallInv' /\ SockInv' /\ TornInv' /\ ReadInv'
    BY <1>1, <1>2 DEF CallInv, SockInv, TornInv, ReadInv
  <2>5. WriteInv'
    BY <1>1, <1>2, <1>4, <2>1, <2>2 DEF WriteInv, Handled, QueueInv
  <2> QED BY <2>2, <2>3, <2>4, <2>5
<1> QED BY <1>3, <1>4

\* Data arrives for the outstanding read.
LEMMA ReadArrivesKeeps ==
  ASSUME ClientInv, addr' = addr, NEW k \in 1..(2 * MaxFrames), ReadArrives(k)
  PROVE  ClientInv'
<1> USE DEF ClientInv
<1>1. /\ fn = "read" /\ op /\ k <= Len(inflight)
      /\ rx' = rx \o SubSeq(inflight, 1, k)
      /\ inflight' = SubSeq(inflight, k + 1, Len(inflight))
      /\ UNCHANGED <<connected, sock, sendNo, base, clean, torn, call, fn, txVars,
                     cnt, len, got, slots, decoded, res, txFailed>>
  BY DEF ReadArrives
<1> USE DEF txVars
<1>2. rx' \in Seq(Chunks) /\ inflight' \in Seq(Chunks)
  <2>1. rx \in Seq(Chunks) /\ inflight \in Seq(Chunks) /\ Len(inflight) \in Nat /\ k \in Nat
    BY ClientBoundsAssumption DEF NetTypeOK
  <2>2. SubSeq(inflight, 1, k) \in Seq(Chunks)
    BY <1>1, <2>1, SubSeqProperties
  <2>3. SubSeq(inflight, k + 1, Len(inflight)) \in Seq(Chunks)
    BY <1>1, <2>1, SubSeqProperties
  <2> QED BY <1>1, <2>1, <2>2, <2>3
<1>3. cnt < len /\ sock \in Up /\ connected
  BY <1>1 DEF ReadInv, CallInv, SockInv
<1>4. CASE HasLine(rx')
  <2>1. Complete("ok")
    BY <1>4 DEF ReadArrives
  <2>2. QueueInv' /\ Waiting' = Waiting \cup {"ok"} /\ ready' \in Seq(Handlers)
    BY <1>1, <2>1, CompleteKeepsQueue DEF Results
  <2>3. op' = FALSE /\ timer' = timer /\ ec' = ec
    BY <2>1 DEF Complete
  <2>4. NetTypeOK'
    <3>1. /\ ready' \in Seq(Results \cup {"timer"}) /\ op' \in BOOLEAN /\ timer' \in BOOLEAN
          /\ ec' \in Results \cup {"timed_out"}
      BY <2>2, <2>3 DEF NetTypeOK, Handlers
    <3> QED BY <1>1, <1>2, <3>1 DEF NetTypeOK
  <2>5. CallInv' /\ SockInv' /\ TornInv' /\ WriteInv'
    BY <1>1, <1>3 DEF CallInv, SockInv, TornInv, WriteInv
  <2>6. ReadInv'
    BY <1>1, <1>3, <1>4, <2>2, <2>3 DEF ReadInv
  <2> QED BY <2>2, <2>4, <2>5, <2>6
<1>5. CASE ~HasLine(rx')
  <2>1. UNCHANGED runVars
    BY <1>5 DEF ReadArrives
  <2> USE DEF runVars
  <2>2. Waiting' = Waiting /\ QueueInv'
    BY <1>1, <2>1 DEF QueueInv, Waiting
  <2>3. NetTypeOK'
    BY <1>1, <1>2, <2>1 DEF NetTypeOK
  <2>4. CallInv' /\ SockInv' /\ TornInv' /\ WriteInv'
    BY <1>1, <1>3, <2>1 DEF CallInv, SockInv, TornInv, WriteInv
  <2>5. ReadInv'
    BY <1>1, <1>3, <1>5, <2>1, <2>2 DEF ReadInv
  <2> QED BY <2>2, <2>3, <2>4, <2>5
<1> QED BY <1>4, <1>5

\* The server sends or ends.
LEMMA ServerKeeps ==
  ASSUME ClientInv, addr' = addr, ServerSends \/ ServerEnds("fin") \/ ServerEnds("reset")
  PROVE  ClientInv'
<1> USE DEF ClientInv
<1>1. /\ sock \in Up /\ sock' \in Up
      /\ UNCHANGED <<connected, base, clean, torn, call, fn, runVars, txVars, rxVars, res, txFailed>>
  BY DEF ServerSends, ServerEnds, Up
<1> USE DEF runVars, txVars, rxVars
<1>2. Waiting' = Waiting /\ QueueInv'
  BY <1>1 DEF QueueInv, Waiting
<1>3. inflight' \in Seq(Chunks) /\ sendNo' \in Chunks
  <2>1. CASE ServerSends
    BY <2>1, ClientBoundsAssumption DEF ServerSends, NetTypeOK, Chunks
  <2>2. CASE ServerEnds("fin") \/ ServerEnds("reset")
    BY <2>2 DEF ServerEnds, NetTypeOK
  <2> QED BY <2>1, <2>2
<1>4. NetTypeOK'
  BY <1>1, <1>3 DEF NetTypeOK, Up
<1>5. CallInv' /\ SockInv' /\ TornInv'
  BY <1>1, <1>2 DEF CallInv, SockInv, TornInv, Handled, Up
<1>6. WriteInv' /\ ReadInv'
  BY <1>1, <1>2 DEF WriteInv, ReadInv, Handled
<1> QED BY <1>2, <1>4, <1>5, <1>6

\* Every event of the network keeps the invariant.
LEMMA NetworkKeeps ==
  ASSUME ClientInv, addr' = addr, Network
  PROVE  ClientInv'
<1>1. CASE ConnectRefused
  BY <1>1, FailureKeeps DEF ConnectRefused
<1>2. CASE ReadBreaks
  BY <1>2, FailureKeeps DEF ReadBreaks
<1>3. CASE WriteBreaks
  BY <1>3, FailureKeeps DEF WriteBreaks
<1> QED BY <1>1, <1>2, <1>3, ConnectDoneKeeps, WriteTakesKeeps, ReadArrivesKeeps, ServerKeeps
        DEF Network, Reported

------------------------------------------------------------------------------
(* The calls return. *)

\* run() has returned: the result of the operation was handled.
LEMMA RunReturnsFact ==
  ASSUME ClientInv, NEW f, RunReturns(f)
  PROVE  fn = f /\ ready = <<>> /\ ~op /\ ~timer /\ Waiting = {} /\ Handled
BY DEF RunReturns, Waiting, Elems, Handled

\* A call returns, to a connection that is kept or given up.
LEMMA ReturnKeeps ==
  ASSUME ClientInv, addr' = addr, NEW f, RunReturns(f),
         NEW status \in {"none", "OK", "ERR", "CONN_FAIL", "THROW"}, Return(status),
         Disconnect \/ UNCHANGED <<connected, sock, inflight>>,
         UNCHANGED <<sendNo, base, clean, runVars, want, taken, whole, rxVars>>,
         line' \in 0..want, torn' \in BOOLEAN, txFailed' \in BOOLEAN, TornInv',
         status = "OK" => whole = want /\ line' = want
  PROVE  ClientInv'
<1> USE DEF ClientInv
<1>1. call' = "none" /\ fn' = "idle" /\ res' = status
  BY DEF Return
<1>2. ready = <<>> /\ ~op /\ ~timer
  BY RunReturnsFact
<1> USE DEF runVars, rxVars
<1>3. connected' => connected /\ sock' \in Up
  BY DEF Disconnect, SockInv
<1>4. /\ connected' \in BOOLEAN /\ sock' \in {"closed", "open", "up", "fin", "reset"}
      /\ inflight' \in Seq(Chunks) /\ (sock' \notin Up => inflight' = <<>>)
  <2>1. CASE Disconnect
    <3>1. connected' = FALSE /\ sock' = "closed" /\ inflight' = <<>>
      BY <2>1 DEF Disconnect
    <3>2. <<>> \in Seq(Chunks)
      OBVIOUS
    <3> QED BY <3>1, <3>2
  <2>2. CASE UNCHANGED <<connected, sock, inflight>>
    BY <2>2 DEF NetTypeOK, SockInv
  <2> QED BY <2>1, <2>2
<1>5. NetTypeOK'
  BY <1>1, <1>4 DEF NetTypeOK
<1>6. QueueInv'
  BY <1>1, <1>2 DEF QueueInv, Distinct, Waiting, Elems
<1>7. CallInv' /\ SockInv'
  BY <1>1, <1>3, <1>4 DEF CallInv, SockInv
<1>8. WriteInv' /\ ReadInv'
  BY <1>1 DEF WriteInv, ReadInv
<1> QED BY <1>5, <1>6, <1>7, <1>8

\* The next line of VCI_Transmit, or the first one after connect().
LEMMA NextLineKeeps ==
  ASSUME ClientInv, addr' = addr, NEW f, RunReturns(f), write_line,
         connected' = TRUE, sock \in Up, addr, line' \in 0..want, line' < want,
         call \in {"Open", "Close", "Command", "Transmit"}, call # "Transmit" => want = 1,
         whole = line',
         UNCHANGED <<sock, inflight, sendNo, base, clean, torn, call, res, want, whole,
                     rxVars, txFailed>>
  PROVE  ClientInv'
<1> USE DEF ClientInv
<1>1. /\ ready = <<>> /\ ready' = ready /\ fn' = "write" /\ op' = TRUE /\ timer' = TRUE
      /\ ec' = "ok" /\ taken' = 0
  BY RunReturnsFact DEF write_line, StartTimed
<1>2. QueueInv' /\ Waiting' = {}
  BY <1>1, StartKeepsQueue DEF write_line
<1> USE DEF rxVars
<1>3. NetTypeOK'
  BY <1>1 DEF NetTypeOK, Results
<1>4. CallInv' /\ SockInv' /\ TornInv' /\ ReadInv'
  BY <1>1 DEF CallInv, SockInv, TornInv, ReadInv
<1>5. WriteInv'
  BY <1>1, <1>2 DEF WriteInv, Handled
<1> QED BY <1>2, <1>3, <1>4, <1>5

\* run() returns in connect().
LEMMA ConnectReturnsKeeps ==
  ASSUME ClientInv, addr' = addr, ConnectReturns
  PROVE  ClientInv'
<1> USE DEF ClientInv
<1>1. /\ RunReturns("connect")
      /\ UNCHANGED <<sock, inflight, sendNo, base, clean, torn, want, line, whole, rxVars, txFailed>>
  BY DEF ConnectReturns
<1>2. /\ fn = "connect" /\ Handled /\ call = "Open" /\ addr /\ want = 1 /\ line = 0 /\ whole = 0
  BY <1>1, RunReturnsFact DEF CallInv, WriteInv
<1>3. CASE ec = "ok"
  <2>1. connected' = TRUE /\ write_line /\ UNCHANGED <<call, res>>
    BY <1>3 DEF ConnectReturns
  <2>2. sock \in Up
    BY <1>2, <1>3 DEF SockInv
  <2>3. line' \in 0..want /\ line' < want /\ whole = line'
    BY <1>1, <1>2
  <2> QED BY <1>1, <1>2, <2>1, <2>2, <2>3, NextLineKeeps
<1>4. CASE ec # "ok"
  <2>1. Return("CONN_FAIL") /\ UNCHANGED <<connected, runVars, taken>>
    BY <1>4 DEF ConnectReturns
  <2>2. TornInv' /\ line' \in 0..want /\ torn' \in BOOLEAN /\ txFailed' \in BOOLEAN
    BY <1>1 DEF TornInv, NetTypeOK
  <2> QED BY <1>1, <2>1, <2>2, ReturnKeeps
<1> QED BY <1>3, <1>4

\* run() returns in a call that writes one line.
LEMMA CommandReturnsKeeps ==
  ASSUME ClientInv, addr' = addr, CommandReturns
  PROVE  ClientInv'
<1> USE DEF ClientInv
<1>1. /\ call \in {"Open", "Close", "Command"} /\ RunReturns("write") /\ TornLine
      /\ line' = IF ec = "ok" THEN 1 ELSE 0
      /\ Return(IF ec = "ok" THEN "OK" ELSE "ERR")
      /\ UNCHANGED <<sendNo, base, clean, runVars, want, taken, whole, rxVars, txFailed>>
  BY DEF CommandReturns
<1>2. Disconnect \/ (ec = "ok" /\ UNCHANGED <<connected, sock, inflight>>)
  BY DEF CommandReturns
<1>3. /\ fn = "write" /\ want = 1 /\ line = 0 /\ taken \in 0..2 /\ torn \in BOOLEAN
      /\ ec = "ok" => taken = 2 /\ whole = 1
  BY <1>1, RunReturnsFact DEF WriteInv, NetTypeOK
<1>4. torn' \in BOOLEAN /\ (ec = "ok" => torn' = torn) /\ txFailed' \in BOOLEAN
  BY <1>1, <1>3 DEF TornLine, NetTypeOK
<1>5. TornInv'
  BY <1>1, <1>2, <1>4 DEF TornInv, Disconnect, Up
<1>6. line' \in 0..want
  BY <1>1, <1>3
<1>7. CASE ec = "ok"
  BY <1>1, <1>2, <1>3, <1>4, <1>5, <1>6, <1>7, ReturnKeeps
<1>8. CASE ec # "ok"
  BY <1>1, <1>2, <1>3, <1>4, <1>5, <1>6, <1>8, ReturnKeeps
<1> QED BY <1>7, <1>8

\* run() returns in VCI_Transmit, which goes on with the next line.
LEMMA TransmitReturnsKeeps ==
  ASSUME ClientInv, addr' = addr, TransmitGoesOn \/ TransmitFails
  PROVE  ClientInv'
<1> USE DEF ClientInv
<1>1. /\ call = "Transmit" /\ RunReturns("write")
      /\ UNCHANGED <<want, whole, rxVars, sendNo, base, clean>>
  BY DEF TransmitGoesOn, TransmitFails, connVars, txVars
<1>2. /\ fn = "write" /\ Handled /\ connected /\ addr /\ sock \in Up
      /\ line \in 0..want /\ line < want /\ want \in Nat
      /\ ec = "ok" => whole = line + 1
  BY <1>1, RunReturnsFact, ClientBoundsAssumption DEF WriteInv, CallInv, SockInv, NetTypeOK
<1>3. CASE TransmitGoesOn
  <2>1. /\ ec = "ok" /\ line' = line + 1 /\ UNCHANGED <<connVars, txFailed>>
        /\ IF line' < want THEN write_line /\ UNCHANGED <<call, res>>
                           ELSE Return("OK") /\ UNCHANGED <<runVars, taken>>
    BY <1>3 DEF TransmitGoesOn
  <2>2. line' \in 0..want /\ whole = line'
    BY <1>2, <2>1
  <2>3. CASE line' < want
    <3>1. connected' = TRUE
      BY <1>2, <2>1 DEF connVars, NetTypeOK
    <3> QED BY <1>1, <1>2, <2>1, <2>2, <2>3, <3>1, NextLineKeeps DEF connVars
  <2>4. CASE ~(line' < want)
    <3>1. line' = want
      BY <1>2, <2>2, <2>4
    <3>2. TornInv' /\ torn' \in BOOLEAN /\ txFailed' \in BOOLEAN
      BY <2>1 DEF TornInv, NetTypeOK, connVars
    <3> QED BY <1>1, <2>1, <2>2, <2>4, <3>1, <3>2, ReturnKeeps DEF connVars
  <2> QED BY <2>3, <2>4
<1>4. CASE TransmitFails
  <2>1. /\ Disconnect \/ UNCHANGED <<connected, sock, inflight>>
        /\ TornLine /\ txFailed' = TRUE /\ Return("ERR") /\ UNCHANGED <<runVars, txVars>>
    BY <1>4 DEF TransmitFails
  <2>2. TornInv' /\ torn' \in BOOLEAN /\ txFailed' \in BOOLEAN /\ line' \in 0..want
    BY <1>2, <2>1 DEF TornInv, TornLine, txVars
  <2> QED BY <1>1, <2>1, <2>2, ReturnKeeps DEF txVars
<1> QED BY <1>3, <1>4

\* run() returns in VCI_Receive.
LEMMA ReadReturnsKeeps ==
  ASSUME ClientInv, addr' = addr, ReadReturns
  PROVE  ClientInv'
<1> USE DEF ClientInv
<1>1. /\ RunReturns("read") /\ Return(res)
      /\ Disconnect \/ UNCHANGED <<connected, sock, inflight>>
      /\ UNCHANGED <<sendNo, base, clean, torn, runVars, txVars, rxVars, txFailed>>
  BY DEF ReadReturns
<1>2. call = "Receive" /\ res \in {"none", "OK", "ERR", "CONN_FAIL", "THROW"}
      /\ (res = "OK" => whole = want /\ line' = want)
  BY <1>1, RunReturnsFact DEF CallInv, NetTypeOK, WriteInv, txVars
<1>3. TornInv' /\ torn' \in BOOLEAN /\ txFailed' \in BOOLEAN /\ line' \in 0..want
  BY <1>1 DEF TornInv, NetTypeOK, txVars, Disconnect, Up
<1> QED BY <1>1, <1>2, <1>3, ReturnKeeps DEF txVars

\* Every step keeps the invariant.
LEMMA ClientInvStep == ClientInv /\ [Next]_vars => ClientInv'
<1> SUFFICES ASSUME ClientInv, [Next]_vars PROVE ClientInv'
  OBVIOUS
<1>1. ASSUME Calls, addr' = addr PROVE ClientInv'
  BY <1>1, CallsKeep
<1>2. ASSUME Runs, addr' = addr PROVE ClientInv'
  BY <1>2, TimerHandlerKeeps, ResultHandlerKeeps, ReadHandlerKeeps, ReadFailsKeeps,
     ConnectReturnsKeeps, CommandReturnsKeeps, TransmitReturnsKeeps, ReadReturnsKeeps DEF Runs
<1>3. ASSUME TimerExpires, addr' = addr PROVE ClientInv'
  BY <1>3, TimerExpiresKeeps
<1>4. ASSUME Network, addr' = addr PROVE ClientInv'
  BY <1>4, NetworkKeeps
<1>5. CASE UNCHANGED vars
  <2> USE <1>5 DEF vars, connVars, runVars, txVars, rxVars
  <2>1. NetTypeOK' /\ QueueInv' /\ CallInv'
    BY DEF ClientInv, NetTypeOK, QueueInv, CallInv, Waiting
  <2>2. SockInv' /\ WriteInv' /\ ReadInv' /\ TornInv'
    BY DEF ClientInv, SockInv, WriteInv, ReadInv, TornInv, Waiting, Handled
  <2> QED BY <2>1, <2>2 DEF ClientInv
<1> QED BY <1>1, <1>2, <1>3, <1>4, <1>5 DEF Next

\* The invariant holds in every reachable state.
LEMMA ClientInductive == Spec => []ClientInv
BY ClientInit, ClientInvStep, PTL DEF Spec

------------------------------------------------------------------------------
(* The contract NetPort. *)

\* The ways in which a call on a connection may end.
LEMMA PortOutcomes ==
  /\ <<"OK", TRUE>> \in Port!Outcomes("Open") /\ <<"ERR", FALSE>> \in Port!Outcomes("Open")
  /\ <<"OK", FALSE>> \in Port!Outcomes("Close") /\ <<"ERR", FALSE>> \in Port!Outcomes("Close")
  /\ <<"OK", TRUE>> \in Port!Outcomes("Command") /\ <<"ERR", FALSE>> \in Port!Outcomes("Command")
  /\ <<"OK", TRUE>> \in Port!Outcomes("Transmit") /\ <<"ERR", TRUE>> \in Port!Outcomes("Transmit")
  /\ <<"ERR", FALSE>> \in Port!Outcomes("Transmit")
  /\ <<"NONE", TRUE>> \in Port!Outcomes("Receive") /\ <<"NONE", FALSE>> \in Port!Outcomes("Receive")
BY DEF Port!Outcomes

\* A call that ends on a connection ends as the contract allows.
LEMMA EndsAsPromised ==
  ASSUME NEW c \in Port!Calls, call = c, connected, call' = "none", NEW st, NEW up,
         <<st, up>> \in Port!Outcomes(c), connected' = up,
         res' = IF st = "NONE" THEN res ELSE st
  PROVE  Port!PNext
<1> DEFINE o == <<st, up>>
<1>1. o[1] = st /\ o[2] = up
  OBVIOUS
<1>2. Port!End(c)
  BY <1>1 DEF Port!End
<1> QED BY <1>2 DEF Port!PNext

\* A call that begins, or returns at once, is a step of NetPort.
LEMMA CallsKeepPort ==
  ASSUME ClientInv, Calls
  PROVE  Port!PNext \/ UNCHANGED Port!pvars
<1> USE DEF ClientInv
<1>1. CASE VCI_OpenDevice
  <2>1. call = "none" /\ call' = "Open" /\ UNCHANGED <<connected, res>>
    BY <1>1 DEF VCI_OpenDevice, connVars, connect
  <2>2. Port!Begin("Open")
    BY <2>1 DEF Port!Begin
  <2> QED BY <2>2 DEF Port!PNext, Port!Calls
<1>2. CASE OpenUnresolved
  <2>1. call = "none" /\ call' = "none" /\ res' \in {"CONN_FAIL", "THROW"} /\ connected' = connected
    BY <1>2 DEF OpenUnresolved, Return, connVars
  <2>2. ~connected
    BY <1>2 DEF OpenUnresolved, CallInv
  <2>3. Port!NotReached
    BY <2>1, <2>2 DEF Port!NotReached, Port!Unreachable
  <2> QED BY <2>3 DEF Port!PNext
<1>3. ASSUME NEW c \in {"Close", "Command"}, VCI_Command(c) PROVE Port!PNext
  <2>1. Port!Begin(c)
    BY <1>3 DEF VCI_Command, Port!Begin, connVars
  <2> QED BY <2>1 DEF Port!PNext, Port!Calls
<1>4. CASE Refused
  <2>1. Port!Immediate
    BY <1>4 DEF Refused, Return, Port!Immediate, connVars
  <2> QED BY <2>1 DEF Port!PNext
<1>5. ASSUME NEW n \in 0..MaxLines, VCI_Transmit(n) PROVE Port!PNext
  <2>1. CASE n = 0
    <3>1. Port!Immediate
      BY <1>5, <2>1 DEF VCI_Transmit, Return, Port!Immediate, connVars
    <3> QED BY <3>1 DEF Port!PNext
  <2>2. CASE n # 0
    <3>1. Port!Begin("Transmit")
      BY <1>5, <2>2 DEF VCI_Transmit, Port!Begin, connVars
    <3> QED BY <3>1 DEF Port!PNext, Port!Calls
  <2> QED BY <2>1, <2>2
<1>6. ASSUME NEW n \in 0..MaxLen, VCI_Receive(n) PROVE Port!PNext \/ UNCHANGED Port!pvars
  <2>1. CASE ~connected \/ n = 0
    BY <1>6, <2>1 DEF VCI_Receive, Port!pvars, connVars
  <2>2. CASE connected /\ n # 0
    <3>1. Port!Begin("Receive")
      BY <1>6, <2>2 DEF VCI_Receive, Port!Begin, connVars
    <3> QED BY <3>1 DEF Port!PNext, Port!Calls
  <2> QED BY <2>1, <2>2
<1> QED BY <1>1, <1>2, <1>3, <1>4, <1>5, <1>6 DEF Calls

\* A call returns with an outcome that NetPort allows.
LEMMA ReturnsKeepPort ==
  ASSUME ClientInv,
         ConnectReturns \/ CommandReturns \/ TransmitGoesOn \/ TransmitFails \/ ReadReturns
  PROVE  Port!PNext \/ UNCHANGED Port!pvars
<1> USE DEF ClientInv
<1>1. CASE ConnectReturns
  <2>1. call = "Open" /\ ~connected
    BY <1>1, RunReturnsFact DEF ConnectReturns, CallInv
  <2>2. CASE ec = "ok"
    <3>1. Port!Establish
      BY <1>1, <2>1, <2>2 DEF ConnectReturns, Port!Establish
    <3> QED BY <3>1 DEF Port!PNext
  <2>3. CASE ec # "ok"
    <3>1. Port!NotReached
      BY <1>1, <2>1, <2>3 DEF ConnectReturns, Return, Port!NotReached, Port!Unreachable
    <3> QED BY <3>1 DEF Port!PNext
  <2> QED BY <2>2, <2>3
<1>2. CASE CommandReturns
  <2>1. call \in {"Open", "Close", "Command"} /\ connected /\ connected \in BOOLEAN /\ call' = "none"
    BY <1>2, RunReturnsFact DEF CommandReturns, CallInv, NetTypeOK, Return
  <2>2. CASE ec # "ok"
    <3>1. res' = "ERR" /\ connected' = FALSE
      BY <1>2, <2>2 DEF CommandReturns, Return, Disconnect
    <3> QED BY <2>1, <3>1, PortOutcomes, EndsAsPromised DEF Port!Calls
  <2>3. CASE ec = "ok" /\ call = "Close"
    <3>1. res' = "OK" /\ connected' = FALSE
      BY <1>2, <2>3 DEF CommandReturns, Return, Disconnect
    <3> QED BY <2>1, <2>3, <3>1, PortOutcomes, EndsAsPromised DEF Port!Calls
  <2>4. CASE ec = "ok" /\ call # "Close"
    <3>1. res' = "OK" /\ connected' = TRUE
      BY <1>2, <2>1, <2>4 DEF CommandReturns, Return
    <3> QED BY <2>1, <2>4, <3>1, PortOutcomes, EndsAsPromised DEF Port!Calls
  <2> QED BY <2>2, <2>3, <2>4
<1>3. CASE TransmitGoesOn
  <2>1. call = "Transmit" /\ connected' = connected /\ connected /\ connected \in BOOLEAN
    BY <1>3, RunReturnsFact DEF TransmitGoesOn, CallInv, connVars, NetTypeOK
  <2>2. CASE line' < want
    BY <1>3, <2>1, <2>2 DEF TransmitGoesOn, Port!pvars
  <2>3. CASE ~(line' < want)
    <3>1. call' = "none" /\ res' = "OK" /\ connected' = TRUE
      BY <1>3, <2>1, <2>3 DEF TransmitGoesOn, Return
    <3> QED BY <2>1, <3>1, PortOutcomes, EndsAsPromised DEF Port!Calls
  <2> QED BY <2>2, <2>3
<1>4. CASE TransmitFails
  <2>1. call = "Transmit" /\ connected /\ connected \in BOOLEAN /\ call' = "none" /\ res' = "ERR"
    BY <1>4, RunReturnsFact DEF TransmitFails, CallInv, NetTypeOK, Return
  <2>2. connected' = TRUE \/ connected' = FALSE
    BY <1>4, <2>1 DEF TransmitFails, Disconnect
  <2> QED BY <2>1, <2>2, PortOutcomes, EndsAsPromised DEF Port!Calls
<1>5. CASE ReadReturns
  <2>1. call = "Receive" /\ connected /\ connected \in BOOLEAN /\ call' = "none" /\ res' = res
    BY <1>5, RunReturnsFact DEF ReadReturns, CallInv, NetTypeOK, Return
  <2>2. connected' = TRUE \/ connected' = FALSE
    BY <1>5, <2>1 DEF ReadReturns, Disconnect
  <2> QED BY <2>1, <2>2, PortOutcomes, EndsAsPromised DEF Port!Calls
<1> QED BY <1>1, <1>2, <1>3, <1>4, <1>5

\* Every step is a step of NetPort, or none.
LEMMA PortStep == ClientInv /\ [Next]_vars => [Port!PNext]_(Port!pvars)
<1> SUFFICES ASSUME ClientInv, [Next]_vars PROVE Port!PNext \/ UNCHANGED Port!pvars
  OBVIOUS
<1>1. CASE Calls
  BY <1>1, CallsKeepPort
<1>2. CASE ConnectReturns \/ CommandReturns \/ TransmitGoesOn \/ TransmitFails \/ ReadReturns
  BY <1>2, ReturnsKeepPort
<1>3. CASE \/ \E f \in {"connect", "write", "read"} : TimerHandler(f)
           \/ \E r \in {"ok", "aborted", "error"} : ConnectHandler(r) \/ WriteHandler(r)
           \/ ReadHandler \/ \E r \in {"aborted", "error", "eof"} : ReadFails(r)
           \/ TimerExpires
  BY <1>3 DEF TimerHandler, ConnectHandler, WriteHandler, ReadHandler, ReadFails, TimerExpires,
              connVars, Port!pvars
<1>4. CASE Network
  BY <1>4 DEF Network, Reported, ConnectDone, ConnectRefused, WriteTakes, ReadBreaks, WriteBreaks,
              ReadArrives, ServerSends, ServerEnds, connVars, Port!pvars
<1>5. CASE UNCHANGED vars
  BY <1>5 DEF vars, connVars, Port!pvars
<1> QED BY <1>1, <1>2, <1>3, <1>4, <1>5 DEF Next, Runs

------------------------------------------------------------------------------
(* Theorems. *)

\* The variables of CanImpCanNet keep their types through every call, handler and
\* event of the network; in particular line_process never reads past rx_buff_.
THEOREM ClientTypeCorrect == Spec => []NetTypeOK
BY ClientInductive, PTL DEF ClientInv

\* Whatever timeout and completion race in connect(), _connected is never set on a
\* socket that is closed, and no operation is started without a connection.
THEOREM ConnectedMeansSocket == Spec => []ConnectedIsUsable
<1>1. ClientInv => ConnectedIsUsable
  BY DEF ClientInv, CallInv, SockInv, ConnectedIsUsable, Up
<1> QED BY <1>1, ClientInductive, PTL

\* VCI_Receive writes no element behind the len its caller has room for.
THEOREM ReceiveStaysInBounds == Spec => []BufferNotOverrun
<1>1. ClientInv => BufferNotOverrun
  BY ClientBoundsAssumption DEF ClientInv, NetTypeOK, ReadInv, BufferNotOverrun
<1> QED BY <1>1, ClientInductive, PTL

\* The post process of VCI_Receive is dead code on a connection that is kept: when
\* run() returns there is no line it could take.
THEOREM PostProcessIdle == Spec => []NothingLeftToPost
<1>1. ClientInv => NothingLeftToPost
  <2> SUFFICES ASSUME ClientInv, RunReturns("read"), HasLine(rx) PROVE cnt >= len
    BY DEF NothingLeftToPost
  <2>1. fn = "read" /\ ~op /\ "ok" \notin Waiting
    BY RunReturnsFact
  <2> QED BY <2>1 DEF ClientInv, ReadInv
<1> QED BY <1>1, ClientInductive, PTL

\* STATUS_OK of a call that writes means that the kernel took all of its lines.
THEOREM OkIsSent == Spec => []OkMeansSent
<1>1. ClientInv => OkMeansSent
  BY DEF ClientInv, WriteInv, OkMeansSent
<1> QED BY <1>1, ClientInductive, PTL

\* A connection that carries a line cut short is kept by VCI_Transmit only, which
\* has reported the failure.
THEOREM CutLineWasReported == Spec => []TornOnlyAfterTransmit
<1>1. ClientInv => TornOnlyAfterTransmit
  BY DEF ClientInv, SockInv, TornInv, TornOnlyAfterTransmit
<1> QED BY <1>1, ClientInductive, PTL

\* CanImpCanNet implements the contract that the facade relies on: every call
\* returns a status that goes with what became of the connection.
THEOREM ClientImplementsPort == Spec => ImplementsNetPort
<1>1. Init => Port!PInit
  BY DEF Init, Port!PInit
<1> QED BY <1>1, ClientInductive, PortStep, PTL DEF Spec, ImplementsNetPort, Port!PSpec

------------------------------------------------------------------------------
(***************************************************************************)
(* The frames that pass through NetClient: what was decoded, the receive   *)
(* buffer and the wire together, through every call, deadline and          *)
(* reconnection.                                                           *)
(***************************************************************************)

------------------------------------------------------------------------------
(* The inductive invariant. *)

\* The chunks on their way to line_process.
Stream == rx \o inflight

\* The chunks of s come in the order of their numbers, below n and behind the
\* lines of the frames in g, which come in order too.
Ordered(g, s, n) ==
  /\ \A i, j \in 1..Len(s) : i < j => s[i] < s[j]
  /\ \A i \in 1..Len(s) : s[i] < n
  /\ \A i \in 1..Len(g) : 2 * g[i] + 1 < n
  /\ \A i \in 1..Len(g), j \in 1..Len(s) : 2 * g[i] + 1 < s[j]
  /\ \A i, j \in 1..Len(g) : i < j => g[i] < g[j]

\* The frames decoded on a connection that began with frame b.
Mine(g, b) == {f \in Range(g) : f >= b}

\* The frames in g from b on are all from b to k - 1, and s is what follows, up to n.
Unbroken(g, s, b, k, n) ==
  /\ Mine(g, b) = b..(k - 1) /\ b <= k
  /\ Len(s) = n - 2 * k
  /\ \A i \in 1..Len(s) : s[i] = 2 * k + i - 1

\* On a clean connection nothing is missing, and every element counts a frame.
CleanInv ==
  (clean /\ sock \in Up) =>
    /\ \E k \in Nat : Unbroken(got, Stream, base, k, sendNo)
    /\ call = "Receive" => cnt = decoded

StreamInv == Ordered(got, Stream, sendNo) /\ CleanInv

------------------------------------------------------------------------------
(* Facts about the stream. *)

\* One more at the end.
LEMMA AppendFact ==
  ASSUME NEW s \in Seq(Nat), NEW x \in Nat
  PROVE  LET t == Append(s, x)
         IN  /\ t \in Seq(Nat) /\ Len(s) \in Nat
             /\ Len(t) = Len(s) + 1 /\ t[Len(s) + 1] = x
             /\ \A i \in 1..Len(s) : t[i] = s[i] /\ s[i] \in Nat
             /\ \A i \in 1..Len(t) : i = Len(s) + 1 \/ i \in 1..Len(s)
<1> DEFINE t == Append(s, x)
<1>1. /\ t \in Seq(Nat) /\ Len(s) \in Nat
      /\ Len(t) = Len(s) + 1 /\ t[Len(s) + 1] = x
      /\ \A i \in 1..Len(s) : t[i] = s[i] /\ s[i] \in Nat
  OBVIOUS
<1> HIDE DEF t
<1>2. \A i \in 1..Len(t) : i = Len(s) + 1 \/ i \in 1..Len(s)
  BY <1>1
<1> QED BY <1>1, <1>2, Zenon DEF t

\* Concatenation is associative.
LEMMA Regroup ==
  ASSUME NEW a \in Seq(Nat), NEW x \in Seq(Nat), NEW y \in Seq(Nat)
  PROVE  (a \o x) \o y = a \o (x \o y)
  OBVIOUS

\* A prefix of the buffer is consumed.
LEMMA DropFront ==
  ASSUME NEW a \in Seq(Nat), NEW b \in Seq(Nat), NEW e \in 0..Len(a)
  PROVE  LET t == SubSeq(a, e + 1, Len(a)) \o b
         IN  /\ t \in Seq(Nat)
             /\ Len(t) = Len(a \o b) - e
             /\ \A i \in 1..Len(t) : t[i] = (a \o b)[i + e]
<1> DEFINE d == SubSeq(a, e + 1, Len(a))
<1>1. Len(a) \in Nat /\ Len(b) \in Nat /\ e \in Nat
  OBVIOUS
<1>2. d \in Seq(Nat) /\ Len(d) = Len(a) - e /\ \A i \in 1..Len(d) : d[i] = a[i + e]
  <2>1. \A i \in (e + 1)..Len(a) : a[i] \in Nat
    BY <1>1
  <2>2. /\ d \in Seq(Nat)
        /\ Len(d) = IF e + 1 <= Len(a) THEN Len(a) - (e + 1) + 1 ELSE 0
        /\ \A i \in 1..(Len(a) - (e + 1) + 1) : d[i] = a[e + 1 + i - 1]
    <3> DEFINE m == e + 1
               n == Len(a)
    <3>1. m \in Int /\ n \in Int /\ \A i \in m..n : a[i] \in Nat
      BY <1>1, <2>1
    <3>2. d = SubSeq(a, m, n)
      OBVIOUS
    <3> HIDE DEF d, m, n
    <3>3. /\ d \in Seq(Nat)
          /\ Len(d) = IF m <= n THEN n - m + 1 ELSE 0
          /\ \A i \in 1..(n - m + 1) : d[i] = a[m + i - 1]
      BY <3>1, <3>2, SubSeqProperties
    <3> QED
      BY <3>3 DEF m, n
  <2>3. Len(d) = Len(a) - e
    BY <1>1, <2>2
  <2>4. ASSUME NEW i \in 1..Len(d) PROVE d[i] = a[i + e]
    <3>1. i \in 1..(Len(a) - (e + 1) + 1) /\ e + 1 + i - 1 = i + e
      BY <1>1, <2>3
    <3> QED BY <2>2, <3>1
  <2> QED BY <2>2, <2>3, <2>4
<1> HIDE DEF d
<1>3. /\ d \o b \in Seq(Nat) /\ Len(d \o b) = Len(d) + Len(b)
      /\ \A i \in 1..(Len(d) + Len(b)) : (d \o b)[i] = IF i <= Len(d) THEN d[i] ELSE b[i - Len(d)]
  BY <1>2, ConcatProperties
<1>4. /\ Len(a \o b) = Len(a) + Len(b)
      /\ \A i \in 1..(Len(a) + Len(b)) : (a \o b)[i] = IF i <= Len(a) THEN a[i] ELSE b[i - Len(a)]
  BY ConcatProperties
<1>5. ASSUME NEW i \in 1..Len(d \o b) PROVE (d \o b)[i] = (a \o b)[i + e]
  <2>1. i \in 1..(Len(d) + Len(b)) /\ i + e \in 1..(Len(a) + Len(b))
    BY <1>1, <1>2, <1>3
  <2>2. CASE i <= Len(d)
    BY <1>1, <1>2, <1>3, <1>4, <2>1, <2>2
  <2>3. CASE ~(i <= Len(d))
    <3>1. (d \o b)[i] = b[i - Len(d)] /\ (a \o b)[i + e] = b[i + e - Len(a)]
      BY <1>1, <1>2, <1>3, <1>4, <2>1, <2>3
    <3>2. i - Len(d) = i + e - Len(a)
      BY <1>1, <1>2
    <3> QED BY <3>1, <3>2
  <2> QED BY <2>2, <2>3
<1>6. Len(d \o b) = Len(a \o b) - e
  BY <1>1, <1>2, <1>3, <1>4
<1> QED BY <1>3, <1>5, <1>6, Zenon DEF d

\* What is read moves from the wire to the buffer and stays in its place.
LEMMA MoveAlong ==
  ASSUME NEW a \in Seq(Nat), NEW b \in Seq(Nat), NEW k \in 0..Len(b)
  PROVE  (a \o SubSeq(b, 1, k)) \o SubSeq(b, k + 1, Len(b)) = a \o b
<1> DEFINE x == SubSeq(b, 1, k)
           y == SubSeq(b, k + 1, Len(b))
<1>1. Len(b) \in Nat /\ k \in Int /\ \A i \in 1..Len(b) : b[i] \in Nat
  OBVIOUS
<1>2. x \in Seq(Nat) /\ y \in Seq(Nat)
  BY <1>1, SubSeqProperties
<1>3. x \o y = b
  <2>1. 1 \in 1..(Len(b) + 1) /\ k \in (1 - 1)..Len(b) /\ Len(b) \in k..Len(b)
    BY <1>1
  <2>2. x \o y = SubSeq(b, 1, Len(b))
    BY <2>1, ConcatAdjacentSubSeq, Zenon
  <2> QED BY <2>2, SubSeqFull, Zenon
<1> HIDE DEF x, y
<1>4. (a \o x) \o y = a \o (x \o y)
  BY <1>2, Regroup
<1> QED BY <1>3, <1>4 DEF x, y

\* Chunks taken from the front, or lost at the end, leave the rest in order.
LEMMA OrderedDrop ==
  ASSUME NEW g \in Seq(Nat), NEW s \in Seq(Nat), NEW t \in Seq(Nat), NEW n \in Nat,
         NEW m \in Nat, n <= m, NEW e \in 0..Len(s), Len(t) <= Len(s) - e,
         \A i \in 1..Len(t) : t[i] = s[i + e],
         Ordered(g, s, n)
  PROVE  Ordered(g, t, m)
<1>1. /\ Len(s) \in Nat /\ Len(t) \in Nat /\ \A i \in 1..Len(t) : i + e \in 1..Len(s)
      /\ \A i \in 1..Len(s) : s[i] \in Nat
      /\ \A i \in 1..Len(g) : g[i] \in Nat
  OBVIOUS
<1>2. ASSUME NEW i \in 1..Len(t) PROVE t[i] < m
  <2>1. PICK x \in Nat : t[i] = x /\ x < n
    BY <1>1 DEF Ordered
  <2> QED BY <2>1
<1>3. ASSUME NEW i \in 1..Len(g) PROVE 2 * g[i] + 1 < m
  <2>1. PICK x \in Nat : g[i] = x /\ 2 * x + 1 < n
    BY <1>1 DEF Ordered
  <2> QED BY <2>1
<1>4. ASSUME NEW i \in 1..Len(t), NEW j \in 1..Len(t), i < j PROVE t[i] < t[j]
  <2>1. i + e < j + e
    BY <1>4
  <2> QED BY <1>1, <2>1 DEF Ordered
<1>5. ASSUME NEW i \in 1..Len(g), NEW j \in 1..Len(t) PROVE 2 * g[i] + 1 < t[j]
  BY <1>1 DEF Ordered
<1> QED BY <1>2, <1>3, <1>4, <1>5 DEF Ordered

\* A chunk the server sends is the last one.
LEMMA OrderedAppend ==
  ASSUME NEW g \in Seq(Nat), NEW s \in Seq(Nat), NEW n \in Nat, Ordered(g, s, n)
  PROVE  Ordered(g, Append(s, n), n + 1)
<1> DEFINE t == Append(s, n)
<1>1. /\ Len(s) \in Nat /\ Len(t) = Len(s) + 1 /\ t[Len(s) + 1] = n
      /\ \A i \in 1..Len(s) : t[i] = s[i] /\ s[i] \in Nat
      /\ \A i \in 1..Len(t) : i = Len(s) + 1 \/ i \in 1..Len(s)
  BY AppendFact, Zenon
<1>g. \A i \in 1..Len(g) : g[i] \in Nat
  OBVIOUS
<1> HIDE DEF t
<1>2. ASSUME NEW i \in 1..Len(t)
      PROVE  (i = Len(s) + 1 /\ t[i] = n) \/ (i \in 1..Len(s) /\ t[i] = s[i] /\ s[i] \in Nat)
  BY <1>1
<1>3. ASSUME NEW i \in 1..Len(t) PROVE t[i] < n + 1
  <2>1. CASE t[i] = n
    BY <2>1
  <2>2. CASE i \in 1..Len(s) /\ t[i] = s[i] /\ s[i] \in Nat
    <3>1. PICK x \in Nat : t[i] = x /\ x < n
      BY <2>2 DEF Ordered
    <3> QED BY <3>1
  <2> QED BY <1>2, <2>1, <2>2
<1>4. ASSUME NEW i \in 1..Len(t), NEW j \in 1..Len(t), i < j PROVE t[i] < t[j]
  <2>1. i \in 1..Len(s)
    BY <1>1, <1>4
  <2>2. t[i] = s[i] /\ s[i] < n
    BY <1>1, <2>1 DEF Ordered
  <2>3. CASE j = Len(s) + 1
    BY <1>1, <2>2, <2>3
  <2>4. CASE j \in 1..Len(s)
    BY <1>1, <1>4, <2>1, <2>4 DEF Ordered
  <2> QED BY <1>2, <2>3, <2>4
<1>5. ASSUME NEW i \in 1..Len(g), NEW j \in 1..Len(t) PROVE 2 * g[i] + 1 < t[j]
  BY <1>2 DEF Ordered
<1>6. ASSUME NEW i \in 1..Len(g) PROVE 2 * g[i] + 1 < n + 1
  <2>1. PICK x \in Nat : g[i] = x /\ 2 * x + 1 < n
    BY <1>g DEF Ordered
  <2> QED BY <2>1
<1> QED BY <1>3, <1>4, <1>5, <1>6 DEF Ordered, t

\* The line of frame f is decoded: the frame joins the decoded ones.
LEMMA OrderedDecode ==
  ASSUME NEW g \in Seq(Nat), NEW s \in Seq(Nat), NEW t \in Seq(Nat), NEW n \in Nat,
         NEW f \in Nat, Len(s) >= 2, s[1] = 2 * f, s[2] = 2 * f + 1,
         Len(t) = Len(s) - 2, \A i \in 1..Len(t) : t[i] = s[i + 2],
         Ordered(g, s, n)
  PROVE  Ordered(Append(g, f), t, n)
<1> DEFINE h == Append(g, f)
<1>1. /\ Len(g) \in Nat /\ Len(h) = Len(g) + 1 /\ h[Len(g) + 1] = f
      /\ \A i \in 1..Len(g) : h[i] = g[i] /\ g[i] \in Nat
      /\ \A i \in 1..Len(h) : i = Len(g) + 1 \/ i \in 1..Len(g)
  BY AppendFact, Zenon
<1> HIDE DEF h
<1>2. /\ Len(s) \in Nat /\ Len(t) \in Nat /\ 1 \in 1..Len(s) /\ 2 \in 1..Len(s)
      /\ 2 \in 0..Len(s) /\ Len(t) <= Len(s) - 2
  OBVIOUS
<1>3. Ordered(g, t, n)
  <2>1. n <= n
    OBVIOUS
  <2> QED BY <1>2, <2>1, OrderedDrop
<1>4. ASSUME NEW i \in 1..Len(g) PROVE g[i] < f
  <2>1. PICK x \in Nat : g[i] = x /\ 2 * x + 1 < 2 * f
    BY <1>1, <1>2 DEF Ordered
  <2>2. x < f
    BY <2>1
  <2> QED BY <2>1, <2>2
<1>5. 2 * f + 1 < n
  BY <1>2 DEF Ordered
<1>6. ASSUME NEW j \in 1..Len(t) PROVE 2 * f + 1 < t[j]
  <2>1. j + 2 \in 1..Len(s) /\ 2 < j + 2 /\ t[j] = s[j + 2]
    BY <1>2
  <2>2. s[2] < s[j + 2]
    BY <1>2, <2>1 DEF Ordered
  <2> QED BY <2>1, <2>2
<1>7. ASSUME NEW i \in 1..Len(h)
      PROVE  (i = Len(g) + 1 /\ h[i] = f) \/ (i \in 1..Len(g) /\ h[i] = g[i])
  BY <1>1
<1>8. ASSUME NEW i \in 1..Len(h) PROVE 2 * h[i] + 1 < n
  BY <1>3, <1>5, <1>7 DEF Ordered
<1>9. ASSUME NEW i \in 1..Len(h), NEW j \in 1..Len(t) PROVE 2 * h[i] + 1 < t[j]
  BY <1>3, <1>6, <1>7 DEF Ordered
<1>10. ASSUME NEW i \in 1..Len(h), NEW j \in 1..Len(h), i < j PROVE h[i] < h[j]
  <2>1. i \in 1..Len(g)
    BY <1>1, <1>10
  <2>2. CASE j = Len(g) + 1
    <3>1. h[i] = g[i] /\ g[i] < f /\ h[j] = f
      BY <1>1, <1>4, <2>1, <2>2
    <3> QED BY <3>1
  <2>3. CASE j \in 1..Len(g)
    BY <1>1, <1>3, <1>10, <2>1, <2>3 DEF Ordered
  <2> QED BY <1>7, <2>2, <2>3
<1> QED BY <1>3, <1>8, <1>9, <1>10 DEF Ordered, h

\* The same three steps keep the stream unbroken.
LEMMA UnbrokenAppend ==
  ASSUME NEW g, NEW s \in Seq(Nat), NEW b \in Nat, NEW k \in Nat, NEW n \in Nat,
         Unbroken(g, s, b, k, n)
  PROVE  Unbroken(g, Append(s, n), b, k, n + 1)
<1> DEFINE t == Append(s, n)
<1>1. /\ Len(s) \in Nat /\ Len(t) = Len(s) + 1 /\ t[Len(s) + 1] = n
      /\ \A i \in 1..Len(s) : t[i] = s[i]
  OBVIOUS
<1> HIDE DEF t
<1>2. Len(t) = n + 1 - 2 * k
  BY <1>1 DEF Unbroken
<1>3. \A i \in 1..Len(t) : t[i] = 2 * k + i - 1
  BY <1>1 DEF Unbroken
<1> QED BY <1>2, <1>3 DEF Unbroken, t

\* What a sequence holds after one more.
LEMMA RangeOfAppend ==
  ASSUME NEW g \in Seq(Nat), NEW f \in Nat
  PROVE  Range(Append(g, f)) = Range(g) \cup {f}
<1> DEFINE h == Append(g, f)
<1>1. /\ Len(g) \in Nat /\ Len(h) = Len(g) + 1 /\ h[Len(g) + 1] = f
      /\ \A i \in 1..Len(g) : h[i] = g[i]
      /\ DOMAIN g = 1..Len(g) /\ DOMAIN h = 1..Len(h)
  OBVIOUS
<1> HIDE DEF h
<1>2. ASSUME NEW x \in Range(h) PROVE x \in Range(g) \cup {f}
  <2>1. PICK i \in 1..Len(h) : x = h[i]
    BY <1>1, <1>2 DEF Range
  <2>2. CASE i = Len(g) + 1
    BY <1>1, <2>1, <2>2
  <2>3. CASE i # Len(g) + 1
    <3>1. i \in 1..Len(g) /\ x = g[i]
      BY <1>1, <2>1, <2>3
    <3> QED BY <1>1, <3>1 DEF Range
  <2> QED BY <2>2, <2>3
<1>3. ASSUME NEW x \in Range(g) \cup {f} PROVE x \in Range(h)
  <2>1. CASE x = f
    <3>1. Len(g) + 1 \in DOMAIN h
      BY <1>1
    <3> QED BY <1>1, <2>1, <3>1 DEF Range
  <2>2. CASE x \in Range(g)
    <3>1. PICK i \in 1..Len(g) : x = g[i]
      BY <1>1, <2>2 DEF Range
    <3>2. i \in DOMAIN h /\ h[i] = x
      BY <1>1, <3>1
    <3> QED BY <3>2 DEF Range
  <2> QED BY <1>3, <2>1, <2>2
<1> QED BY <1>2, <1>3 DEF h

\* A decoded line is the frame that follows the last one.
LEMMA UnbrokenDecode ==
  ASSUME NEW g \in Seq(Nat), NEW s \in Seq(Nat), NEW t \in Seq(Nat), NEW b \in Nat,
         NEW k \in Nat, NEW n \in Nat, Len(s) >= 2,
         Len(t) = Len(s) - 2, \A i \in 1..Len(t) : t[i] = s[i + 2],
         Unbroken(g, s, b, k, n)
  PROVE  Unbroken(Append(g, k), t, b, k + 1, n)
<1>1. Len(s) \in Nat /\ Len(t) \in Nat
  OBVIOUS
<1>2. Len(t) = n - 2 * (k + 1)
  BY <1>1 DEF Unbroken
<1>3. \A i \in 1..Len(t) : t[i] = 2 * (k + 1) + i - 1
  BY <1>1 DEF Unbroken
<1>4. Mine(Append(g, k), b) = b..((k + 1) - 1) /\ b <= k + 1
  <2>1. Mine(g, b) = b..(k - 1) /\ b <= k
    BY DEF Unbroken
  <2>2. Mine(Append(g, k), b) = Mine(g, b) \cup {k}
    BY <2>1, RangeOfAppend DEF Mine
  <2>3. \A x \in b..(k - 1) : x \in b..((k + 1) - 1)
    OBVIOUS
  <2>4. k \in b..((k + 1) - 1) /\ b <= k + 1
    BY <2>1
  <2>5. \A x \in b..((k + 1) - 1) : x \in b..(k - 1) \/ x = k
    OBVIOUS
  <2> QED BY <2>1, <2>2, <2>3, <2>4, <2>5
<1> QED BY <1>2, <1>3, <1>4 DEF Unbroken

------------------------------------------------------------------------------
(* The steps. *)

\* A sequence over a set is one over a larger set.
LEMMA WiderSeq ==
  ASSUME NEW T, NEW S \in SUBSET T, NEW q \in Seq(S)
  PROVE  q \in Seq(T)
OBVIOUS

\* The types the stream needs.
LEMMA StreamTypes ==
  ASSUME NetTypeOK
  PROVE  /\ rx \in Seq(Nat) /\ inflight \in Seq(Nat) /\ Stream \in Seq(Nat)
         /\ got \in Seq(Nat) /\ base \in Nat /\ sendNo \in Nat
         /\ cnt \in Nat /\ decoded \in Nat
<1>1. Chunks \subseteq Nat /\ 0..MaxFrames \subseteq Nat
  BY ClientBoundsAssumption DEF Chunks
<1>2. rx \in Seq(Nat) /\ inflight \in Seq(Nat) /\ got \in Seq(Nat)
  <2>1. rx \in Seq(Chunks) /\ inflight \in Seq(Chunks) /\ got \in Seq(0..MaxFrames)
    BY DEF NetTypeOK
  <2> QED BY <1>1, <2>1, WiderSeq
<1>3. base \in Nat /\ sendNo \in Nat /\ cnt \in Nat /\ decoded \in Nat
  BY <1>1 DEF NetTypeOK
<1>4. Stream \in Seq(Nat)
  BY <1>2 DEF Stream
<1> QED BY <1>2, <1>3, <1>4

\* Nothing has been sent at the start.
LEMMA StreamInit == Init => StreamInv
<1> SUFFICES ASSUME Init PROVE StreamInv
  OBVIOUS
<1>1. got = <<>> /\ Stream = <<>> /\ sendNo = 0 /\ sock = "closed"
  BY DEF Init, Stream
<1>2. Ordered(got, Stream, sendNo)
  BY <1>1 DEF Ordered
<1> QED BY <1>1, <1>2 DEF StreamInv, CleanInv, Up

\* A step that leaves the frames alone.
LEMMA OthersKeepStream ==
  ASSUME StreamInv, UNCHANGED <<got, base, rx, inflight, sendNo, clean>>,
         sock' \in Up => sock \in Up,
         call' = "Receive" => (cnt' = decoded' \/ (call = "Receive" /\ UNCHANGED <<cnt, decoded>>))
  PROVE  StreamInv'
<1>1. Stream' = Stream
  BY DEF Stream
<1>2. Ordered(got, Stream, sendNo)'
  BY <1>1 DEF StreamInv, Ordered
<1>3. CleanInv'
  <2> SUFFICES ASSUME clean', sock' \in Up
               PROVE  /\ \E k \in Nat : Unbroken(got, Stream', base, k, sendNo)
                      /\ call' = "Receive" => cnt' = decoded'
    BY DEF CleanInv, Unbroken, Mine
  <2>1. clean /\ sock \in Up
    OBVIOUS
  <2> QED BY <1>1, <2>1 DEF StreamInv, CleanInv
<1> QED BY <1>2, <1>3 DEF StreamInv

\* The socket is closed: what is on the wire is gone, what is in rx_buff_ stays.
LEMMA ClosingKeepsStream ==
  ASSUME NetTypeOK, StreamInv, inflight' = <<>>, sock' \notin Up,
         UNCHANGED <<got, rx, sendNo>>
  PROVE  StreamInv'
<1>1. /\ rx \in Seq(Nat) /\ inflight \in Seq(Nat) /\ Stream \in Seq(Nat)
      /\ got \in Seq(Nat) /\ sendNo \in Nat
  BY StreamTypes
<1>2. Stream' = rx
  BY <1>1 DEF Stream
<1>3. 0 \in 0..Len(Stream) /\ Len(rx) <= Len(Stream) - 0 /\ sendNo <= sendNo
  BY <1>1 DEF Stream
<1>4. \A i \in 1..Len(rx) : rx[i] = Stream[i + 0]
  BY <1>1 DEF Stream
<1>5. Ordered(got, rx, sendNo)
  BY <1>1, <1>3, <1>4, OrderedDrop DEF StreamInv
<1>6. Ordered(got, Stream, sendNo)'
  BY <1>2, <1>5 DEF Ordered
<1> QED BY <1>6 DEF StreamInv, CleanInv

\* A read takes a part of what is on the wire.
LEMMA ReadArrivesKeepsStream ==
  ASSUME NetTypeOK, StreamInv, NEW k \in 1..(2 * MaxFrames), ReadArrives(k)
  PROVE  StreamInv'
<1>1. rx \in Seq(Nat) /\ inflight \in Seq(Nat)
  BY StreamTypes
<1>2. /\ k \in 0..Len(inflight)
      /\ rx' = rx \o SubSeq(inflight, 1, k)
      /\ inflight' = SubSeq(inflight, k + 1, Len(inflight))
      /\ UNCHANGED <<got, base, sendNo, clean, sock, call, cnt, decoded>>
  BY <1>1 DEF ReadArrives
<1>3. Stream' = Stream
  BY <1>1, <1>2, MoveAlong DEF Stream
<1>4. Ordered(got, Stream, sendNo)'
  BY <1>2, <1>3 DEF StreamInv, Ordered
<1>5. CleanInv'
  BY <1>2, <1>3 DEF StreamInv, CleanInv, Unbroken, Mine
<1> QED BY <1>4, <1>5 DEF StreamInv

\* The server puts a chunk on the wire.
LEMMA ServerSendsKeepsStream ==
  ASSUME NetTypeOK, StreamInv, ServerSends
  PROVE  StreamInv'
<1>1. /\ rx \in Seq(Nat) /\ inflight \in Seq(Nat) /\ Stream \in Seq(Nat)
      /\ got \in Seq(Nat) /\ base \in Nat /\ sendNo \in Nat
  BY StreamTypes
<1>2. /\ sock = "up" /\ inflight' = Append(inflight, sendNo) /\ sendNo' = sendNo + 1
      /\ UNCHANGED <<got, base, rx, clean, sock, call, cnt, decoded>>
  BY DEF ServerSends, rxVars
<1>3. Stream' = Append(Stream, sendNo)
  <2>1. rx \o Append(inflight, sendNo) = Append(rx \o inflight, sendNo)
    BY <1>1, SMTT(30)
  <2> QED BY <1>2, <2>1 DEF Stream
<1>4. Ordered(got, Stream', sendNo')
  BY <1>1, <1>2, <1>3, OrderedAppend DEF StreamInv
<1>5. Ordered(got, Stream, sendNo)'
  BY <1>2, <1>4 DEF Ordered
<1>6. CleanInv'
  <2> SUFFICES ASSUME clean PROVE CleanInv'
    BY <1>2 DEF CleanInv
  <2>1. clean /\ sock \in Up
    BY <1>2 DEF Up
  <2>2. PICK k \in Nat : Unbroken(got, Stream, base, k, sendNo)
    BY <2>1 DEF StreamInv, CleanInv
  <2>3. Unbroken(got, Stream', base, k, sendNo')
    BY <1>1, <1>2, <1>3, <2>2, UnbrokenAppend
  <2>4. Unbroken(got, Stream, base, k, sendNo)'
    BY <1>2, <2>3 DEF Unbroken, Mine
  <2>5. call' = "Receive" => cnt' = decoded'
    BY <1>2, <2>1 DEF StreamInv, CleanInv
  <2> QED BY <2>4, <2>5 DEF CleanInv
<1> QED BY <1>5, <1>6 DEF StreamInv

\* A connection is established: what is left in rx_buff_ is of an older one.
LEMMA ConnectDoneKeepsStream ==
  ASSUME ClientInv, StreamInv, ConnectDone
  PROVE  StreamInv'
<1>1. /\ rx \in Seq(Nat) /\ Stream \in Seq(Nat) /\ got \in Seq(Nat) /\ sendNo \in Nat
  BY StreamTypes DEF ClientInv
<1>2. /\ fn = "connect" /\ op /\ sendNo' = sendNo + (sendNo % 2)
      /\ base' = sendNo' \div 2 /\ clean' = (rx = <<>>)
      /\ UNCHANGED <<inflight, call, rx, got, cnt, decoded>>
  BY DEF ConnectDone, rxVars
<1>3. inflight = <<>> /\ call = "Open"
  BY <1>2 DEF ClientInv, SockInv, CallInv, Up
<1>4. Stream' = Stream
  BY <1>2 DEF Stream
<1>5. clean' => Stream = <<>>
  <2>1. clean' => rx = <<>>
    BY <1>2, Zenon
  <2> QED BY <1>3, <2>1 DEF Stream
<1>6. PICK b \in Nat : sendNo' = 2 * b /\ base' = b /\ sendNo <= 2 * b
  <2>1. ASSUME NEW n \in Nat
        PROVE  LET m == n + (n % 2) IN m \div 2 \in Nat /\ m = 2 * (m \div 2) /\ n <= m
    OBVIOUS
  <2> QED BY <1>1, <1>2, <2>1
<1>7. Ordered(got, Stream, sendNo)'
  <2>1. 0 \in 0..Len(Stream) /\ Len(Stream) <= Len(Stream) - 0 /\ 2 * b \in Nat
    BY <1>1
  <2>2. \A i \in 1..Len(Stream) : Stream[i] = Stream[i + 0]
    BY <1>1
  <2>3. Ordered(got, Stream, 2 * b)
    BY <1>1, <1>6, <2>1, <2>2, OrderedDrop DEF StreamInv
  <2> QED BY <1>2, <1>4, <1>6, <2>3 DEF Ordered
<1>8. CleanInv'
  <2> SUFFICES ASSUME clean' PROVE CleanInv'
    BY DEF CleanInv
  <2>1. Mine(got, b) = b..(b - 1)
    <3>1. ASSUME NEW f \in Range(got) PROVE ~(f >= b)
      <4>0. DOMAIN got = 1..Len(got)
        BY <1>1
      <4>1. PICK i \in 1..Len(got) : f = got[i]
        BY <3>1, <4>0 DEF Range
      <4>2. f \in Nat /\ 2 * f + 1 < sendNo
        BY <1>1, <4>1 DEF StreamInv, Ordered
      <4> QED BY <1>1, <1>6, <4>2
    <3>2. Mine(got, b) = {}
      BY <3>1 DEF Mine
    <3>3. b..(b - 1) = {}
      OBVIOUS
    <3> QED BY <3>2, <3>3
  <2>2. Len(<<>>) = 2 * b - 2 * b /\ 1..Len(<<>>) = {} /\ b <= b
    OBVIOUS
  <2>3. Unbroken(got, <<>>, b, b, 2 * b)
    BY <2>1, <2>2 DEF Unbroken
  <2>4. \E k \in Nat : Unbroken(got, Stream', base', k, sendNo')
    BY <1>4, <1>5, <1>6, <2>3
  <2> QED BY <1>2, <1>3, <2>4 DEF CleanInv, Unbroken, Mine
<1> QED BY <1>7, <1>8 DEF StreamInv

\* A line is taken from rx_buff_: on a clean connection it is the next frame.
LEMMA ReadHandlerKeepsStream ==
  ASSUME ClientInv, StreamInv, ReadHandler
  PROVE  StreamInv'
<1> DEFINE end == LineEnd(rx)
           ok  == end = 2 /\ rx[2] = rx[1] + 1
           f   == rx[1] \div 2
           t   == SubSeq(rx, end + 1, Len(rx)) \o inflight
<1>1. /\ rx \in Seq(Nat) /\ inflight \in Seq(Nat) /\ Stream \in Seq(Nat)
      /\ got \in Seq(Nat) /\ base \in Nat /\ sendNo \in Nat
      /\ cnt \in Nat /\ decoded \in Nat
  BY StreamTypes DEF ClientInv
<1>2. /\ fn = "read" /\ ready # <<>> /\ Head(ready) = "ok" /\ line_process(cnt)
      /\ UNCHANGED <<sock, inflight, sendNo, base, clean, call>>
  BY DEF ReadHandler, Handler, connVars
<1>3. HasLine(rx) /\ cnt < len
  <2>1. ready \in Seq(Handlers) /\ Distinct(ready)
    BY DEF ClientInv, NetTypeOK, Handlers, QueueInv
  <2>2. "ok" \in Waiting
    BY <1>2, <2>1, ElemsTail DEF Waiting
  <2> QED BY <1>2, <2>2 DEF ClientInv, ReadInv
<1>4. /\ end \in 1..Len(rx) /\ rx[end] % 2 = 1
      /\ \A j \in 1..Len(rx) : rx[j] % 2 = 1 => end <= j
  BY <1>1, <1>3, LineEndFact
<1>5. /\ got' = IF ok THEN Append(got, f) ELSE got
      /\ decoded' = IF ok THEN decoded + 1 ELSE decoded
      /\ rx' = SubSeq(rx, end + 1, Len(rx))
      /\ cnt' = cnt + 1
  BY <1>2, <1>3 DEF line_process, ReadHandler
<1>6. Stream' = t
  BY <1>2, <1>5 DEF Stream
<1> HIDE DEF end
<1>7. /\ t \in Seq(Nat) /\ Len(t) = Len(Stream) - end
      /\ \A i \in 1..Len(t) : t[i] = Stream[i + end]
  <2>1. end \in 0..Len(rx)
    BY <1>1, <1>4
  <2> QED BY <1>1, <2>1, DropFront, Zenon DEF Stream
<1> HIDE DEF t
<1>8. /\ Len(rx) \in Nat /\ Len(rx) <= Len(Stream)
      /\ \A i \in 1..Len(rx) : Stream[i] = rx[i] /\ rx[i] \in Nat
  BY <1>1 DEF Stream
<1>9. ok => f \in Nat /\ rx[1] = 2 * f /\ rx[2] = 2 * f + 1 /\ 1 \in 1..Len(rx) /\ 2 \in 1..Len(rx)
  <2> SUFFICES ASSUME ok
               PROVE f \in Nat /\ rx[1] = 2 * f /\ rx[2] = 2 * f + 1
                     /\ 1 \in 1..Len(rx) /\ 2 \in 1..Len(rx)
    OBVIOUS
  <2>1. 1 \in 1..Len(rx) /\ 2 \in 1..Len(rx)
    BY <1>4, <1>8
  <2>2. PICK x \in Nat : rx[1] = x /\ rx[2] = x + 1 /\ (x + 1) % 2 = 1
    BY <1>4, <1>8, <2>1
  <2>3. x \div 2 \in Nat /\ x = 2 * (x \div 2)
    BY <2>2
  <2> QED BY <2>1, <2>2, <2>3
<1> HIDE DEF f
<1>10. Ordered(got', t, sendNo)
  <2>1. CASE ok
    <3>1. /\ Len(Stream) >= 2 /\ Stream[1] = 2 * f /\ Stream[2] = 2 * f + 1
          /\ Len(t) = Len(Stream) - 2 /\ \A i \in 1..Len(t) : t[i] = Stream[i + 2]
      BY <1>1, <1>4, <1>7, <1>8, <1>9, <2>1
    <3>2. Ordered(Append(got, f), t, sendNo)
      BY <1>1, <1>7, <1>9, <2>1, <3>1, OrderedDecode DEF StreamInv
    <3> QED BY <1>5, <2>1, <3>2
  <2>2. CASE ~ok
    <3>1. end \in 0..Len(Stream) /\ Len(t) <= Len(Stream) - end /\ sendNo <= sendNo
      BY <1>1, <1>4, <1>7, <1>8
    <3>2. Ordered(got, t, sendNo)
      BY <1>1, <1>7, <3>1, OrderedDrop DEF StreamInv
    <3> QED BY <1>5, <2>2, <3>2
  <2> QED BY <2>1, <2>2
<1>11. Ordered(got, Stream, sendNo)'
  BY <1>2, <1>6, <1>10 DEF Ordered
<1>12. CleanInv'
  <2> SUFFICES ASSUME clean, sock \in Up PROVE CleanInv'
    BY <1>2 DEF CleanInv
  <2>1. PICK k \in Nat : Unbroken(got, Stream, base, k, sendNo)
    BY DEF StreamInv, CleanInv
  <2>2. \A i \in 1..Len(rx) : rx[i] = 2 * k + i - 1
    BY <1>1, <1>8, <2>1 DEF Unbroken
  <2>3. end # 1
    BY <1>4, <1>8, <2>2
  <2>4. 2 \in 1..Len(rx) /\ rx[2] = 2 * k + 1
    BY <1>4, <1>8, <2>2, <2>3
  <2>5. end = 2
    BY <1>4, <1>8, <2>3, <2>4
  <2>6. ok /\ f = k
    BY <1>4, <1>8, <2>2, <2>4, <2>5, SMTT(30) DEF f
  <2>7. Unbroken(Append(got, k), t, base, k + 1, sendNo)
    <3>1. /\ Len(Stream) >= 2 /\ Len(t) = Len(Stream) - 2
          /\ \A i \in 1..Len(t) : t[i] = Stream[i + 2]
      BY <1>1, <1>4, <1>7, <1>8, <2>5
    <3> QED BY <1>1, <1>7, <2>1, <3>1, UnbrokenDecode
  <2>8. \E j \in Nat : Unbroken(got', Stream', base, j, sendNo)
    BY <1>5, <1>6, <2>6, <2>7
  <2>9. (\E j \in Nat : Unbroken(got, Stream, base, j, sendNo))'
    BY <1>2, <2>8 DEF Unbroken, Mine
  <2>10. call' = "Receive" => cnt' = decoded'
    BY <1>1, <1>2, <1>5, <2>6 DEF StreamInv, CleanInv
  <2> QED BY <2>9, <2>10 DEF CleanInv
<1> QED BY <1>11, <1>12 DEF StreamInv

\* The calls touch no chunk but those a disconnect drops.
LEMMA CallsKeepStream ==
  ASSUME ClientInv, StreamInv, Calls
  PROVE  StreamInv'
<1>1. CASE VCI_OpenDevice
  <2>1. CASE connected
    <3>1. call' = "Open" /\ UNCHANGED <<got, base, rx, inflight, sendNo, clean, sock>>
      BY <1>1, <2>1 DEF VCI_OpenDevice, connVars, rxVars
    <3> QED BY <3>1, OthersKeepStream
  <2>2. CASE ~connected
    <3>1. inflight' = <<>> /\ sock' \notin Up /\ UNCHANGED <<got, rx, sendNo>>
      BY <1>1, <2>2 DEF VCI_OpenDevice, connect, rxVars, Up
    <3> QED BY <3>1, ClosingKeepsStream DEF ClientInv
  <2> QED BY <2>1, <2>2
<1>2. CASE \/ OpenUnresolved \/ Refused \/ VCI_Command("Close") \/ VCI_Command("Command")
           \/ \E n \in 0..MaxLines : VCI_Transmit(n)
  <2>1. call' # "Receive" /\ UNCHANGED <<got, base, rx, inflight, sendNo, clean, sock>>
    BY <1>2 DEF OpenUnresolved, Refused, VCI_Command, VCI_Transmit, Return, connVars, rxVars
  <2> QED BY <2>1, OthersKeepStream
<1>3. ASSUME NEW n \in 0..MaxLen, VCI_Receive(n) PROVE StreamInv'
  <2>1. cnt' = decoded' /\ UNCHANGED <<got, base, rx, inflight, sendNo, clean, sock>>
    BY <1>3 DEF VCI_Receive, connVars
  <2> QED BY <2>1, OthersKeepStream
<1> QED BY <1>1, <1>2, <1>3 DEF Calls

\* The handlers and returns: line_process takes lines off the buffer.
LEMMA RunsKeepStream ==
  ASSUME ClientInv, StreamInv, Runs
  PROVE  StreamInv'
<1> USE DEF connVars, rxVars
<1>1. CASE ReadHandler
  BY <1>1, ReadHandlerKeepsStream
<1>2. CASE \/ \E f \in {"connect", "write", "read"} : TimerHandler(f)
           \/ \E r \in {"ok", "aborted", "error"} : ConnectHandler(r) \/ WriteHandler(r)
           \/ \E r \in {"aborted", "error", "eof"} : ReadFails(r)
  <2>1. UNCHANGED <<got, base, rx, inflight, sendNo, clean, sock, call, cnt, decoded>>
    BY <1>2 DEF TimerHandler, ConnectHandler, WriteHandler, ReadFails
  <2> QED BY <2>1, OthersKeepStream
<1>3. CASE ConnectReturns \/ TransmitGoesOn
  <2>1. /\ UNCHANGED <<got, base, rx, inflight, sendNo, clean, sock, cnt, decoded>>
        /\ call' = call \/ call' = "none"
    BY <1>3 DEF ConnectReturns, TransmitGoesOn, Return
  <2> QED BY <2>1, OthersKeepStream
<1>4. CASE CommandReturns \/ TransmitFails \/ ReadReturns
  <2>1. /\ UNCHANGED <<got, base, rx, sendNo, clean, cnt, decoded>> /\ call' = "none"
        /\ Disconnect \/ UNCHANGED <<sock, inflight>>
    BY <1>4 DEF CommandReturns, TransmitFails, ReadReturns, Return
  <2>2. CASE Disconnect
    BY <2>1, <2>2, ClosingKeepsStream DEF Disconnect, Up, ClientInv
  <2>3. CASE UNCHANGED <<sock, inflight>>
    BY <2>1, <2>3, OthersKeepStream
  <2> QED BY <2>1, <2>2, <2>3
<1> QED BY <1>1, <1>2, <1>3, <1>4 DEF Runs

\* The network appends, moves and drops chunks.
LEMMA NetworkKeepsStream ==
  ASSUME ClientInv, StreamInv, Network
  PROVE  StreamInv'
<1> USE DEF connVars, rxVars
<1>1. CASE ConnectDone
  BY <1>1, ConnectDoneKeepsStream
<1>2. CASE ServerSends
  BY <1>2, ServerSendsKeepsStream DEF ClientInv
<1>3. ASSUME NEW k \in 1..(2 * MaxFrames), ReadArrives(k) PROVE StreamInv'
  BY <1>3, ReadArrivesKeepsStream DEF ClientInv
<1>4. CASE ConnectRefused \/ WriteBreaks \/ ReadBreaks
  <2>1. UNCHANGED <<got, base, rx, inflight, sendNo, clean, sock, call, cnt, decoded>>
    BY <1>4 DEF ConnectRefused, WriteBreaks, ReadBreaks
  <2> QED BY <2>1, OthersKeepStream
<1>5. CASE WriteTakes \/ ServerEnds("fin") \/ ServerEnds("reset")
  <2>1. /\ UNCHANGED <<got, base, rx, inflight, sendNo, clean, call, cnt, decoded>>
        /\ sock \in Up
    BY <1>5 DEF WriteTakes, ServerEnds, Up
  <2> QED BY <2>1, OthersKeepStream
<1> QED BY <1>1, <1>2, <1>3, <1>4, <1>5 DEF Network, Reported

\* Every step keeps the stream.
LEMMA StreamStep == ClientInv /\ StreamInv /\ [Next]_vars => StreamInv'
<1> SUFFICES ASSUME ClientInv, StreamInv, [Next]_vars PROVE StreamInv'
  OBVIOUS
<1>1. CASE Calls
  BY <1>1, CallsKeepStream
<1>2. CASE Runs
  BY <1>2, RunsKeepStream
<1>3. CASE Network
  BY <1>3, NetworkKeepsStream
<1>4. CASE TimerExpires \/ UNCHANGED vars
  <2>1. UNCHANGED <<got, base, rx, inflight, sendNo, clean, sock, call, cnt, decoded>>
    BY <1>4 DEF TimerExpires, vars, connVars, rxVars
  <2> QED BY <2>1, OthersKeepStream
<1> QED BY <1>1, <1>2, <1>3, <1>4 DEF Next

\* The stream is in order in every reachable state.
LEMMA StreamInductive == Spec => []StreamInv
<1>1. ClientInv /\ StreamInv /\ [Next]_vars => StreamInv'
  BY StreamStep
<1> QED BY <1>1, ClientInductive, StreamInit, PTL DEF Spec

------------------------------------------------------------------------------
(* The theorems. *)

\* GotInOrder: whatever call, deadline and reconnection line_process meets, the
\* frames it decodes come in the order the server sent them, and none comes twice.
THEOREM FramesInOrder == Spec => []GotInOrder
<1>1. StreamInv => GotInOrder
  BY DEF StreamInv, Ordered, GotInOrder
<1> QED BY <1>1, StreamInductive, PTL

\* NoFrameLost: on a connection that found rx_buff_ empty, the frames decoded by
\* line_process, then rx_buff_, then what is on the wire are what the server sent,
\* and async_read counts exactly the frames.
THEOREM NothingLostOnTheWay == Spec => []NoFrameLost
<1>1. ClientInv /\ StreamInv => NoFrameLost
  <2> SUFFICES ASSUME ClientInv, StreamInv, clean, sock \in Up
               PROVE  LET mine == {f \in Range(got) : f >= base}
                          next == base + Cardinality(mine)
                      IN  /\ mine = base..(next - 1)
                          /\ rx \o inflight = [i \in 1..(sendNo - 2 * next) |-> 2 * next + i - 1]
                          /\ call = "Receive" => cnt = decoded
    BY DEF NoFrameLost, Up
  <2>1. Stream \in Seq(Nat) /\ base \in Nat /\ sendNo \in Nat
    BY StreamTypes DEF ClientInv
  <2>2. PICK k \in Nat : Unbroken(got, Stream, base, k, sendNo)
    BY DEF StreamInv, CleanInv
  <2>3. Mine(got, base) = base..(k - 1) /\ base <= k
    BY <2>2 DEF Unbroken
  <2>4. base + Cardinality(Mine(got, base)) = k
    <3>1. base \in Int /\ k - 1 \in Int
      BY <2>1
    <3>2. Cardinality(base..(k - 1)) = IF base > k - 1 THEN 0 ELSE (k - 1) - base + 1
      BY <3>1, FS_Interval
    <3> QED BY <2>1, <2>3, <3>2
  <2>5. Stream = [i \in 1..(sendNo - 2 * k) |-> 2 * k + i - 1]
    <3>1. DOMAIN Stream = 1..(sendNo - 2 * k)
      BY <2>1, <2>2 DEF Unbroken
    <3>2. \A i \in 1..(sendNo - 2 * k) : Stream[i] = 2 * k + i - 1
      BY <2>1, <2>2 DEF Unbroken
    <3> QED BY <2>1, <3>1, <3>2
  <2>6. call = "Receive" => cnt = decoded
    BY DEF StreamInv, CleanInv
  <2> QED BY <2>3, <2>4, <2>5, <2>6, Zenon DEF Mine, Stream
<1> QED BY <1>1, ClientInductive, StreamInductive, PTL
==============================================================================

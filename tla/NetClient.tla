------------------------------ MODULE NetClient ------------------------------
(***************************************************************************)
(* CanImpCanNet, the client side of libControlCAN: every VCI_ call starts  *)
(* one asynchronous socket operation and one deadline timer on a private   *)
(* io_context and runs that io_context until neither is left.              *)
(*                                                                         *)
(* A line of the protocol travels as two chunks, so that a read or a write *)
(* may stop in the middle of it.  The line of frame f is <<2f, 2f+1>>;     *)
(* only the second chunk ends with a newline.  Completion handlers wait in *)
(* the io_context in the order in which the operating system reported      *)
(* them: socket operation and timer may come in either order, and a        *)
(* handler that is queued cannot be cancelled any more.                    *)
(***************************************************************************)
EXTENDS Naturals, Sequences, FiniteSets, Functions

CONSTANTS MaxFrames,  \* bound: frames the server sends in one run
          MaxLen,     \* bound: the len argument of VCI_Receive
          MaxLines    \* bound: the len argument of VCI_Transmit

ASSUME ClientBoundsAssumption == MaxFrames \in Nat /\ MaxLen \in Nat /\ MaxLines \in Nat

VARIABLES
  addr,       \* _str_sock_addr and _str_sock_port were found in control_can.ini
  connected,  \* _connected
  sock,       \* client_socket_ and the state of its connection
  inflight,   \* chunks the server sent and the client has not read
  rx,         \* rx_buff_
  sendNo,     \* the next chunk the server sends
  call,       \* the VCI_ function that runs
  fn,         \* where it is: connect(), write_line(), run() of VCI_Receive, ...
  op,         \* the socket operation is outstanding
  timer,      \* the wait on timer_ is outstanding
  ready,      \* handlers that wait to be run: "timer", or the operation's result
  ec,         \* the error code the handlers leave
  want,       \* lines this call has to write
  line,       \* lines it has written
  taken,      \* chunks of the current line the kernel took
  cnt,        \* asyncReadParam::read_cnt_
  len,        \* VCI_Receive's len
  res,        \* the status returned last
  got,        \* history: frames decoded
  slots,      \* history: elements of pReceive this call wrote
  decoded,    \* history: frames this call decoded
  whole,      \* history: lines of this call the kernel took completely
  base,       \* history: first frame of this connection
  clean,      \* history: rx_buff_ was empty when it was established
  torn,       \* history: an incomplete line was left on it
  txFailed    \* history: a VCI_Transmit failed on it

connVars == <<connected, sock, inflight, sendNo, base, clean, torn>>
runVars  == <<op, timer, ready, ec>>
txVars   == <<want, line, taken, whole>>
rxVars   == <<rx, cnt, len, got, slots, decoded>>
vars     == <<addr, connVars, call, fn, runVars, txVars, rxVars, res, txFailed>>

Chunks  == 0..(2 * MaxFrames)
Results == {"ok", "aborted", "error", "eof"}

NetTypeOK ==
  /\ addr \in BOOLEAN
  /\ connected \in BOOLEAN
  /\ sock \in {"closed", "open", "up", "fin", "reset"}
  /\ inflight \in Seq(Chunks) /\ rx \in Seq(Chunks) /\ sendNo \in Chunks
  /\ call \in {"none", "Open", "Close", "Command", "Transmit", "Receive"}
  /\ fn \in {"idle", "connect", "write", "read"}
  /\ op \in BOOLEAN /\ timer \in BOOLEAN
  /\ ready \in Seq(Results \cup {"timer"})
  /\ ec \in Results \cup {"timed_out"}
  /\ want \in 0..MaxLines \cup {1} /\ line \in 0..want
  /\ taken \in 0..2 /\ whole \in 0..want
  /\ len \in 0..MaxLen /\ cnt \in Nat /\ slots \in Nat /\ decoded \in Nat
  /\ res \in {"none", "OK", "ERR", "CONN_FAIL", "THROW"}
  /\ got \in Seq(0..MaxFrames) /\ base \in 0..MaxFrames
  /\ clean \in BOOLEAN /\ torn \in BOOLEAN /\ txFailed \in BOOLEAN

Init ==
  /\ addr \in BOOLEAN
  /\ connected = FALSE /\ sock = "closed"
  /\ inflight = <<>> /\ rx = <<>> /\ sendNo = 0
  /\ call = "none" /\ fn = "idle"
  /\ op = FALSE /\ timer = FALSE /\ ready = <<>> /\ ec = "ok"
  /\ want = 0 /\ line = 0 /\ taken = 0 /\ whole = 0
  /\ cnt = 0 /\ len = 0 /\ slots = 0 /\ decoded = 0
  /\ res = "none" /\ got = <<>>
  /\ base = 0 /\ clean = TRUE /\ torn = FALSE /\ txFailed = FALSE

------------------------------------------------------------------------------
(* The io_context. *)

\* An operation and the deadline timer are started.
StartTimed(f) ==
  /\ fn' = f
  /\ op' = TRUE
  /\ timer' = TRUE
  /\ ec' = "ok"
  /\ UNCHANGED ready

\* The socket operation ends and its handler is queued.
Complete(result) ==
  /\ op' = FALSE
  /\ ready' = Append(ready, result)
  /\ UNCHANGED <<timer, ec>>

\* A handler is about to run.
Handler(f, h) == fn = f /\ ready # <<>> /\ Head(ready) = h

\* run() is out of work.
RunReturns(f) == fn = f /\ ready = <<>> /\ ~op /\ ~timer

\* Mutant: the timer handler does not cancel the operation.
CancelForgotten == ready' = Tail(ready) /\ UNCHANGED op

\* client_socket_.cancel(), called by the handler that runs: an operation
\* that is outstanding is aborted, a result that is queued stays.
CancelSocket ==
  /\ op' = FALSE
  /\ ready' = IF op THEN Append(Tail(ready), "aborted") ELSE Tail(ready)

\* Mutant: the socket is closed but _connected stays set.
DisconnectKeepsFlag ==
  /\ sock' = "closed"
  /\ inflight' = <<>>
  /\ UNCHANGED connected

\* _connected.store(false) and client_socket_.close().
Disconnect ==
  /\ connected' = FALSE
  /\ sock' = "closed"
  /\ inflight' = <<>>

\* The deadline passes.
TimerExpires ==
  /\ timer
  /\ timer' = FALSE
  /\ ready' = Append(ready, "timer")
  /\ UNCHANGED <<connVars, call, fn, op, ec, txVars, rxVars, res, txFailed>>

\* The timer handlers of connect(), write_line() and VCI_Receive.
TimerHandler(f) ==
  /\ Handler(f, "timer")
  /\ ec' = CASE f = "connect" -> "timed_out"
             [] f = "write"   -> "aborted"
             [] f = "read"    -> ec
  /\ CancelSocket
  /\ UNCHANGED <<connVars, call, fn, timer, txVars, rxVars, res, txFailed>>

Return(status) ==
  /\ call' = "none"
  /\ fn' = "idle"
  /\ res' = status

------------------------------------------------------------------------------
(* write_line() and connect(). *)

write_line == StartTimed("write") /\ taken' = 0

\* async_connect closes the socket and opens it again.
connect ==
  /\ StartTimed("connect")
  /\ sock' = "open"
  /\ inflight' = <<>>
  /\ UNCHANGED <<connected, sendNo, base, clean, torn>>

\* The lines a call writes: one for a command, n for VCI_Transmit.
Batch(n) == want' = n /\ line' = 0 /\ whole' = 0

VCI_OpenDevice ==
  /\ call = "none"
  /\ addr
  /\ call' = "Open"
  /\ Batch(1)
  /\ IF connected THEN write_line /\ UNCHANGED connVars
                  ELSE connect /\ UNCHANGED taken
  /\ UNCHANGED <<rxVars, res, txFailed>>

\* VCI_OpenDevice without an address gives up at once; resolve() throws when
\* the name of the server is not known, and nobody catches the exception.
OpenUnresolved ==
  /\ call = "none"
  /\ Batch(1)
  /\ \/ ~addr /\ Return("CONN_FAIL")
     \/ addr /\ ~connected /\ Return("THROW")
  /\ UNCHANGED <<connVars, runVars, taken, rxVars, txFailed>>

\* VCI_CloseDevice; VCI_InitCAN, VCI_ReadErrInfo, VCI_ClearBuffer,
\* VCI_StartCAN and VCI_ResetCAN ("Command").
VCI_Command(c) ==
  /\ call = "none"
  /\ connected
  /\ call' = c
  /\ Batch(1)
  /\ write_line
  /\ UNCHANGED <<connVars, rxVars, res, txFailed>>

VCI_Transmit(n) ==
  /\ call = "none"
  /\ connected
  /\ Batch(n)
  /\ IF n = 0 THEN Return("OK") /\ UNCHANGED <<runVars, taken>>
              ELSE call' = "Transmit" /\ write_line /\ UNCHANGED res
  /\ UNCHANGED <<connVars, rxVars, txFailed>>

\* Every call but VCI_OpenDevice refuses to work without a connection, and
\* VCI_ReadBoardInfo, VCI_ReadCANStatus, VCI_GetReference and VCI_SetReference
\* refuse always.
Refused ==
  /\ call = "none"
  /\ Batch(0)
  /\ Return("ERR")
  /\ UNCHANGED <<connVars, runVars, taken, rxVars, txFailed>>

\* The connection is established, and the server starts with a whole line.
ConnectDone ==
  /\ fn = "connect"
  /\ op
  /\ Complete("ok")
  /\ sock' = "up"
  /\ sendNo' = sendNo + (sendNo % 2)
  /\ base' = sendNo' \div 2
  /\ clean' = (rx = <<>>)
  /\ torn' = FALSE
  /\ txFailed' = FALSE
  /\ UNCHANGED <<connected, inflight, call, fn, txVars, rxVars, res>>

ConnectRefused ==
  /\ fn = "connect"
  /\ op
  /\ Complete("error")
  /\ UNCHANGED <<connVars, call, fn, txVars, rxVars, res, txFailed>>

ConnectHandler(r) ==
  /\ Handler("connect", r)
  /\ ec' = r
  /\ timer' = (timer /\ r = "aborted")
  /\ ready' = Tail(ready)
  /\ UNCHANGED <<connVars, call, fn, op, txVars, rxVars, res, txFailed>>

ConnectReturns ==
  /\ RunReturns("connect")
  /\ IF ec = "ok"
     THEN /\ connected' = TRUE
          /\ write_line
          /\ UNCHANGED <<call, res>>
     ELSE /\ Return("CONN_FAIL")
          /\ UNCHANGED <<connected, runVars, taken>>
  /\ UNCHANGED <<sock, inflight, sendNo, base, clean, torn, want, line, whole,
                 rxVars, txFailed>>

\* The kernel takes a chunk; a server that has closed answers with a reset.
WriteTakes ==
  /\ fn = "write"
  /\ op
  /\ sock \in {"up", "fin"}
  /\ taken' = taken + 1
  /\ sock' = IF sock = "fin" THEN "reset" ELSE sock
  /\ IF taken' = 2 THEN Complete("ok") /\ whole' = whole + 1
                   ELSE UNCHANGED <<runVars, whole>>
  /\ UNCHANGED <<connected, inflight, sendNo, base, clean, torn, call, fn, want,
                 line, rxVars, res, txFailed>>

WriteBreaks ==
  /\ fn = "write"
  /\ op
  /\ sock = "reset"
  /\ Complete("error")
  /\ UNCHANGED <<connVars, call, fn, txVars, rxVars, res, txFailed>>

WriteHandler(r) ==
  /\ Handler("write", r)
  /\ ec' = r
  /\ timer' = (timer /\ r # "ok")
  /\ ready' = Tail(ready)
  /\ UNCHANGED <<connVars, call, fn, op, txVars, rxVars, res, txFailed>>

\* A line of which the kernel took a part only is on the wire for good.
TornLine == torn' = (torn \/ taken = 1)

\* Mutant: as in VCI_Transmit, a write that timed out keeps the connection.
CommandKeepsTimedOut ==
  /\ call \in {"Open", "Close", "Command"}
  /\ RunReturns("write")
  /\ IF ec \notin {"ok", "aborted"} \/ (ec = "ok" /\ call = "Close")
     THEN Disconnect
     ELSE UNCHANGED <<connected, sock, inflight>>
  /\ TornLine
  /\ line' = IF ec = "ok" THEN 1 ELSE 0
  /\ Return(IF ec = "ok" THEN "OK" ELSE "ERR")
  /\ UNCHANGED <<sendNo, base, clean, runVars, want, taken, whole, rxVars, txFailed>>

\* The rest of VCI_OpenDevice, VCI_CloseDevice and the commands.
CommandReturns ==
  /\ call \in {"Open", "Close", "Command"}
  /\ RunReturns("write")
  /\ IF ec # "ok" \/ call = "Close"
     THEN Disconnect
     ELSE UNCHANGED <<connected, sock, inflight>>
  /\ TornLine
  /\ line' = IF ec = "ok" THEN 1 ELSE 0
  /\ Return(IF ec = "ok" THEN "OK" ELSE "ERR")
  /\ UNCHANGED <<sendNo, base, clean, runVars, want, taken, whole, rxVars, txFailed>>

\* Mutant: the loop runs once too often.
TransmitOneMore ==
  /\ call = "Transmit"
  /\ RunReturns("write")
  /\ ec = "ok"
  /\ line' = line + 1
  /\ IF line' <= want THEN write_line /\ UNCHANGED <<call, res>>
                      ELSE Return("OK") /\ UNCHANGED <<runVars, taken>>
  /\ UNCHANGED <<connVars, want, whole, rxVars, txFailed>>

\* Mutant: a cancelled write counts as written.
TransmitIgnoresCancel ==
  /\ call = "Transmit"
  /\ RunReturns("write")
  /\ ec \in {"ok", "aborted"}
  /\ line' = line + 1
  /\ IF line' < want THEN write_line /\ UNCHANGED <<call, res>>
                     ELSE Return("OK") /\ UNCHANGED <<runVars, taken>>
  /\ UNCHANGED <<connVars, want, whole, rxVars, txFailed>>

\* write_line() returned the length: VCI_Transmit goes on with the next line.
TransmitGoesOn ==
  /\ call = "Transmit"
  /\ RunReturns("write")
  /\ ec = "ok"
  /\ line' = line + 1
  /\ IF line' < want THEN write_line /\ UNCHANGED <<call, res>>
                     ELSE Return("OK") /\ UNCHANGED <<runVars, taken>>
  /\ UNCHANGED <<connVars, want, whole, rxVars, txFailed>>

\* write_line() failed.  It returns 0 when the write was cancelled, and only a
\* negative result makes VCI_Transmit give up the connection.
TransmitFails ==
  /\ call = "Transmit"
  /\ RunReturns("write")
  /\ ec # "ok"
  /\ IF ec # "aborted"
     THEN Disconnect
     ELSE UNCHANGED <<connected, sock, inflight>>
  /\ TornLine
  /\ txFailed' = TRUE
  /\ Return("ERR")
  /\ UNCHANGED <<sendNo, base, clean, runVars, txVars, rxVars>>

------------------------------------------------------------------------------
(* VCI_Receive. *)

\* Positions of the newlines in a buffer.
Newlines(b) == {i \in 1..Len(b) : b[i] % 2 = 1}

HasLine(b) == Newlines(b) # {}

LineEnd(b) == CHOOSE i \in Newlines(b) : \A j \in Newlines(b) : i <= j

\* Mutant: the whole buffer is consumed with its first line.
line_process_drops(i) ==
  /\ slots' = IF i < slots THEN slots ELSE i + 1
  /\ got' = Append(got, rx[1] \div 2)
  /\ decoded' = decoded + 1
  /\ rx' = <<>>

\* Mutant: the line stays in the buffer.
line_process_keeps(i) ==
  /\ slots' = IF i < slots THEN slots ELSE i + 1
  /\ got' = Append(got, rx[1] \div 2)
  /\ decoded' = decoded + 1
  /\ UNCHANGED rx

\* line_process: only a line that is one frame is decoded, to element i of
\* pReceive; then the buffer is consumed up to the newline.
line_process(i) ==
  LET end == LineEnd(rx)
      ok  == end = 2 /\ rx[2] = rx[1] + 1
  IN  /\ slots' = IF i < slots THEN slots ELSE i + 1
      /\ got' = IF ok THEN Append(got, rx[1] \div 2) ELSE got
      /\ decoded' = IF ok THEN decoded + 1 ELSE decoded
      /\ rx' = SubSeq(rx, end + 1, Len(rx))

\* Mutant: the test for the end of pReceive is off by one.
async_read_one_more(n, count, buff, queue, armed) ==
  IF count > n
  THEN timer' = FALSE /\ op' = FALSE /\ ready' = queue
  ELSE /\ timer' = armed
       /\ op' = ~HasLine(buff)
       /\ ready' = IF HasLine(buff) THEN Append(queue, "ok") ELSE queue

\* Mutant: a line that is in the buffer already is not looked for.
async_read_waits(n, count, buff, queue, armed) ==
  /\ timer' = (armed /\ count < n)
  /\ op' = (count < n)
  /\ ready' = queue

\* async_read: stop at len_, else read up to the next newline.  A line that is
\* in the buffer already is reported at once.  queue is what waits to be run.
async_read(n, count, buff, queue, armed) ==
  IF count >= n
  THEN /\ timer' = FALSE
       /\ op' = FALSE
       /\ ready' = queue
  ELSE /\ timer' = armed
       /\ op' = ~HasLine(buff)
       /\ ready' = IF HasLine(buff) THEN Append(queue, "ok") ELSE queue

VCI_Receive(n) ==
  /\ call = "none"
  /\ len' = n
  /\ cnt' = 0 /\ slots' = 0 /\ decoded' = 0
  /\ IF ~connected \/ n = 0
     THEN UNCHANGED <<call, fn, runVars>>
     ELSE /\ call' = "Receive"
          /\ fn' = "read"
          /\ ec' = "ok"
          /\ async_read(n, 0, rx, <<>>, TRUE)
  /\ UNCHANGED <<connVars, txVars, rx, got, res, txFailed>>

\* read_some: a part of what was sent arrives; without a newline the
\* operation goes on.
ReadArrives(k) ==
  /\ fn = "read"
  /\ op
  /\ k <= Len(inflight)
  /\ rx' = rx \o SubSeq(inflight, 1, k)
  /\ inflight' = SubSeq(inflight, k + 1, Len(inflight))
  /\ IF HasLine(rx') THEN Complete("ok") ELSE UNCHANGED runVars
  /\ UNCHANGED <<connected, sock, sendNo, base, clean, torn, call, fn, txVars,
                 cnt, len, got, slots, decoded, res, txFailed>>

ReadBreaks ==
  /\ fn = "read"
  /\ op
  /\ \/ sock = "fin" /\ inflight = <<>> /\ Complete("eof")
     \/ sock = "reset" /\ Complete("error")
  /\ UNCHANGED <<connVars, call, fn, txVars, rxVars, res, txFailed>>

\* The handler of async_read_until, without and with an error.
ReadHandler ==
  /\ Handler("read", "ok")
  /\ ec' = "ok"
  /\ line_process(cnt)
  /\ IF cnt < len
     THEN /\ cnt' = cnt + 1
          /\ async_read(len, cnt', rx', Tail(ready), timer)
     ELSE /\ timer' = FALSE
          /\ ready' = Tail(ready)
          /\ UNCHANGED <<cnt, op>>
  /\ UNCHANGED <<connVars, call, fn, txVars, len, res, txFailed>>

ReadFails(r) ==
  /\ Handler("read", r)
  /\ ec' = r
  /\ ready' = Tail(ready)
  /\ UNCHANGED <<connVars, call, fn, op, timer, txVars, rxVars, res, txFailed>>

\* The rest of VCI_Receive: an error other than a cancellation ends the
\* connection.  The post process finds no line it could take, see
\* NothingLeftToPost, and is left out.
ReadReturns ==
  /\ RunReturns("read")
  /\ IF ec \in {"ok", "aborted"} THEN UNCHANGED <<connected, sock, inflight>>
                               ELSE Disconnect
  /\ Return(res)
  /\ UNCHANGED <<sendNo, base, clean, torn, runVars, txVars, rxVars, txFailed>>

------------------------------------------------------------------------------
(* The server's end of the connection. *)

ServerSends ==
  /\ sock = "up"
  /\ sendNo < 2 * MaxFrames
  /\ inflight' = Append(inflight, sendNo)
  /\ sendNo' = sendNo + 1
  /\ UNCHANGED <<connected, sock, base, clean, torn, call, fn, runVars, txVars,
                 rxVars, res, txFailed>>

ServerEnds(s) ==
  /\ sock = "up" \/ (sock = "fin" /\ s = "reset")
  /\ sock' = s
  /\ UNCHANGED <<connected, inflight, sendNo, base, clean, torn, call, fn,
                 runVars, txVars, rxVars, res, txFailed>>

------------------------------------------------------------------------------
\* What the application may call.
Calls ==
  \/ VCI_OpenDevice \/ OpenUnresolved
  \/ VCI_Command("Close") \/ VCI_Command("Command") \/ Refused
  \/ \E n \in 0..MaxLines : VCI_Transmit(n)
  \/ \E n \in 0..MaxLen : VCI_Receive(n)

\* What the calling thread does once a call runs.
Runs ==
  \/ \E f \in {"connect", "write", "read"} : TimerHandler(f)
  \/ \E r \in {"ok", "aborted", "error"} : ConnectHandler(r) \/ WriteHandler(r)
  \/ ReadHandler
  \/ \E r \in {"aborted", "error", "eof"} : ReadFails(r)
  \/ ConnectReturns \/ CommandReturns \/ TransmitGoesOn \/ TransmitFails
  \/ ReadReturns

\* What the kernel reports of a read or a write on its own account.
Reported ==
  \/ ReadBreaks \/ WriteBreaks
  \/ \E k \in 1..(2 * MaxFrames) : ReadArrives(k)

\* What the kernel and the server do.
Network ==
  \/ ConnectDone \/ ConnectRefused \/ WriteTakes \/ Reported
  \/ ServerSends \/ ServerEnds("fin") \/ ServerEnds("reset")

Next == (Calls \/ Runs \/ TimerExpires \/ Network) /\ UNCHANGED addr

Spec == Init /\ [][Next]_vars

\* The calling thread runs what is ready, deadlines pass, and the kernel
\* reports data that is there and connections that are gone.  Nothing is
\* assumed of the server, of the room for a write or of the application.
FairSpec ==
  /\ Spec
  /\ WF_vars(Runs /\ UNCHANGED addr)
  /\ WF_vars(TimerExpires /\ UNCHANGED addr)
  /\ WF_vars(Reported /\ UNCHANGED addr)

------------------------------------------------------------------------------
(* Properties. *)

\* A socket operation is only started on a connection: whatever timeout and
\* completion race in connect(), write_line() and VCI_Receive, _connected is
\* never left set on a socket that was closed or never connected.
ConnectedIsUsable ==
  /\ connected => sock \in {"up", "fin", "reset"}
  /\ fn \in {"write", "read"} => connected

\* VCI_Receive never writes behind the len elements of pReceive: async_read
\* starts no read that its handler would have no element for.
BufferNotOverrun == slots <= len /\ cnt <= len

\* "post process: try read available data in rx buffer" in VCI_Receive never
\* finds a line: when run() returns on a connection that is kept, either len
\* elements were read or the buffer holds no newline, because a line that is
\* in the buffer is reported at once and cannot be cancelled any more.
NothingLeftToPost ==
  (RunReturns("read") /\ ec \in {"ok", "aborted"}) => (HasLine(rx) => cnt >= len)

\* On a connection that was established with an empty receive buffer no frame
\* is lost, repeated or reordered between the server and the application,
\* through any sequence of calls, timeouts and cancelled reads, and every
\* element VCI_Receive counts is a frame: the frames decoded, then the receive
\* buffer, then what is on the wire, are what the server sent.
NoFrameLost ==
  (clean /\ sock \in {"up", "fin", "reset"}) =>
    LET mine == {f \in Range(got) : f >= base}
        next == base + Cardinality(mine)
    IN  /\ mine = base..(next - 1)
        /\ rx \o inflight = [i \in 1..(sendNo - 2 * next) |-> 2 * next + i - 1]
        /\ call = "Receive" => cnt = decoded

\* Frames come in the order they were sent and never twice, also across
\* reconnections that find the rest of an old line in rx_buff_.
GotInOrder == \A i, j \in 1..Len(got) : i < j => got[i] < got[j]

\* STATUS_OK means that the kernel took every line of the call completely,
\* however the write, its timeout and the cancellation are ordered.
OkMeansSent == (call = "none" /\ res = "OK") => whole = want /\ line = want

\* A line that was cut by the 100 ms timeout spoils what follows on the
\* connection.  Only VCI_Transmit keeps such a connection, and it has reported
\* STATUS_ERR: after every other call the connection is gone.
TornOnlyAfterTransmit == (call = "none" /\ connected /\ torn) => txFailed

\* To its caller CanImpCanNet keeps the contract of NetPort: of all the orders in
\* which connect, write, read, deadline and cancellation may end, none returns a
\* status that does not go with what became of the connection.
Port == INSTANCE NetPort WITH NoStatus <- "NONE"
ImplementsNetPort == Port!PSpec

\* VCI_OpenDevice, VCI_CloseDevice, the commands and VCI_Transmit return, with
\* a server that neither answers nor reads.
WritesReturn ==
  []<>(call \notin {"Open", "Close", "Command", "Transmit"})

\* The comments in VCI_Receive and async_read: the deadline timer cancels the
\* read ("no error mean timeout") unless the read has finished.
ReceiveReturns == call = "Receive" ~> call = "none"

\* The comment in VCI_Receive: what it returns is the frame count.
ReturnsFrameCount == call = "none" => cnt = decoded
==============================================================================

---------------------------- MODULE CanSystemProofs ----------------------------
(***************************************************************************)
(* EndToEnd for any bounds: the stream of NetClient and the promise of     *)
(* SessionStream, joined at the lines of the connection.                   *)
(***************************************************************************)
EXTENDS CanSystem, NetClientProofs

------------------------------------------------------------------------------
(* The inductive invariant. *)

SessionTypeOK ==
  /\ on \in BOOLEAN
  /\ backlog \in Seq(Nat) /\ lines \in Seq(Nat)
  /\ frame \in 0..LastFrame /\ joined \in 0..frame /\ lost \in SUBSET Nat

\* Every two chunks are a line, which counts with its first half; a session has
\* a connection, and the lines of a connection begin with base.
LinesInv ==
  /\ sendNo \in {2 * Len(lines), 2 * Len(lines) - 1}
  /\ base <= Len(lines)
  /\ on => sock = "up"

\* The frames in s are in order and are, with those in d, all from j to n - 1.
Accounted(s, d, j, n) ==
  /\ \A i, k \in 1..Len(s) : i < k => s[i] < s[k]
  /\ Range(s) \cup d = j..(n - 1)
  /\ Range(s) \cap d = {}

OfferedInv == on => Accounted(Wire \o backlog, lost, joined, frame)

\* After the first e frames, which are older, g counts from b on.
CountsFrom(g, b, e) ==
  /\ \A i \in 1..e : g[i] < b
  /\ \A i \in (e + 1)..Len(g) : g[i] = b + (i - e) - 1

DecodedInv ==
  (clean /\ sock \in Up) => \E e \in 0..Len(got) : CountsFrom(got, base, e)

SystemInv == SessionTypeOK /\ LinesInv /\ OfferedInv /\ DecodedInv

------------------------------------------------------------------------------
(* The client in the system. *)

\* Every step of the system is a step of NetClient, or none.
LEMMA SystemRunsClient == [SysNext]_sysVars => [Next]_vars
<1> SUFFICES ASSUME [SysNext]_sysVars PROVE [Next]_vars
  OBVIOUS
<1>1. CASE ClientStep
  BY <1>1 DEF ClientStep, Client, Next, Network
<1>2. CASE ClientWrites
  BY <1>2 DEF ClientWrites, Next, Network
<1>3. CASE AgentSends
  BY <1>3 DEF AgentSends, Next, Network
<1>4. CASE AgentEnds
  BY <1>4 DEF AgentEnds, Next, Network
<1>5. CASE AgentAccepts \/ AgentOffers \/ UNCHANGED sysVars
  BY <1>5 DEF AgentAccepts, AgentOffers, sysVars
<1> QED BY <1>1, <1>2, <1>3, <1>4, <1>5 DEF SysNext

\* So the client keeps its invariants.
LEMMA ClientInSystem == SysSpec => [](ClientInv /\ StreamInv)
<1>1. SysInit => ClientInv /\ StreamInv
  BY ClientInit, StreamInit DEF SysInit
<1>2. ClientInv /\ StreamInv /\ [SysNext]_sysVars => (ClientInv /\ StreamInv)'
  BY SystemRunsClient, ClientInvStep, StreamStep
<1> QED BY <1>1, <1>2, PTL DEF SysSpec

\* A step of the client that neither makes a connection nor is the server's, and
\* the end of the server.
Quiet ==
  \/ Calls \/ Runs \/ TimerExpires \/ Reported \/ ConnectRefused \/ WriteTakes
  \/ ServerEnds("fin") \/ ServerEnds("reset")

\* Such a step decodes one frame at most and makes no connection.
LEMMA QuietFact ==
  ASSUME ClientInv, Quiet
  PROVE  /\ UNCHANGED <<sendNo, base, clean>>
         /\ sock' = "up" => sock = "up"
         /\ sock' \in Up => sock \in Up
         /\ got' = got \/ \E f \in Nat : got' = Append(got, f)
<1> USE DEF connVars, rxVars
<1>1. CASE Calls
  <2>1. UNCHANGED <<sendNo, base, clean, got>> /\ (sock' = sock \/ sock' = "open")
    BY <1>1 DEF Calls, VCI_OpenDevice, connect, OpenUnresolved, VCI_Command, Refused,
                VCI_Transmit, VCI_Receive
  <2> QED BY <2>1 DEF Up
<1>2. CASE Runs
  <2>1. CASE ReadHandler
    <3>1. UNCHANGED <<sendNo, base, clean, sock>> /\ line_process(cnt)
      BY <2>1 DEF ReadHandler
    <3>2. rx[1] \div 2 \in Nat
      <4>1. rx \in Seq(Chunks) /\ ready \in Seq(Results \cup {"timer"})
        BY DEF ClientInv, NetTypeOK
      <4>2. fn = "read" /\ ready # <<>> /\ Head(ready) = "ok"
        BY <2>1 DEF ReadHandler, Handler
      <4>3. "ok" \in Waiting
        BY <4>1, <4>2 DEF Waiting, Elems
      <4>4. Newlines(rx) # {}
        BY <4>2, <4>3 DEF ClientInv, ReadInv, HasLine
      <4>5. rx[1] \in Chunks
        BY <4>1, <4>4 DEF Newlines
      <4> QED BY <4>5, ClientBoundsAssumption DEF Chunks
    <3>3. got' = got \/ got' = Append(got, rx[1] \div 2)
      BY <3>1 DEF line_process
    <3> QED BY <3>1, <3>2, <3>3
  <2>2. CASE ~ReadHandler
    <3>1. UNCHANGED <<sendNo, base, clean, got>> /\ (sock' = sock \/ sock' = "closed")
      BY <1>2, <2>2 DEF Runs, TimerHandler, ConnectHandler, WriteHandler, ReadFails,
                  ConnectReturns, CommandReturns, TransmitGoesOn, TransmitFails,
                  ReadReturns, Disconnect
    <3> QED BY <3>1 DEF Up
  <2> QED BY <2>1, <2>2
<1>3. CASE TimerExpires \/ Reported \/ ConnectRefused
  <2>1. UNCHANGED <<sendNo, base, clean, got, sock>>
    BY <1>3 DEF TimerExpires, Reported, ReadBreaks, WriteBreaks, ReadArrives,
                ConnectRefused
  <2> QED BY <2>1
<1>4. CASE WriteTakes \/ ServerEnds("fin") \/ ServerEnds("reset")
  BY <1>4 DEF WriteTakes, ServerEnds, Up
<1> QED BY <1>1, <1>2, <1>3, <1>4 DEF Quiet

------------------------------------------------------------------------------
(* The decoded frames. *)

\* One more frame is decoded.  If it is of this connection it is the one after the
\* last: the frames from b on have no gap.
LEMMA CountsAppend ==
  ASSUME NEW g \in Seq(Nat), NEW f \in Nat, NEW b \in Nat, NEW k \in Nat,
         NEW e \in 0..Len(g), CountsFrom(g, b, e),
         \A i, j \in 1..Len(Append(g, f)) : i < j => Append(g, f)[i] < Append(g, f)[j],
         Mine(Append(g, f), b) = b..(k - 1)
  PROVE  \E d \in 0..Len(Append(g, f)) : CountsFrom(Append(g, f), b, d)
<1> DEFINE h == Append(g, f)
<1>1. /\ h \in Seq(Nat) /\ Len(g) \in Nat /\ Len(h) = Len(g) + 1 /\ h[Len(g) + 1] = f
      /\ \A i \in 1..Len(g) : h[i] = g[i] /\ g[i] \in Nat
      /\ \A i \in 1..Len(h) : i = Len(g) + 1 \/ i \in 1..Len(g)
  BY AppendFact, Zenon
<1>2. /\ \A i, j \in 1..Len(h) : i < j => h[i] < h[j]
      /\ Mine(h, b) = b..(k - 1)
  OBVIOUS
<1> HIDE DEF h
<1>3. Range(h) = {h[i] : i \in 1..Len(h)}
  <2>1. DOMAIN h = 1..Len(h)
    BY <1>1
  <2> QED BY <2>1, Zenon DEF Range
<1>4. CASE f < b
  <2>1. ASSUME NEW i \in 1..Len(g) PROVE h[i] < b
    <3>1. h[i] < h[Len(g) + 1]
      BY <1>1, <1>2, SMTT(30)
    <3> QED BY <1>1, <1>4, <3>1, SMTT(30)
  <2>2. \A i \in 1..Len(h) : h[i] < b
    BY <1>1, <1>4, <2>1
  <2>3. CountsFrom(h, b, Len(h))
    BY <1>1, <2>2 DEF CountsFrom
  <2>4. Len(h) \in 0..Len(h)
    BY <1>1
  <2> QED BY <2>3, <2>4 DEF h
<1>5. CASE f >= b
  <2> DEFINE m == b + (Len(g) - e)
  <2>1. m \in Nat /\ e \in Nat /\ e <= Len(g)
    BY <1>1
  <2>2. f >= m
    <3>1. CASE e = Len(g)
      BY <1>5, <2>1, <3>1
    <3>2. CASE e < Len(g)
      <4>1. g[Len(g)] = m - 1
        BY <1>1, <2>1, <3>2 DEF CountsFrom
      <4>2. h[Len(g)] < h[Len(g) + 1] /\ h[Len(g)] = g[Len(g)]
        BY <1>1, <1>2, <2>1, <3>2
      <4> QED BY <1>1, <2>1, <4>1, <4>2
    <3> QED BY <2>1, <3>1, <3>2
  <2>3. m \in b..(k - 1)
    <3>1. f \in Mine(h, b)
      BY <1>1, <1>3, <1>5 DEF Mine
    <3> QED BY <1>2, <2>1, <2>2, <3>1
  <2>4. PICK i \in 1..Len(h) : h[i] = m
    BY <1>2, <1>3, <2>3 DEF Mine
  <2>5. i \notin 1..Len(g)
    <3>1. ASSUME i \in 1..Len(g) PROVE FALSE
      <4>1. CASE i <= e
        <5>1. i \in 1..e
          BY <2>1, <3>1, <4>1
        <5>2. g[i] < b
          BY <5>1 DEF CountsFrom
        <5> QED BY <1>1, <2>1, <2>4, <3>1, <5>2, SMTT(30)
      <4>2. CASE i > e
        <5>1. g[i] = b + (i - e) - 1
          BY <1>1, <2>1, <3>1, <4>2 DEF CountsFrom
        <5> QED BY <1>1, <2>1, <2>4, <3>1, <5>1
      <4> QED BY <2>1, <4>1, <4>2
    <3> QED BY <3>1
  <2>6. f = m
    BY <1>1, <2>4, <2>5
  <2>7. ASSUME NEW j \in 1..e PROVE h[j] < b
    <3>1. g[j] < b /\ j \in 1..Len(g)
      BY <1>1, <2>1, SMTT(30) DEF CountsFrom
    <3> QED BY <1>1, <3>1
  <2>8. ASSUME NEW j \in (e + 1)..Len(h) PROVE h[j] = b + (j - e) - 1
    <3>1. CASE j = Len(g) + 1
      BY <1>1, <2>1, <2>6, <3>1
    <3>2. CASE j \in (e + 1)..Len(g)
      BY <1>1, <2>1, <3>2 DEF CountsFrom
    <3> QED BY <1>1, <2>1, <3>1, <3>2
  <2>9. CountsFrom(h, b, e)
    BY <2>7, <2>8 DEF CountsFrom
  <2>10. e \in 0..Len(h)
    BY <1>1, <2>1
  <2> QED BY <2>9, <2>10 DEF h
<1> QED BY <1>1, <1>4, <1>5

\* A quiet step of the client.
LEMMA QuietKeepsDecoded ==
  ASSUME ClientInv, StreamInv, ClientInv', StreamInv', DecodedInv, Quiet
  PROVE  DecodedInv'
<1> SUFFICES ASSUME clean', sock' \in Up
             PROVE  \E e \in 0..Len(got') : CountsFrom(got', base', e)
  BY DEF DecodedInv
<1>1. /\ UNCHANGED <<base, clean>> /\ sock \in Up
      /\ got' = got \/ \E f \in Nat : got' = Append(got, f)
  BY QuietFact
<1>2. PICK e \in 0..Len(got) : CountsFrom(got, base, e)
  BY <1>1 DEF DecodedInv
<1>3. CASE got' = got
  BY <1>1, <1>2, <1>3
<1>4. ASSUME NEW f \in Nat, got' = Append(got, f)
      PROVE  \E d \in 0..Len(got') : CountsFrom(got', base', d)
  <2>1. got \in Seq(Nat) /\ base \in Nat
    BY StreamTypes DEF ClientInv
  <2>2. \A i, j \in 1..Len(got') : i < j => got'[i] < got'[j]
    BY DEF StreamInv, Ordered
  <2>3. PICK k \in Nat : Unbroken(got', Stream', base', k, sendNo')
    BY DEF StreamInv, CleanInv
  <2>4. Mine(got', base) = base..(k - 1)
    BY <1>1, <2>3 DEF Unbroken
  <2>5. \E d \in 0..Len(Append(got, f)) : CountsFrom(Append(got, f), base, d)
    BY <1>2, <1>4, <2>1, <2>2, <2>4, CountsAppend
  <2> QED BY <1>1, <1>4, <2>5
<1> QED BY <1>1, <1>3, <1>4

------------------------------------------------------------------------------
(* The steps. *)

\* A quiet step of the client, or the end of the server: the session goes on or ends.
LEMMA QuietKeeps ==
  ASSUME ClientInv, StreamInv, ClientInv', StreamInv', SystemInv, Quiet, SessionFollows
  PROVE  SystemInv'
<1>1. UNCHANGED <<sendNo, base>> /\ (sock' = "up" => sock = "up")
  BY QuietFact
<1>2. /\ on' \in BOOLEAN /\ (on' => on /\ sock' = "up")
      /\ UNCHANGED <<lines, frame, joined, lost>>
      /\ (on' => backlog' = backlog) /\ (~on' => backlog' = <<>>)
  BY DEF SessionFollows, SystemInv, SessionTypeOK
<1>3. SessionTypeOK'
  <2>1. backlog' \in Seq(Nat)
    <3>1. backlog \in Seq(Nat) /\ <<>> \in Seq(Nat)
      BY DEF SystemInv, SessionTypeOK
    <3> QED BY <1>2, <3>1
  <2> QED BY <1>2, <2>1 DEF SystemInv, SessionTypeOK
<1>4. LinesInv'
  BY <1>1, <1>2 DEF SystemInv, LinesInv
<1>5. OfferedInv'
  <2>1. Wire' = Wire
    BY <1>1, <1>2 DEF Wire
  <2> QED BY <1>2, <2>1 DEF SystemInv, OfferedInv
<1> QED BY <1>3, <1>4, <1>5, QuietKeepsDecoded DEF SystemInv

\* A connection is made: the server goes on with a whole line, and what was decoded
\* before is older.
LEMMA ConnectKeeps ==
  ASSUME ClientInv, StreamInv, ClientInv', StreamInv', SystemInv, ConnectDone,
         SessionFollows
  PROVE  SystemInv'
<1>1. sock # "up"
  BY DEF ConnectDone, ClientInv, SockInv
<1>2. /\ ~on' /\ backlog' = <<>> /\ UNCHANGED <<lines, frame, joined, lost>>
      /\ on' = FALSE
  BY <1>1 DEF SessionFollows, SystemInv, LinesInv, SessionTypeOK
<1>3. sendNo' = sendNo + (sendNo % 2) /\ base' = sendNo' \div 2 /\ got' = got
  BY DEF ConnectDone, rxVars
<1>4. lines \in Seq(Nat) /\ Len(lines) \in Nat /\ sendNo \in {2 * Len(lines), 2 * Len(lines) - 1}
  BY DEF SystemInv, SessionTypeOK, LinesInv
<1>5. sendNo' = 2 * Len(lines) /\ base' = Len(lines)
  BY <1>3, <1>4
<1>6. SessionTypeOK'
  <2>1. <<>> \in Seq(Nat)
    OBVIOUS
  <2>2. backlog' \in Seq(Nat) /\ on' \in BOOLEAN
    BY <1>2, <2>1, Zenon
  <2> QED BY <1>2, <2>2 DEF SystemInv, SessionTypeOK
<1>7. LinesInv' /\ OfferedInv'
  BY <1>2, <1>4, <1>5 DEF LinesInv, OfferedInv
<1>8. DecodedInv'
  <2>1. got' \in Seq(Nat)
    <3>1. NetTypeOK'
      BY DEF ClientInv
    <3> QED BY <1>3, StreamTypes DEF ClientInv
  <2>2. \A i \in 1..Len(got') : 2 * got'[i] + 1 < sendNo'
    BY DEF StreamInv, Ordered
  <2>3. \A i \in 1..Len(got') : got'[i] < base'
    BY <1>4, <1>5, <2>1, <2>2
  <2>4. CountsFrom(got', base', Len(got')) /\ Len(got') \in 0..Len(got')
    BY <2>1, <2>3 DEF CountsFrom
  <2> QED BY <2>4 DEF DecodedInv
<1> QED BY <1>6, <1>7, <1>8 DEF SystemInv

\* A step of the agent that leaves the client where it was.
LEMMA DecodedSame ==
  ASSUME DecodedInv, UNCHANGED <<clean, sock, got, base>>
  PROVE  DecodedInv'
BY DEF DecodedInv

\* A session is registered: it has nothing yet, and it is offered the next frame.
LEMMA AcceptKeeps ==
  ASSUME SystemInv, AgentAccepts
  PROVE  SystemInv'
<1>1. /\ UNCHANGED <<clean, sock, got, base, sendNo, lines, frame>>
      /\ sock = "up" /\ joined' = frame /\ lost' = {}
  BY DEF AgentAccepts, vars, connVars, rxVars
<1>2. on' = TRUE /\ backlog' = <<>> /\ Wire' = <<>>
  BY DEF AgentAccepts, Session!Open, Wire
<1>3. SessionTypeOK'
  BY <1>1, <1>2 DEF SystemInv, SessionTypeOK
<1>4. LinesInv'
  BY <1>1 DEF SystemInv, LinesInv
<1>5. OfferedInv'
  <2>1. <<>> \o <<>> = <<>> /\ Len(<<>>) = 0 /\ Range(<<>>) = {}
    BY DEF Range
  <2>2. frame \in Nat
    BY DEF SystemInv, SessionTypeOK
  <2>3. Accounted(<<>>, {}, frame, frame)
    <3>1. frame..(frame - 1) = {} /\ 1..0 = {}
      BY <2>2
    <3> QED BY <2>1, <3>1, Zenon DEF Accounted
  <2> QED BY <1>1, <1>2, <2>1, <2>3 DEF OfferedInv
<1> QED BY <1>1, <1>3, <1>4, <1>5, DecodedSame DEF SystemInv

\* The next frame is kept at the end of s.
LEMMA AccountedKeep ==
  ASSUME NEW s \in Seq(Nat), NEW d \in SUBSET Nat, NEW n \in Nat, NEW j \in 0..n,
         Accounted(s, d, j, n)
  PROVE  Accounted(Append(s, n), d, j, n + 1)
<1> DEFINE t == Append(s, n)
<1>1. /\ t \in Seq(Nat) /\ Len(s) \in Nat /\ Len(t) = Len(s) + 1 /\ t[Len(s) + 1] = n
      /\ \A i \in 1..Len(s) : t[i] = s[i] /\ s[i] \in Nat
      /\ \A i \in 1..Len(t) : i = Len(s) + 1 \/ i \in 1..Len(s)
  BY AppendFact, Zenon
<1>2. Range(t) = Range(s) \cup {n}
  BY RangeOfAppend
<1> HIDE DEF t
<1>3. \A x \in Range(s) \cup d : x \in Nat /\ x < n
  BY DEF Accounted
<1>4. \A i \in 1..Len(s) : s[i] \in Range(s)
  BY DEF Range
<1>5. ASSUME NEW i \in 1..Len(t), NEW k \in 1..Len(t), i < k PROVE t[i] < t[k]
  <2>1. i \in 1..Len(s)
    BY <1>1, <1>5
  <2>2. CASE k = Len(s) + 1
    BY <1>1, <1>3, <1>4, <2>1, <2>2
  <2>3. CASE k \in 1..Len(s)
    BY <1>1, <1>5, <2>1, <2>3 DEF Accounted
  <2> QED BY <1>1, <2>2, <2>3
<1>6. Range(t) \cup d = j..((n + 1) - 1)
  <2>1. j..((n + 1) - 1) = j..(n - 1) \cup {n}
    OBVIOUS
  <2>2. Range(s) \cup d = j..(n - 1)
    BY DEF Accounted
  <2> QED BY <1>2, <2>1, <2>2, Zenon
<1>7. Range(t) \cap d = {}
  <2>1. n \notin d
    BY <1>3
  <2> QED BY <1>2, <2>1 DEF Accounted
<1> QED BY <1>5, <1>6, <1>7 DEF Accounted, t

\* The next frame is dropped.
LEMMA AccountedDrop ==
  ASSUME NEW s \in Seq(Nat), NEW d \in SUBSET Nat, NEW n \in Nat, NEW j \in 0..n,
         Accounted(s, d, j, n)
  PROVE  Accounted(s, d \cup {n}, j, n + 1)
<1>1. j..((n + 1) - 1) = j..(n - 1) \cup {n} /\ n \notin j..(n - 1)
  OBVIOUS
<1>2. /\ Range(s) \cup d = j..(n - 1) /\ Range(s) \cap d = {}
      /\ \A i, k \in 1..Len(s) : i < k => s[i] < s[k]
  BY DEF Accounted
<1>3. Range(s) \cup (d \cup {n}) = j..((n + 1) - 1) /\ Range(s) \cap (d \cup {n}) = {}
  BY <1>1, <1>2, Zenon
<1> QED BY <1>2, <1>3 DEF Accounted

\* A frame appended to the backlog is the last of the stream.
LEMMA AppendRegroup ==
  ASSUME NEW a \in Seq(Nat), NEW b \in Seq(Nat), NEW x \in Nat
  PROVE  a \o Append(b, x) = Append(a \o b, x)
OBVIOUS

\* The publisher dispatches a frame: the session keeps it or counts it as lost.
LEMMA OfferKeeps ==
  ASSUME ClientInv, SystemInv, AgentOffers
  PROVE  SystemInv'
<1>1. /\ UNCHANGED <<clean, sock, got, base, sendNo, lines, joined>>
      /\ frame < LastFrame /\ frame' = frame + 1
      /\ lost' = IF on /\ backlog' = backlog THEN lost \cup {frame} ELSE lost
  BY DEF AgentOffers, vars, connVars, rxVars
<1>2. /\ backlog \in Seq(Nat) /\ lines \in Seq(Nat) /\ frame \in Nat /\ joined \in 0..frame
      /\ lost \in SUBSET Nat /\ on \in BOOLEAN /\ base \in Nat /\ LastFrame \in Nat
  BY SystemAssumption, StreamTypes DEF SystemInv, SessionTypeOK, ClientInv
<1>3. Wire' = Wire /\ Wire \in Seq(Nat)
  BY <1>1, <1>2 DEF Wire
<1>4. /\ on' = on
      /\ \/ on /\ backlog' = Append(backlog, frame)
         \/ backlog' = backlog
  BY DEF AgentOffers, Session!Offer
<1>5. SessionTypeOK'
  <2>1. backlog' \in Seq(Nat)
    <3>1. Append(backlog, frame) \in Seq(Nat)
      BY <1>2
    <3> QED BY <1>2, <1>4, <3>1
  <2>2. frame' \in 0..LastFrame /\ joined' \in 0..frame' /\ lost' \in SUBSET Nat
    BY <1>1, <1>2
  <2> QED BY <1>1, <1>2, <1>4, <2>1, <2>2 DEF SessionTypeOK
<1>6. LinesInv'
  BY <1>1, <1>4 DEF SystemInv, LinesInv
<1>7. OfferedInv'
  <2> SUFFICES ASSUME on PROVE Accounted(Wire \o backlog', lost', joined, frame + 1)
    BY <1>1, <1>3, <1>4 DEF OfferedInv
  <2>1. Wire \o backlog \in Seq(Nat) /\ Accounted(Wire \o backlog, lost, joined, frame)
    BY <1>2, <1>3 DEF SystemInv, OfferedInv
  <2>2. CASE backlog' = Append(backlog, frame)
    <3>1. Append(backlog, frame) # backlog
      BY <1>2
    <3>2. lost' = lost
      BY <1>1, <2>2, <3>1
    <3>3. Wire \o Append(backlog, frame) = Append(Wire \o backlog, frame)
      BY <1>2, <1>3, AppendRegroup
    <3>4. Accounted(Append(Wire \o backlog, frame), lost, joined, frame + 1)
      BY <1>2, <2>1, AccountedKeep
    <3> QED BY <2>2, <3>2, <3>3, <3>4
  <2>3. CASE backlog' = backlog
    <3>1. lost' = lost \cup {frame}
      BY <1>1, <2>3
    <3>2. Accounted(Wire \o backlog, lost \cup {frame}, joined, frame + 1)
      BY <1>2, <2>1, AccountedDrop
    <3> QED BY <2>3, <3>1, <3>2
  <2> QED BY <1>4, <2>2, <2>3
<1> QED BY <1>1, <1>5, <1>6, <1>7, DecodedSame DEF SystemInv

\* The connection takes half a line: with the first half the line leaves the backlog,
\* and stays where it was in the stream.
LEMMA SendKeeps ==
  ASSUME ClientInv, SystemInv, AgentSends
  PROVE  SystemInv'
<1>1. /\ UNCHANGED <<clean, sock, got, base, frame, joined, lost>>
      /\ on /\ sendNo' = sendNo + 1 /\ sock = "up"
  BY DEF AgentSends, ServerSends, rxVars
<1>2. /\ backlog \in Seq(Nat) /\ lines \in Seq(Nat) /\ Len(lines) \in Nat /\ base \in Nat
      /\ sendNo \in {2 * Len(lines), 2 * Len(lines) - 1} /\ base <= Len(lines)
  BY StreamTypes DEF SystemInv, SessionTypeOK, ClientInv, LinesInv
<1>3. CASE sendNo % 2 = 0
  <2>1. /\ backlog # <<>> /\ lines' = Append(lines, Head(backlog))
        /\ Wire' = Wire \o SubSeq(backlog, 1, 1)
        /\ backlog' = SubSeq(backlog, 1 + 1, Len(backlog)) /\ on' = on
    BY <1>3 DEF AgentSends, Session!Write, Session!Take, Wire
  <2>2. Head(backlog) \in Nat /\ 1 \in 0..Len(backlog)
    BY <1>2, <2>1
  <2>3. lines' \in Seq(Nat) /\ Len(lines') = Len(lines) + 1
    BY <1>2, <2>1, <2>2
  <2>4. backlog' \in Seq(Nat)
    BY <1>2, <2>1, SMTT(30)
  <2>5. SessionTypeOK'
    BY <1>1, <2>1, <2>3, <2>4 DEF SystemInv, SessionTypeOK
  <2>6. LinesInv'
    <3>1. sendNo = 2 * Len(lines)
      BY <1>2, <1>3
    <3>2. sendNo' = 2 * Len(lines') - 1 /\ base' <= Len(lines')
      BY <1>1, <1>2, <2>3, <3>1
    <3> QED BY <1>1, <3>2 DEF LinesInv
  <2>7. Wire' \o backlog' = Wire \o backlog
    <3>1. Wire \in Seq(Nat)
      BY <1>2 DEF Wire
    <3> QED BY <1>2, <2>1, <2>2, <3>1, MoveAlong
  <2>8. OfferedInv'
    BY <1>1, <2>1, <2>7 DEF SystemInv, OfferedInv
  <2> QED BY <1>1, <2>5, <2>6, <2>8, DecodedSame DEF SystemInv
<1>4. CASE sendNo % 2 # 0
  <2>1. UNCHANGED <<on, backlog, lines>>
    BY <1>4 DEF AgentSends
  <2>2. SessionTypeOK'
    BY <1>1, <2>1 DEF SystemInv, SessionTypeOK
  <2>3. LinesInv'
    <3>1. sendNo = 2 * Len(lines) - 1
      <4>1. (2 * Len(lines)) % 2 = 0
        BY <1>2
      <4> QED BY <1>2, <1>4, <4>1
    <3>2. sendNo' = 2 * Len(lines)
      BY <1>1, <1>2, <3>1
    <3> QED BY <1>1, <1>2, <2>1, <3>2 DEF LinesInv
  <2>4. OfferedInv'
    BY <1>1, <2>1 DEF SystemInv, OfferedInv, Wire
  <2> QED BY <1>1, <2>2, <2>3, <2>4, DecodedSame DEF SystemInv
<1> QED BY <1>3, <1>4

\* Nothing has been sent, offered or decoded at the start.
LEMMA SystemInit == SysInit => SystemInv
<1> SUFFICES ASSUME SysInit PROVE SystemInv
  OBVIOUS
<1>1. SessionTypeOK
  <2>1. <<>> \in Seq(Nat) /\ 0 \in 0..LastFrame /\ 0 \in 0..0
    BY SystemAssumption
  <2> QED BY <2>1, Zenon DEF SysInit, SessionTypeOK
<1>2. LinesInv /\ OfferedInv
  BY DEF SysInit, Init, LinesInv, OfferedInv
<1>3. DecodedInv
  BY DEF SysInit, Init, DecodedInv, Up
<1> QED BY <1>1, <1>2, <1>3 DEF SystemInv

\* Every step keeps the invariant.
LEMMA SystemStep ==
  ASSUME ClientInv, StreamInv, ClientInv', StreamInv', SystemInv, [SysNext]_sysVars
  PROVE  SystemInv'
<1>1. CASE ClientStep
  <2>1. (Quiet \/ ConnectDone) /\ SessionFollows
    BY <1>1 DEF ClientStep, Client, Quiet
  <2> QED BY <2>1, QuietKeeps, ConnectKeeps
<1>2. CASE ClientWrites \/ AgentEnds
  <2>1. Quiet /\ SessionFollows
    BY <1>2 DEF ClientWrites, AgentEnds, Quiet
  <2> QED BY <2>1, QuietKeeps
<1>3. CASE UNCHANGED sysVars
  <2>1. UNCHANGED <<clean, sock, got, base, sendNo, on, backlog, lines, frame, joined, lost>>
    BY <1>3 DEF sysVars, sessionVars, vars, connVars, rxVars
  <2>2. SessionTypeOK' /\ LinesInv' /\ OfferedInv'
    BY <2>1 DEF SystemInv, SessionTypeOK, LinesInv, OfferedInv, Wire
  <2> QED BY <2>1, <2>2, DecodedSame DEF SystemInv
<1> QED BY <1>1, <1>2, <1>3, AcceptKeeps, OfferKeeps, SendKeeps DEF SysNext

\* The invariant holds in every reachable state.
LEMMA SystemInductive == SysSpec => [](ClientInv /\ StreamInv /\ SystemInv)
<1>1. /\ ClientInv /\ StreamInv /\ SystemInv /\ [SysNext]_sysVars
      /\ (ClientInv /\ StreamInv)'
      => SystemInv'
  BY SystemStep
<1> QED BY <1>1, SystemInit, ClientInSystem, PTL DEF SysSpec

------------------------------------------------------------------------------
(* The theorem. *)

\* What was decoded on this connection is the beginning of its lines.
LEMMA DeliveredIsPrefix ==
  ASSUME ClientInv, StreamInv, SystemInv, clean, sock \in Up
  PROVE  \A i \in DOMAIN Delivered : i <= Len(Wire) /\ Delivered[i] = Wire[i]
<1>1. PICK e \in 0..Len(got) : CountsFrom(got, base, e)
  BY DEF SystemInv, DecodedInv
<1>2. /\ got \in Seq(Nat) /\ base \in Nat /\ Len(got) \in Nat /\ e \in Nat /\ e <= Len(got)
      /\ lines \in Seq(Nat) /\ Len(lines) \in Nat /\ base <= Len(lines)
      /\ sendNo \in {2 * Len(lines), 2 * Len(lines) - 1}
  BY StreamTypes DEF SystemInv, SessionTypeOK, ClientInv, LinesInv
<1>3. Earlier = e
  <2>1. {i \in DOMAIN got : got[i] < base} = 1..e
    <3>1. DOMAIN got = 1..Len(got)
      BY <1>2
    <3>2. ASSUME NEW i \in 1..Len(got), got[i] < base PROVE i \in 1..e
      <4>1. ASSUME i > e PROVE FALSE
        <5>1. got[i] = base + (i - e) - 1
          BY <1>1, <1>2, <4>1 DEF CountsFrom
        <5> QED BY <1>2, <3>2, <4>1, <5>1
      <4> QED BY <1>2, <4>1
    <3>3. ASSUME NEW i \in 1..e PROVE i \in 1..Len(got) /\ got[i] < base
      BY <1>1, <1>2 DEF CountsFrom
    <3> QED BY <3>1, <3>2, <3>3
  <2>2. Cardinality(1..e) = IF 1 > e THEN 0 ELSE e - 1 + 1
    BY <1>2, FS_Interval
  <2>3. Cardinality(1..e) = e
    BY <1>2, <2>2
  <2> QED BY <2>1, <2>3 DEF Earlier
<1>4. DOMAIN Delivered = 1..(Len(got) - e)
  BY <1>3 DEF Delivered
<1>5. ASSUME NEW i \in 1..(Len(got) - e) PROVE i <= Len(Wire) /\ Delivered[i] = Wire[i]
  <2>1. e + i \in (e + 1)..Len(got) /\ e + i \in 1..Len(got) /\ i \in Nat
    BY <1>2
  <2>2. got[e + i] = base + ((e + i) - e) - 1
    BY <1>1, <2>1 DEF CountsFrom
  <2>3. 2 * got[e + i] + 1 < sendNo
    BY <2>1 DEF StreamInv, Ordered
  <2>4. got[e + i] + 1 = base + i /\ base + i <= Len(lines) /\ i >= 1
    BY <1>2, <2>1, <2>2, <2>3
  <2>5. Delivered[i] = lines[base + i]
    BY <1>3, <2>4 DEF Delivered
  <2>6. Len(Wire) = Len(lines) - base /\ \A j \in 1..(Len(lines) - base) : Wire[j] = lines[base + j]
    BY <1>2 DEF Wire
  <2>7. i \in 1..(Len(lines) - base)
    BY <1>2, <2>1, <2>4
  <2> QED BY <2>5, <2>6, <2>7
<1> QED BY <1>4, <1>5

\* From the publisher to the application: on a connection that began with an empty
\* receive buffer, what VCI_Receive has decoded, what is under way and what the session
\* holds are, in order and each once, the frames dispatched since the session was
\* registered, but for those its full queue dropped; for any bounds, whatever calls,
\* deadlines, cut connections and reconnections come in between.
THEOREM DeliveredEndToEnd == SysSpec => []EndToEnd
<1>1. ClientInv /\ StreamInv /\ SystemInv => EndToEnd
  <2> SUFFICES ASSUME ClientInv, StreamInv, SystemInv, on, clean
               PROVE  LET all == Wire \o backlog
                      IN  /\ \A i, j \in 1..Len(all) : i < j => all[i] < all[j]
                          /\ Range(all) \cup lost = joined..(frame - 1)
                          /\ Range(all) \cap lost = {}
                          /\ \A i \in DOMAIN Delivered : i <= Len(Wire) /\ Delivered[i] = Wire[i]
    BY DEF EndToEnd
  <2>1. sock \in Up
    BY DEF SystemInv, LinesInv, Up
  <2>2. Accounted(Wire \o backlog, lost, joined, frame)
    BY DEF SystemInv, OfferedInv
  <2> QED BY <2>1, <2>2, DeliveredIsPrefix DEF Accounted
<1> QED BY <1>1, SystemInductive, PTL
==============================================================================

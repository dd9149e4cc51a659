------------------------------ MODULE CanSystem ------------------------------
(***************************************************************************)
(* A client and the agent: CanImpCanNet (NetClient, in full) on a TCP      *)
(* connection to a session of the agent, which is known by what it         *)
(* promises, SessionStream.  The numbers of NetClient count the lines the  *)
(* client's connections carried; the frames in them are in `lines'.  What  *)
(* the client writes ends in the agent's receive buffer, from which no     *)
(* session ever reads.                                                     *)
(***************************************************************************)
EXTENDS NetClient

CONSTANTS LastFrame,    \* bound: frames the CAN device delivers in one run
          SpscCapacity, \* slots of the session's queue
          SockBuffer    \* chunks the agent's receive buffer holds

ASSUME SystemAssumption ==
  LastFrame \in Nat /\ SpscCapacity \in Nat /\ SockBuffer \in Nat

VARIABLES on,       \* the agent has a session for this connection
          backlog,  \* the session's transmit buffer and queue
          lines,    \* history: frames of the lines sent, over all connections
          frame,    \* send_count
          joined,   \* history: the frame at which the session was registered
          lost,     \* history: frames its queue dropped
          unread    \* chunks the client sent that nobody has read

sessionVars == <<on, backlog, lines, frame, joined, lost>>
sysVars     == <<vars, sessionVars, unread>>

\* The lines of this connection.
Wire == SubSeq(lines, base + 1, Len(lines))

Session == INSTANCE SessionStream WITH
  Frame <- 0..LastFrame, Capacity <- SpscCapacity, MaxWrite <- 1, wire <- Wire

SysInit ==
  /\ Init
  /\ on = FALSE /\ backlog = <<>> /\ lines = <<>>
  /\ frame = 0 /\ joined = 0 /\ lost = {}
  /\ unread = 0

\* A step that may end the connection ends the session with it: the agent's
\* writes fail from then on.
SessionFollows ==
  /\ on' = (on /\ sock' = "up")
  /\ backlog' = IF on' THEN backlog ELSE <<>>
  /\ UNCHANGED <<lines, frame, joined, lost>>

\* A step of NetClient that sends nothing.
Client(A) ==
  /\ A
  /\ SessionFollows
  /\ unread' = IF sock' \in {"closed", "open"} THEN 0 ELSE unread
  /\ UNCHANGED addr

\* The calls, the handlers, the deadline, and what the kernel does for them.
ClientStep ==
  \/ Client(Calls) \/ Client(Runs) \/ Client(TimerExpires) \/ Client(Reported)
  \/ Client(ConnectDone) \/ Client(ConnectRefused)

\* The kernel takes what the client writes while there is room for it.
ClientWrites ==
  /\ unread < SockBuffer
  /\ WriteTakes
  /\ unread' = unread + 1
  /\ SessionFollows
  /\ UNCHANGED addr

\* Server::handleAccept; the connection has been waiting since it was made.
AgentAccepts ==
  /\ sock = "up"
  /\ UNCHANGED <<vars, lines, frame, unread>>
  /\ Session!Open
  /\ joined' = frame
  /\ lost' = {}

\* The publisher dispatches the next frame.
AgentOffers ==
  /\ frame < LastFrame
  /\ UNCHANGED <<vars, lines, joined, unread>>
  /\ frame' = frame + 1
  /\ IF on THEN Session!Offer(frame) ELSE UNCHANGED <<on, backlog>>
  /\ lost' = IF on /\ backlog' = backlog THEN lost \cup {frame} ELSE lost

\* The session's socket takes half a line; a line counts with its first half.
AgentSends ==
  /\ on
  /\ ServerSends
  /\ IF sendNo % 2 = 0
     THEN /\ backlog # <<>>
          /\ lines' = Append(lines, Head(backlog))
          /\ Session!Write(1)
     ELSE UNCHANGED <<on, backlog, lines>>
  /\ UNCHANGED <<addr, frame, joined, lost, unread>>

\* The agent ends, or its host does.
AgentEnds ==
  /\ ServerEnds("fin") \/ ServerEnds("reset")
  /\ SessionFollows
  /\ UNCHANGED <<addr, unread>>

SysNext ==
  ClientStep \/ ClientWrites \/ AgentAccepts \/ AgentOffers \/ AgentSends \/ AgentEnds

SysSpec == SysInit /\ [][SysNext]_sysVars

\* The agent accepts and its io thread writes what it has; the application keeps
\* calling VCI_Receive, whatever else it calls; a read that is started again and
\* again on a socket with data finds it, for async_read_until tries the socket
\* before it waits; the rest is as in NetClient.
SysFairSpec ==
  /\ SysSpec
  /\ WF_sysVars(AgentAccepts) /\ WF_sysVars(AgentSends)
  /\ SF_sysVars(\E n \in 1..MaxLen : Client(VCI_Receive(n)))
  /\ WF_sysVars(Client(Runs)) /\ WF_sysVars(Client(TimerExpires))
  /\ WF_sysVars(Client(Reported))
  /\ SF_sysVars(\E k \in 1..(2 * MaxFrames) : Client(ReadArrives(k)))

------------------------------------------------------------------------------
(* Properties. *)

\* How many of the decoded lines came on earlier connections; GotInOrder.
Earlier == Cardinality({i \in DOMAIN got : got[i] < base})

\* The frames of the lines decoded on this connection.
Delivered == [i \in 1..(Len(got) - Earlier) |-> lines[got[Earlier + i] + 1]]

\* End to end: on a connection that began with an empty receive buffer the
\* application has received, in order and each once, the frames dispatched since
\* its session was registered, but for those the session's queue dropped, those
\* under way and those in the session's backlog.
EndToEnd ==
  (on /\ clean) =>
    LET all == Wire \o backlog
    IN  /\ \A i, j \in 1..Len(all) : i < j => all[i] < all[j]
        /\ Range(all) \cup lost = joined..(frame - 1)
        /\ Range(all) \cap lost = {}
        /\ \A i \in DOMAIN Delivered : i <= Len(Wire) /\ Delivered[i] = Wire[i]

\* With an application that keeps calling VCI_Receive, a frame that was dispatched
\* while the client's session was registered, and that the session did not drop,
\* is delivered, or the connection ends: deadlines that pass inside a line, reads
\* that are cancelled, a VCI_Receive that has lost its deadline between two lines
\* and calls in between do not hold it up for ever.
DeliveredAtLast ==
  \A f \in 0..(LastFrame - 1) :
    LET Pending == /\ on /\ clean /\ connected
                   /\ f \in (joined..(frame - 1)) \ lost
                   /\ f \notin Range(Delivered)
    IN  []<>~Pending
==============================================================================

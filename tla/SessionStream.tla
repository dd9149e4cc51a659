---------------------------- MODULE SessionStream ----------------------------
(***************************************************************************)
(* What one Session of the agent promises to its client: the frames it is  *)
(* offered go to the connection in the order of their numbers, each once,  *)
(* through a backlog that drops a frame only when it is full.  CanAgent    *)
(* implements it for every session, and CanSystem is built on it.          *)
(***************************************************************************)
EXTENDS Integers, Sequences

CONSTANTS Frame,     \* frame numbers
          Capacity,  \* slots of spsc_queue_
          MaxWrite   \* lines of one write

VARIABLES on,       \* the session is registered as a listener
          backlog,  \* shr_tx_buff_ and spsc_queue_
          wire      \* lines the connection took

svars == <<on, backlog, wire>>

SInit == on = FALSE /\ backlog = <<>> /\ wire = <<>>

Open ==
  /\ ~on
  /\ on' = TRUE
  /\ backlog' = <<>>
  /\ wire' = <<>>

\* A frame newer than all before is accepted, or dropped by a full queue.
Offer(f) ==
  /\ on
  /\ \A i \in 1..Len(wire \o backlog) : (wire \o backlog)[i] < f
  /\ \/ backlog' = Append(backlog, f)
     \/ Len(backlog) >= Capacity /\ UNCHANGED backlog
  /\ UNCHANGED <<on, wire>>

\* The connection takes the first n lines.
Take(n) == wire' = wire \o SubSeq(backlog, 1, n)

Write(n) ==
  /\ on
  /\ n <= Len(backlog)
  /\ Take(n)
  /\ backlog' = SubSeq(backlog, n + 1, Len(backlog))
  /\ UNCHANGED on

\* A write fails after n lines, or the process ends.
Break(n) ==
  /\ on
  /\ n <= Len(backlog)
  /\ Take(n)
  /\ on' = FALSE
  /\ backlog' = <<>>

SNext ==
  \/ Open
  \/ \E f \in Frame : Offer(f)
  \/ \E n \in 1..MaxWrite : Write(n)
  \/ \E n \in 0..MaxWrite : Break(n)

SSpec == SInit /\ [][SNext]_svars
==============================================================================

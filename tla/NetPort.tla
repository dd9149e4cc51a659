------------------------------- MODULE NetPort -------------------------------
(***************************************************************************)
(* What CanImpCanNet promises to its caller: for each VCI_ call, the       *)
(* status it returns and what becomes of the connection, without sockets,  *)
(* timers, buffers or handlers.  NetClient implements it, and CanFacade is *)
(* built on it.                                                            *)
(***************************************************************************)
CONSTANT NoStatus  \* VCI_Receive returns a count and no status

VARIABLES connected,  \* _connected
          call,       \* the call that runs
          res         \* the status returned last

pvars == <<connected, call, res>>

\* How a call on a connection ends: its status, and whether the connection is
\* kept.  Every failure ends the connection but that of VCI_Transmit, which
\* keeps it after a timeout; a failed read ends it, a timeout does not.
Outcomes(c) ==
  CASE c = "Open"     -> {<<"OK", TRUE>>, <<"ERR", FALSE>>}
    [] c = "Close"    -> {<<"OK", FALSE>>, <<"ERR", FALSE>>}
    [] c = "Command"  -> {<<"OK", TRUE>>, <<"ERR", FALSE>>}
    [] c = "Transmit" -> {<<"OK", TRUE>>, <<"ERR", TRUE>>, <<"ERR", FALSE>>}
    [] c = "Receive"  -> {<<NoStatus, TRUE>>, <<NoStatus, FALSE>>}

\* How VCI_OpenDevice ends without a connection: it could not be established,
\* or the name of the server could not be resolved.
Unreachable == {"CONN_FAIL", "THROW"}

PInit == connected = FALSE /\ call = "none" /\ res = "none"

Begin(c) ==
  /\ call = "none"
  /\ c = "Open" \/ connected
  /\ call' = c
  /\ UNCHANGED <<connected, res>>

Establish ==
  /\ call = "Open"
  /\ ~connected
  /\ connected' = TRUE
  /\ UNCHANGED <<call, res>>

End(c) ==
  /\ call = c
  /\ connected
  /\ \E o \in Outcomes(c) : /\ connected' = o[2]
                            /\ res' = IF o[1] = NoStatus THEN res ELSE o[1]
  /\ call' = "none"

NotReached ==
  /\ call \in {"none", "Open"}
  /\ ~connected
  /\ call' = "none"
  /\ res' \in Unreachable
  /\ UNCHANGED connected

\* A call that does not touch the connection: one the network does not
\* support, any call without a connection, VCI_ReadErrInfo without a place for
\* the answer, or VCI_Transmit of nothing.
Immediate ==
  /\ call = "none"
  /\ res' = "ERR" \/ (res' = "OK" /\ connected)
  /\ UNCHANGED <<connected, call>>

Calls == {"Open", "Close", "Command", "Transmit", "Receive"}

PNext == Establish \/ NotReached \/ Immediate \/ \E c \in Calls : Begin(c) \/ End(c)

PSpec == PInit /\ [][PNext]_pvars
==============================================================================

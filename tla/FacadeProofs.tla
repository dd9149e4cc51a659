----------------------------- MODULE FacadeProofs -----------------------------
(***************************************************************************)
(* The invariants of CanFacade, proved for any device types, any           *)
(* configuration file and any width of a DWORD.                            *)
(***************************************************************************)
EXTENDS CanFacade, TLAPS

------------------------------------------------------------------------------
(* The inductive invariant. *)

\* Nothing is open that is not owed to the caller; an implementation that is
\* spent has neither a library nor a connection.
FacadeInv ==
  /\ FacadeTypeOK
  /\ NothingLeftOpen
  /\ (neat /\ owed = NoType) => open = {}
  /\ dead => lib = NoType /\ ~connected
  /\ DeadUntilReopened
  /\ CheckedOpenIsUsable

\* What the calls of the network client may return.
LEMMA NetOutcomes ==
  /\ Net!Outcomes("Open")     = {<<"OK", TRUE>>, <<"ERR", FALSE>>}
  /\ Net!Outcomes("Close")    = {<<"OK", FALSE>>, <<"ERR", FALSE>>}
  /\ Net!Outcomes("Command")  = {<<"OK", TRUE>>, <<"ERR", FALSE>>}
  /\ Net!Outcomes("Transmit") = {<<"OK", TRUE>>, <<"ERR", TRUE>>, <<"ERR", FALSE>>}
  /\ Net!Outcomes("Receive")  = {<<"COUNT", TRUE>>, <<"COUNT", FALSE>>}
BY DEF Net!Outcomes

\* Opening on the network leaves a connection exactly when it succeeds.
LEMMA NetOpensOutcome ==
  ASSUME NEW up, NEW o \in NetOpens(up)
  PROVE  \/ addr /\ o = <<"OK", TRUE>>
         \/ o \in {<<"ERR", FALSE>>, <<"CONN_FAIL", FALSE>>, <<"THROW", FALSE>>}
<1>1. CASE ~addr
  BY <1>1 DEF NetOpens
<1>2. CASE addr
  <2>1. o \in Net!Outcomes("Open") \/ o \in {<<u, FALSE>> : u \in Net!Unreachable}
    BY <1>2 DEF NetOpens
  <2>2. CASE o \in Net!Outcomes("Open")
    BY <1>2, <2>2, NetOutcomes
  <2>3. CASE o \in {<<u, FALSE>> : u \in Net!Unreachable}
    <3>1. PICK u \in Net!Unreachable : o = <<u, FALSE>>
      BY <2>3
    <3> QED BY <3>1 DEF Net!Unreachable
  <2> QED BY <2>1, <2>2, <2>3
<1> QED BY <1>1, <1>2

\* Nothing is loaded, connected or owed at the start.
LEMMA FacadeInit == Init => FacadeInv
<1> SUFFICES ASSUME Init PROVE FacadeInv
  OBVIOUS
<1> USE DEF Init
<1>1. last \in [fn : Calls, status : Statuses]
  BY DEF Calls, Statuses
<1>2. FacadeTypeOK
  BY <1>1 DEF FacadeTypeOK
<1>3. last.fn = "none"
  OBVIOUS
<1>4. DeadUntilReopened /\ CheckedOpenIsUsable
  BY <1>3 DEF DeadUntilReopened, CheckedOpenIsUsable, Queries, Commands
<1> QED BY <1>2, <1>4 DEF FacadeInv, NothingLeftOpen

------------------------------------------------------------------------------
(* The calls. *)

\* Opening the device, from a state in which nothing of an orderly caller's is open.
LEMMA OpenLibraryKeeps ==
  ASSUME FacadeInv, NEW t \in Types, NEW f \in Opens, NEW held \in Unloaded,
         OpenLibrary(f, t, held), Opened(t), UNCHANGED envVars
  PROVE  FacadeInv'
<1>1. /\ imp' = "direct" /\ connected' = FALSE
      /\ lib' \in {t, NoType}
  BY DEF OpenLibrary
<1>2. \/ Returned(f, "OK") /\ lib' = t /\ open' = held \cup {t}
      \/ \E st \in {"ERR", "THROW"} : Returned(f, st) /\ open' = held
  BY DEF OpenLibrary
<1>3. /\ last' \in [fn : Calls, status : Statuses]
      /\ last'.fn = f
      /\ \/ last'.status = "OK" /\ lib' = t /\ open' = held \cup {t}
         \/ last'.status \in {"ERR", "THROW"} /\ open' = held
  BY <1>2 DEF Returned, Calls, Statuses
<1>4. /\ neat' = (neat /\ owed = NoType)
      /\ owed' = IF last'.status = "OK" THEN t ELSE NoType
      /\ dead' = (last'.status # "OK" /\ lib' = NoType)
  BY DEF Opened
<1>5. held \subseteq open
  BY DEF Unloaded
<1>6. FacadeTypeOK'
  BY <1>1, <1>3, <1>4, <1>5 DEF FacadeInv, FacadeTypeOK
<1>7. neat' => held = {}
  BY <1>4, <1>5 DEF FacadeInv
<1>8. NothingLeftOpen' /\ ((neat /\ owed = NoType) => open = {})'
  BY <1>3, <1>4, <1>7, FacadeAssumption DEF NothingLeftOpen
<1>9. DeadUntilReopened' /\ (dead => lib = NoType /\ ~connected)'
  BY <1>1, <1>3, <1>4 DEF DeadUntilReopened, Opens, Queries, Commands
<1>10. CheckedOpenIsUsable'
  BY <1>3, <1>4, FacadeAssumption DEF CheckedOpenIsUsable, Dword, Value
<1> QED BY <1>6, <1>8, <1>9, <1>10 DEF FacadeInv

\* Opening on the network, with a new object or the one there is.
LEMMA OpenNetKeeps ==
  ASSUME FacadeInv, NEW t \in Types, NEW f \in Opens, NEW up, NEW o \in NetOpens(up),
         NEW held, held \subseteq open,
         imp' = "net", connected' = o[2], lib' = NoType, open' = held,
         Returned(f, o[1]), Opened(t), UNCHANGED envVars,
         f = "VCI_OpenDevice" => o[1] # "CONN_FAIL"
  PROVE  FacadeInv'
<1>1. /\ last' \in [fn : Calls, status : Statuses]
      /\ last'.fn = f
      /\ \/ last'.status = "OK" /\ connected' = TRUE /\ addr'
         \/ last'.status \in {"ERR", "CONN_FAIL", "THROW"} /\ connected' = FALSE
      /\ f = "VCI_OpenDevice" => last'.status # "CONN_FAIL"
  <2>1. \/ addr /\ o[1] = "OK" /\ o[2] = TRUE
        \/ o[1] \in {"ERR", "CONN_FAIL", "THROW"} /\ o[2] = FALSE
    <3>1. CASE addr /\ o = <<"OK", TRUE>>
      BY <3>1
    <3>2. CASE o = <<"ERR", FALSE>>
      BY <3>2
    <3>3. CASE o = <<"CONN_FAIL", FALSE>>
      BY <3>3
    <3>4. CASE o = <<"THROW", FALSE>>
      BY <3>4
    <3> QED BY <3>1, <3>2, <3>3, <3>4, NetOpensOutcome
  <2>2. o[1] \in Statuses /\ f \in Calls
    BY <2>1 DEF Statuses, Calls
  <2>3. last' \in [fn : Calls, status : Statuses] /\ last'.fn = f /\ last'.status = o[1]
    BY <2>2 DEF Returned
  <2> QED BY <2>1, <2>3 DEF envVars
<1>2. /\ neat' = (neat /\ owed = NoType)
      /\ owed' = IF last'.status = "OK" THEN t ELSE NoType
      /\ dead' = (last'.status # "OK")
  BY DEF Opened
<1>3. FacadeTypeOK'
  BY <1>1, <1>2 DEF FacadeInv, FacadeTypeOK
<1>4. neat' => open' = {}
  BY <1>2 DEF FacadeInv
<1>5. NothingLeftOpen' /\ ((neat /\ owed = NoType) => open = {})'
  BY <1>4 DEF NothingLeftOpen
<1>6. DeadUntilReopened' /\ (dead => lib = NoType /\ ~connected)'
  BY <1>1, <1>2 DEF DeadUntilReopened, Opens, Queries, Commands
<1>7. CheckedOpenIsUsable'
  BY <1>1, FacadeAssumption DEF CheckedOpenIsUsable, Dword, Value
<1> QED BY <1>3, <1>5, <1>6, <1>7 DEF FacadeInv

\* VCI_OpenDevice: the network first, then the device.
LEMMA OpenDeviceKeeps ==
  ASSUME FacadeInv, NEW t \in Types, VCI_OpenDevice(t)
  PROVE  FacadeInv'
<1>1. PICK held \in Unloaded, o \in NetOpens(FALSE) :
        IF o[1] = "CONN_FAIL"
        THEN OpenLibrary("VCI_OpenDevice", t, held)
        ELSE /\ imp' = "net" /\ connected' = o[2]
             /\ lib' = NoType /\ open' = held
             /\ Returned("VCI_OpenDevice", o[1])
  BY DEF VCI_OpenDevice
<1>2. Opened(t) /\ UNCHANGED envVars /\ "VCI_OpenDevice" \in Opens
  BY DEF VCI_OpenDevice, Opens
<1>3. CASE o[1] = "CONN_FAIL"
  BY <1>1, <1>2, <1>3, OpenLibraryKeeps
<1>4. CASE o[1] # "CONN_FAIL"
  <2>1. held \subseteq open
    BY DEF Unloaded
  <2> QED BY <1>1, <1>2, <1>4, <2>1, OpenNetKeeps
<1> QED BY <1>3, <1>4

\* The calls that open one or the other.
LEMMA OpenWithKeeps ==
  ASSUME FacadeInv, NEW t \in Types, NEW kind \in {"direct", "net"},
         NEW f \in Opens \ {"VCI_OpenDevice"}, OpenWith(f, kind, t)
  PROVE  FacadeInv'
<1> DEFINE k == IF imp = "none" THEN kind ELSE imp
<1>1. Opened(t) /\ UNCHANGED envVars /\ f \in Opens
  BY DEF OpenWith
<1>2. CASE k = "direct" /\ \E held \in Unloaded : OpenLibrary(f, t, held)
  BY <1>1, <1>2, OpenLibraryKeeps
<1>3. CASE /\ k = "net"
           /\ imp' = "net"
           /\ \E o \in NetOpens(connected) : connected' = o[2] /\ Returned(f, o[1])
           /\ UNCHANGED <<lib, open>>
  <2>1. imp \in {"none", "net"} /\ lib = NoType
    BY <1>3 DEF FacadeInv, FacadeTypeOK
  <2>2. PICK o \in NetOpens(connected) : connected' = o[2] /\ Returned(f, o[1])
    BY <1>3
  <2>3. lib' = NoType /\ open' = open /\ open \subseteq open
    BY <1>3, <2>1
  <2> QED BY <1>1, <1>3, <2>2, <2>3, OpenNetKeeps
<1> QED BY <1>2, <1>3 DEF OpenWith

\* VCI_CloseDevice.
LEMMA CloseKeeps ==
  ASSUME FacadeInv, NEW t \in Types, VCI_CloseDevice(t)
  PROVE  FacadeInv'
<1>1. /\ imp' = "none" /\ owed' = NoType /\ dead' = TRUE /\ UNCHANGED envVars
      /\ neat' = (neat /\ (owed = NoType \/ (owed = t /\ last'.status = "OK")))
  BY DEF VCI_CloseDevice, Closed
<1>2. CASE imp = "direct" /\ CloseLibrary("VCI_CloseDevice", t)
  <2>1. /\ last' \in [fn : Calls, status : Statuses]
        /\ last'.fn = "VCI_CloseDevice"
        /\ lib' = NoType /\ connected' = connected
        /\ \/ lib = t /\ open' = open \ {t}
           \/ open' \in Unloaded /\ last'.status = "ERR"
    BY <1>2 DEF CloseLibrary, Returned, Calls, Statuses
  <2>2. open' \subseteq open /\ connected = FALSE
    BY <1>2, <2>1 DEF Unloaded, FacadeInv, FacadeTypeOK
  <2>3. neat' => open' = {}
    BY <1>1, <2>1, <2>2 DEF FacadeInv, NothingLeftOpen
  <2>4. FacadeTypeOK'
    BY <1>1, <2>1, <2>2 DEF FacadeInv, FacadeTypeOK
  <2> QED BY <1>1, <2>1, <2>2, <2>3, <2>4
          DEF FacadeInv, NothingLeftOpen, DeadUntilReopened, CheckedOpenIsUsable, Queries, Commands
<1>3. CASE /\ imp # "direct"
           /\ connected' = FALSE
           /\ \/ ~connected /\ Returned("VCI_CloseDevice", "ERR")
              \/ connected /\ \E o \in Net!Outcomes("Close") : Returned("VCI_CloseDevice", o[1])
           /\ UNCHANGED <<lib, open>>
  <2>1. /\ last' \in [fn : Calls, status : Statuses]
        /\ last'.fn = "VCI_CloseDevice"
    <3>1. ASSUME NEW o \in Net!Outcomes("Close") PROVE o[1] \in {"OK", "ERR"}
      <4>1. CASE o = <<"OK", FALSE>>
        BY <4>1
      <4>2. CASE o = <<"ERR", FALSE>>
        BY <4>2
      <4> QED BY <4>1, <4>2, NetOutcomes
    <3>2. PICK st \in {"OK", "ERR"} : Returned("VCI_CloseDevice", st)
      BY <1>3, <3>1
    <3> QED BY <3>2 DEF Returned, Calls, Statuses
  <2>2. lib = NoType /\ (neat => open = {})
    BY <1>3, FacadeAssumption DEF FacadeInv, FacadeTypeOK, NothingLeftOpen
  <2>3. FacadeTypeOK'
    BY <1>1, <1>3, <2>1, <2>2 DEF FacadeInv, FacadeTypeOK
  <2> QED BY <1>1, <1>3, <2>1, <2>2, <2>3
          DEF FacadeInv, NothingLeftOpen, DeadUntilReopened, CheckedOpenIsUsable, Queries, Commands
<1> QED BY <1>2, <1>3 DEF VCI_CloseDevice

\* A call on the network, with the kind of call it is to the server.
LEMMA OnNetKeeps ==
  ASSUME FacadeInv, NEW f \in Commands \cup {"VCI_Transmit", "VCI_Receive"},
         NEW c \in {"Command", "Transmit", "Receive"},
         f \in Commands => c = "Command", f = "VCI_Receive" => c = "Receive",
         f = "VCI_Transmit" => c = "Transmit",
         OnNet(f, c)
  PROVE  FacadeInv'
<1>1. PICK o \in IF connected THEN Net!Outcomes(c)
                 ELSE {<<IF c = "Receive" THEN "COUNT" ELSE "ERR", FALSE>>} :
        connected' = o[2] /\ Returned(f, o[1])
  BY DEF OnNet
<1>2. /\ o[1] \in {"OK", "ERR", "COUNT"}
      /\ o[2] \in BOOLEAN
      /\ ~connected => o[1] # "OK" /\ o[2] = FALSE
      /\ (o[1] = "ERR" /\ c # "Transmit") => o[2] = FALSE
      /\ o[1] = "OK" => o[2] = TRUE
      /\ o[1] = "COUNT" => c = "Receive"
  <2>1. CASE ~connected
    <3>1. o = <<IF c = "Receive" THEN "COUNT" ELSE "ERR", FALSE>>
      BY <2>1
    <3> QED BY <2>1, <3>1
  <2>2. CASE connected
    <3>1. o \in Net!Outcomes(c)
      BY <2>2
    <3>2. \/ o = <<"OK", TRUE>>
          \/ o = <<"ERR", FALSE>>
          \/ o = <<"ERR", TRUE>> /\ c = "Transmit"
          \/ (o = <<"COUNT", TRUE>> \/ o = <<"COUNT", FALSE>>) /\ c = "Receive"
      <4>1. CASE c = "Command"
        BY <3>1, <4>1, NetOutcomes
      <4>2. CASE c = "Transmit"
        BY <3>1, <4>2, NetOutcomes
      <4>3. CASE c = "Receive"
        BY <3>1, <4>3, NetOutcomes
      <4> QED BY <4>1, <4>2, <4>3
    <3>3. CASE o = <<"OK", TRUE>>
      BY <2>2, <3>3
    <3>4. CASE o = <<"ERR", FALSE>>
      BY <2>2, <3>4
    <3>5. CASE o = <<"ERR", TRUE>> /\ c = "Transmit"
      BY <2>2, <3>5
    <3>6. CASE o = <<"COUNT", TRUE>> /\ c = "Receive"
      BY <2>2, <3>6
    <3>7. CASE o = <<"COUNT", FALSE>> /\ c = "Receive"
      BY <2>2, <3>7
    <3> QED BY <3>2, <3>3, <3>4, <3>5, <3>6, <3>7
  <2> QED BY <2>1, <2>2
<1>3. /\ last' \in [fn : Calls, status : Statuses]
      /\ last'.fn = f
      /\ last'.status = o[1]
  BY <1>1, <1>2 DEF Returned, Calls, Statuses
<1>4. /\ imp = "net" /\ UNCHANGED <<imp, lib, addr, open, owed, neat>>
      /\ dead' = (dead \/ (connected /\ (~connected' \/ (last'.status = "ERR" /\ c # "Transmit"))))
  BY DEF OnNet, envVars
<1>5. FacadeTypeOK'
  BY <1>1, <1>2, <1>3, <1>4 DEF FacadeInv, FacadeTypeOK
<1>6. NothingLeftOpen' /\ ((neat /\ owed = NoType) => open = {})'
  BY <1>4 DEF FacadeInv, NothingLeftOpen
<1>7. (dead => lib = NoType /\ ~connected)'
  <2>1. lib' = NoType
    BY <1>4 DEF FacadeInv, FacadeTypeOK
  <2>2. dead' => ~connected'
    BY <1>1, <1>2, <1>3, <1>4 DEF FacadeInv
  <2> QED BY <2>1, <2>2
<1>8. DeadUntilReopened'
  <2> SUFFICES ASSUME dead', f \in Queries \cup Commands \cup {"VCI_Transmit"}
              PROVE  o[1] = "ERR"
    BY <1>3 DEF DeadUntilReopened
  <2>1. f # "VCI_Receive"
    BY DEF Queries, Commands
  <2>2. c # "Receive"
    BY <2>1
  <2>3. CASE dead
    BY <1>2, <2>2, <2>3 DEF FacadeInv
  <2>4. CASE ~dead
    <3>1. o[1] # "OK"
      BY <1>1, <1>2, <1>3, <1>4, <2>4
    <3> QED BY <1>2, <2>2, <3>1
  <2> QED BY <2>3, <2>4
<1>9. CheckedOpenIsUsable'
  BY <1>3 DEF CheckedOpenIsUsable, Commands
<1> QED BY <1>5, <1>6, <1>7, <1>8, <1>9 DEF FacadeInv

\* A call that changes nothing and is no success on a spent implementation.
LEMMA QuietKeeps ==
  ASSUME FacadeInv, NEW f \in Calls \ {"VCI_OpenDevice"}, NEW st \in Statuses,
         Returned(f, st), UNCHANGED <<imp, connected, lib, envVars, open, histVars>>,
         (lib = NoType /\ f \in Queries \cup Commands \cup {"VCI_Transmit"}) => st = "ERR"
  PROVE  FacadeInv'
<1>1. last' \in [fn : Calls, status : Statuses] /\ last'.fn = f /\ last'.status = st
  BY DEF Returned
<1>2. FacadeTypeOK'
  BY <1>1 DEF FacadeInv, FacadeTypeOK, envVars, histVars
<1>3. DeadUntilReopened' /\ CheckedOpenIsUsable'
  BY <1>1 DEF FacadeInv, DeadUntilReopened, CheckedOpenIsUsable, histVars
<1> QED BY <1>2, <1>3 DEF FacadeInv, NothingLeftOpen, histVars

\* The delegated calls, on a device.
LEMMA OnDeviceKeeps ==
  ASSUME FacadeInv, NEW t \in Types, NEW f \in Queries \cup Commands \cup {"VCI_Transmit"},
         OnDevice(f, t)
  PROVE  FacadeInv'
<1>1. PICK st \in {"OK", "ERR"} : Returned(f, st) /\ (lib = NoType => st = "ERR")
  BY FacadeAssumption DEF OnDevice
<1>2. f \in Calls \ {"VCI_OpenDevice"} /\ st \in Statuses
  BY DEF Calls, Queries, Commands, Statuses
<1>3. UNCHANGED <<imp, connected, lib, envVars, open, histVars>>
  BY DEF OnDevice
<1> QED BY <1>1, <1>2, <1>3, QuietKeeps

\* The call the network client refuses for its argument.
LEMMA RefusesNullKeeps ==
  ASSUME FacadeInv, NEW f \in Commands, RefusesNull(f)
  PROVE  FacadeInv'
<1>1. f \in Calls \ {"VCI_OpenDevice"} /\ "ERR" \in Statuses
  BY DEF Calls, Commands, Statuses
<1> QED BY <1>1, QuietKeeps DEF RefusesNull

\* The delegated calls that return a count.
LEMMA CountKeeps ==
  ASSUME FacadeInv, NEW f \in {"VCI_Receive", "VCI_GetReceiveNum"}, Returned(f, "COUNT"),
         UNCHANGED <<imp, connected, lib, envVars, open, histVars>>
  PROVE  FacadeInv'
<1>1. /\ f \in Calls \ {"VCI_OpenDevice"} /\ "COUNT" \in Statuses
      /\ f \notin Queries \cup Commands \cup {"VCI_Transmit"}
  BY DEF Calls, Queries, Commands, Opens, Statuses
<1> QED BY <1>1, QuietKeeps

\* Every call keeps the invariant.
LEMMA FacadeStep == FacadeInv /\ [Next]_vars => FacadeInv'
<1> SUFFICES ASSUME FacadeInv, [Next]_vars PROVE FacadeInv'
  OBVIOUS
<1>1. ASSUME NEW t \in Types, VCI_OpenDevice(t) PROVE FacadeInv'
  BY <1>1, OpenDeviceKeeps
<1>2. ASSUME NEW t \in Types, VCI_DeirectOpenCan(t) \/ VCI_OpenNetCan(t) PROVE FacadeInv'
  BY <1>2, OpenWithKeeps DEF VCI_DeirectOpenCan, VCI_OpenNetCan, Opens
<1>3. ASSUME NEW t \in Types, VCI_CloseDevice(t) PROVE FacadeInv'
  BY <1>3, CloseKeeps
<1>4. ASSUME NEW t \in Types, NEW f \in Queries, VCI_Query(f, t) PROVE FacadeInv'
  BY <1>4, OnDeviceKeeps DEF VCI_Query
<1>5. ASSUME NEW t \in Types, NEW f \in Commands, VCI_Command(f, t) PROVE FacadeInv'
  <2>1. f \notin {"VCI_Transmit", "VCI_Receive"}
    BY DEF Commands
  <2> QED BY <1>5, <2>1, OnDeviceKeeps, OnNetKeeps, RefusesNullKeeps DEF VCI_Command
<1>6. ASSUME NEW t \in Types, VCI_Transmit(t) PROVE FacadeInv'
  <2>1. "VCI_Transmit" \notin Commands
    BY DEF Commands
  <2> QED BY <1>6, <2>1, OnDeviceKeeps, OnNetKeeps DEF VCI_Transmit
<1>7. ASSUME VCI_Receive \/ VCI_GetReceiveNum PROVE FacadeInv'
  <2>1. "VCI_Receive" \notin Commands
    BY DEF Commands
  <2> QED BY <1>7, <2>1, CountKeeps, OnNetKeeps DEF VCI_Receive, VCI_GetReceiveNum
<1>8. CASE UNCHANGED vars
  BY <1>8 DEF vars, envVars, histVars, FacadeInv, FacadeTypeOK, NothingLeftOpen,
              DeadUntilReopened, CheckedOpenIsUsable
<1> QED BY <1>1, <1>2, <1>3, <1>4, <1>5, <1>6, <1>7, <1>8 DEF Next

\* The invariant holds after any sequence of calls.
LEMMA FacadeInductive == Spec => []FacadeInv
BY FacadeInit, FacadeStep, PTL DEF Spec

------------------------------------------------------------------------------
(* Theorems. *)

\* Whatever is opened, replaced, closed and delegated by the facade, its variables
\* keep their types: a library is loaded only beside no connection, and the reverse.
THEOREM FacadeTypeCorrect == Spec => []FacadeTypeOK
BY FacadeInductive, PTL DEF FacadeInv

\* A result of VCI_OpenDevice other than 0 means a connection or an open device:
\* CanAbstract never lets STATUS_NET_CONN_FAIL out of VCI_OpenDevice.
THEOREM OpenIsUsable == Spec => []CheckedOpenIsUsable
BY FacadeInductive, PTL DEF FacadeInv

\* With a caller that closes what it opened, CanAbstract::VCI_OpenDevice and
\* CanImpDirectCan2 never unload the library of a device that stays open.
THEOREM NoDeviceLeftOpen == Spec => []NothingLeftOpen
BY FacadeInductive, PTL DEF FacadeInv

\* After VCI_CloseDevice, an open that found neither a server nor a library, or a
\* call the network failed (its line could not be sent, or the connection was lost
\* in it), nothing the facade delegates succeeds until a device is opened.
THEOREM SpentStaysSilent == Spec => []DeadUntilReopened
BY FacadeInductive, PTL DEF FacadeInv
==============================================================================

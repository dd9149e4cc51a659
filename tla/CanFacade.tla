------------------------------ MODULE CanFacade ------------------------------
(***************************************************************************)
(* CanAbstract, the object behind the exported VCI_ functions: it owns one *)
(* implementation, which is a network client or a direct device, chooses   *)
(* it when a device is opened and delegates every call to it.  The network *)
(* client is known by its contract NetPort; the direct device              *)
(* (CanImpDirectCan2) is modelled here, with the vendor's library it loads *)
(* as external.  A call is one step.                                       *)
(***************************************************************************)
EXTENDS Integers, Sequences, FiniteSetsExt

CONSTANTS Types,       \* the device types the caller uses
          NoType,
          MaxEntries,  \* bound: entries of kerneldll.ini for one device type
          DwordSize    \* 2^32, or any number above 2

ASSUME FacadeAssumption ==
  /\ NoType \notin Types
  /\ MaxEntries \in Nat
  /\ DwordSize \in Nat \ 0..2

VARIABLES
  imp,        \* can_imp_
  connected,  \* _connected of the network client
  lib,        \* _lib and _dev_type of the direct device
  addr,       \* control_can.ini names a server
  entries,    \* what the libraries kerneldll.ini names are like
  open,       \* external: devices the vendor's library holds open
  last,       \* the call that returned last
  owed,       \* history: the device was opened and not closed
  neat,       \* history: it was closed, with its type, before the next open
  dead        \* history: closed, not opened, or failed by the network since then

envVars  == <<addr, entries>>
histVars == <<owed, neat, dead>>
vars     == <<imp, connected, lib, envVars, open, last, histVars>>

\* Only the outcomes of the calls are used; a call that runs is not visible.
Net == INSTANCE NetPort WITH NoStatus <- "COUNT", call <- "none", res <- "none"

Statuses == {"OK", "ERR", "CONN_FAIL", "THROW", "COUNT"}
Opens    == {"VCI_OpenDevice", "VCI_DeirectOpenCan", "VCI_OpenNetCan"}
Queries  == {"VCI_ReadBoardInfo", "VCI_ReadCANStatus", "VCI_GetReference",
             "VCI_SetReference"}
Commands == {"VCI_InitCAN", "VCI_ReadErrInfo", "VCI_ClearBuffer", "VCI_StartCAN",
             "VCI_ResetCAN"}
Calls    == Opens \cup Queries \cup Commands
              \cup {"none", "VCI_CloseDevice", "VCI_Transmit", "VCI_Receive",
                    "VCI_GetReceiveNum"}

FacadeTypeOK ==
  /\ imp \in {"none", "net", "direct"}
  /\ connected \in BOOLEAN /\ (connected => imp = "net" /\ addr)
  /\ lib \in Types \cup {NoType} /\ (lib # NoType => imp = "direct")
  /\ open \subseteq Types
  /\ last \in [fn : Calls, status : Statuses]
  /\ owed \in Types \cup {NoType} /\ neat \in BOOLEAN /\ dead \in BOOLEAN

\* vciReturnType, and its conversion by the exported functions.
Value(status) == CASE status = "OK" -> 1 [] status = "ERR" -> 0 [] status = "CONN_FAIL" -> -1
Dword(status) == Value(status) % DwordSize

Init ==
  /\ imp = "none" /\ connected = FALSE /\ lib = NoType
  /\ addr \in BOOLEAN
  /\ entries \in [Types -> UNION {[1..n -> {"missing", "broken", "ok"}] : n \in 0..MaxEntries}]
  /\ open = {}
  /\ last = [fn |-> "none", status |-> "COUNT"]
  /\ owed = NoType /\ neat = TRUE /\ dead = TRUE

Returned(f, status) == last' = [fn |-> f, status |-> status]

------------------------------------------------------------------------------
(* The implementations. *)

\* CanImpCanNet::VCI_OpenDevice, on an object that is connected or not: the
\* status and whether it is connected afterwards.
NetOpens(up) ==
  IF ~addr THEN {<<"CONN_FAIL", FALSE>>}
  ELSE Net!Outcomes("Open") \cup (IF up THEN {} ELSE {<<u, FALSE>> : u \in Net!Unreachable})

\* The search in kerneldll.ini takes the first entry whose file exists.  A
\* file that is no such library makes the constructor of the loader throw.
Search(t) ==
  LET there == {i \in DOMAIN entries[t] : entries[t][i] # "missing"}
  IN  IF there = {} THEN "missing" ELSE entries[t][Min(there)]

\* The library is unloaded.  It may close a device that is open, or not.
Unloaded == {open, open \ {lib}}

\* CanImpDirectCan2::VCI_OpenDevice unloads the old library first.
OpenLibrary(f, t, held) ==
  LET found == Search(t)
  IN  /\ imp' = "direct"
      /\ connected' = FALSE
      /\ lib' = IF found = "ok" THEN t ELSE NoType
      /\ \/ found = "missing" /\ open' = held /\ Returned(f, "ERR")
         \/ found = "broken" /\ open' = held /\ Returned(f, "THROW")
         \/ found = "ok" /\ open' = held \cup {t} /\ Returned(f, "OK")
         \/ found = "ok" /\ open' = held /\ Returned(f, "ERR")

\* CanImpDirectCan2::VCI_CloseDevice: with the wrong type the library is
\* unloaded all the same, and the device is not closed.
CloseLibrary(f, t) ==
  /\ lib' = NoType
  /\ UNCHANGED connected
  /\ \/ lib = t /\ open' = open \ {t} /\ Returned(f, "OK")
     \/ open' \in Unloaded /\ Returned(f, "ERR")

------------------------------------------------------------------------------
(* CanAbstract. *)

\* What the caller has opened and not closed, and whether it did so in order.
Opened(t) ==
  /\ neat' = (neat /\ owed = NoType)
  /\ owed' = IF last'.status = "OK" THEN t ELSE NoType
  /\ dead' = (last'.status # "OK" /\ lib' = NoType)

Closed(t) ==
  /\ neat' = (neat /\ (owed = NoType \/ (owed = t /\ last'.status = "OK")))
  /\ owed' = NoType
  /\ dead' = TRUE

\* Mutant: the failure is returned and the device is not tried.
OpenWithoutFallback(t) ==
  /\ open' \in Unloaded
  /\ lib' = NoType
  /\ imp' = "net"
  /\ \E o \in NetOpens(FALSE) : connected' = o[2] /\ Returned("VCI_OpenDevice", o[1])
  /\ Opened(t)
  /\ UNCHANGED envVars

\* Mutant: the old implementation is kept beside the new one.
OpenKeepsLibrary(t) ==
  /\ \E o \in NetOpens(FALSE) :
       IF o[1] = "CONN_FAIL"
       THEN OpenLibrary("VCI_OpenDevice", t, open)
       ELSE /\ imp' = "net" /\ connected' = o[2]
            /\ Returned("VCI_OpenDevice", o[1])
            /\ UNCHANGED <<lib, open>>
  /\ Opened(t)
  /\ UNCHANGED envVars

\* VCI_OpenDevice makes a new network client, which ends the old
\* implementation, and takes the device when there is no connection.
VCI_OpenDevice(t) ==
  /\ \E held \in Unloaded, o \in NetOpens(FALSE) :
       IF o[1] = "CONN_FAIL"
       THEN OpenLibrary("VCI_OpenDevice", t, held)
       ELSE /\ imp' = "net" /\ connected' = o[2]
            /\ lib' = NoType /\ open' = held
            /\ Returned("VCI_OpenDevice", o[1])
  /\ Opened(t)
  /\ UNCHANGED envVars

\* VCI_DeirectOpenCan and VCI_OpenNetCan use the implementation there is, of
\* either kind, and make one of their own kind only when there is none.
OpenWith(f, kind, t) ==
  /\ LET k == IF imp = "none" THEN kind ELSE imp
     IN  \/ k = "direct" /\ \E held \in Unloaded : OpenLibrary(f, t, held)
         \/ /\ k = "net"
            /\ imp' = "net"
            /\ \E o \in NetOpens(connected) : connected' = o[2] /\ Returned(f, o[1])
            /\ UNCHANGED <<lib, open>>
  /\ Opened(t)
  /\ UNCHANGED envVars

VCI_DeirectOpenCan(t) == OpenWith("VCI_DeirectOpenCan", "direct", t)
VCI_OpenNetCan(t)     == OpenWith("VCI_OpenNetCan", "net", t)

\* Mutant: the device is not closed, its library is only unloaded.
CloseOnlyUnloads(t) ==
  /\ imp' = "none"
  /\ connected' = FALSE
  /\ lib' = NoType
  /\ open' \in Unloaded
  /\ Returned("VCI_CloseDevice", IF lib = t \/ connected THEN "OK" ELSE "ERR")
  /\ Closed(t)
  /\ UNCHANGED envVars

\* Mutant: a close with the wrong type changes nothing.
CloseChecksType(t) ==
  /\ IF imp = "direct" /\ lib = t
     THEN imp' = "none" /\ CloseLibrary("VCI_CloseDevice", t)
     ELSE /\ Returned("VCI_CloseDevice", "ERR")
          /\ UNCHANGED <<imp, connected, lib, open>>
  /\ Closed(t)
  /\ UNCHANGED envVars

VCI_CloseDevice(t) ==
  /\ imp' = "none"
  /\ \/ imp = "direct" /\ CloseLibrary("VCI_CloseDevice", t)
     \/ /\ imp # "direct"
        /\ connected' = FALSE
        /\ \/ ~connected /\ Returned("VCI_CloseDevice", "ERR")
           \/ connected /\ \E o \in Net!Outcomes("Close") : Returned("VCI_CloseDevice", o[1])
        /\ UNCHANGED <<lib, open>>
  /\ Closed(t)
  /\ UNCHANGED envVars

\* A call the network client sends to the server, as the kind of call c.
OnNet(f, c) ==
  /\ imp = "net"
  /\ \E o \in IF connected THEN Net!Outcomes(c)
              ELSE {<<IF c = "Receive" THEN "COUNT" ELSE "ERR", FALSE>>} :
       connected' = o[2] /\ Returned(f, o[1])
  /\ dead' = (dead \/ (connected /\ (~connected' \/ (last'.status = "ERR" /\ c # "Transmit"))))
  /\ UNCHANGED <<imp, lib, envVars, open, owed, neat>>

\* VCI_ReadErrInfo of the network client with no place for the answer: it
\* fails before anything is sent, and a connection stays.
RefusesNull(f) ==
  /\ imp = "net"
  /\ f = "VCI_ReadErrInfo"
  /\ Returned(f, "ERR")
  /\ UNCHANGED <<imp, connected, lib, envVars, open, histVars>>

\* A call that the vendor's library answers, for the type it was loaded for
\* and on a device that is open, and that fails everywhere else.
OnDevice(f, t) ==
  /\ \/ imp = "direct" /\ lib = t /\ t \in open /\ Returned(f, "OK")
     \/ (imp # "net" \/ f \in Queries) /\ Returned(f, "ERR")
  /\ UNCHANGED <<imp, connected, lib, envVars, open, histVars>>

VCI_Query(f, t) == OnDevice(f, t)
VCI_Command(f, t) == OnDevice(f, t) \/ OnNet(f, "Command") \/ RefusesNull(f)
VCI_Transmit(t) == OnDevice("VCI_Transmit", t) \/ OnNet("VCI_Transmit", "Transmit")

\* A count is returned, which is 0 where there is nothing to receive from.
VCI_Receive ==
  \/ OnNet("VCI_Receive", "Receive")
  \/ /\ imp # "net"
     /\ Returned("VCI_Receive", "COUNT")
     /\ UNCHANGED <<imp, connected, lib, envVars, open, histVars>>

VCI_GetReceiveNum ==
  /\ Returned("VCI_GetReceiveNum", "COUNT")
  /\ UNCHANGED <<imp, connected, lib, envVars, open, histVars>>

Next ==
  \/ \E t \in Types :
       \/ VCI_OpenDevice(t) \/ VCI_DeirectOpenCan(t) \/ VCI_OpenNetCan(t)
       \/ VCI_CloseDevice(t)
       \/ \E f \in Queries : VCI_Query(f, t)
       \/ \E f \in Commands : VCI_Command(f, t)
       \/ VCI_Transmit(t)
  \/ VCI_Receive \/ VCI_GetReceiveNum

Spec == Init /\ [][Next]_vars

------------------------------------------------------------------------------
(* Properties. *)

\* can_agent and the tests go on when VCI_OpenDevice does not return 0.  A
\* value other than 0 then means that there is a connection to a server or
\* that the device is open: STATUS_NET_CONN_FAIL, which is not 0 as a DWORD,
\* must never get out of VCI_OpenDevice, after any sequence of calls.
CheckedOpenIsUsable ==
  (last.fn = "VCI_OpenDevice" /\ last.status # "THROW" /\ Dword(last.status) # 0) =>
    connected \/ (lib # NoType /\ lib \in open /\ owed = lib)

\* With a caller that closes what it opened, with the type it opened, before it
\* opens again, no device is left open in a library that was unloaded: whatever
\* VCI_OpenDevice tried and fell back to, a device that is open can be closed.
NothingLeftOpen == neat => open \subseteq {lib}

\* After VCI_CloseDevice, whatever it returned, after an open that found neither a
\* server nor a library, and after the network failed a call, no call reports
\* STATUS_OK until a device is opened: what was opened before, in the same object
\* or another, answers no more, be the failed implementation kept, dropped or half
\* reset.  The network failed a command that sent its line and returned STATUS_ERR,
\* and any call in which the connection was lost, VCI_Receive too, which reports a
\* count all the same.  VCI_ReadErrInfo without a place for the answer has sent
\* nothing, and VCI_Transmit keeps a connection that timed out: the calls that
\* follow may succeed.
DeadUntilReopened ==
  (dead /\ last.fn \in Queries \cup Commands \cup {"VCI_Transmit"}) => last.status = "ERR"
==============================================================================

-------------------------- MODULE DiscoveryClient --------------------------
(***************************************************************************)
(* The actuator node: the firmware built with DEVICE_IS_BLE_SERVER = 0.    *)
(*                                                                         *)
(* Every stack event goes to handle_ble_event (ble.c) and then to          *)
(* discovery_state_machine (scheduler.c): an event's action below does     *)
(* both.  The machine is a table, Transitions.                             *)
(*                                                                         *)
(* External: the stack and the sensor node at the other end of the link,   *)
(* modelled from what the firmware relies on.  A GATT procedure ends with  *)
(* one procedure_completed event, whatever its result; results come before *)
(* it.  Scan reports may still be queued when the scanner is stopped.      *)
(***************************************************************************)
EXTENDS Integers, Sequences

CONSTANTS
    CallsMayFail,  \* the stack may refuse calls it could carry out
    LateReports,   \* further reports of the server may wait behind one
    ServerAnswers, \* the server has what it is asked for and grants it
    MaxQueued      \* bound: stack events waiting for the application

ASSUME FailureAssumption ==
    CallsMayFail \in BOOLEAN /\ LateReports \in BOOLEAN /\ ServerAnswers \in BOOLEAN
ASSUME MaxQueuedAssumption == MaxQueued \in Nat \ {0}

Chars == {"light", "smoke"}

\* What is discovered and subscribed to, and the handle that gives: a handle in
\* ble_data is the sensor it stands for, or "none" while it is still zero.
Handles    == Chars \cup {"none"}
Procedures == [kind : {"service", "chars", "notify"}, char : Chars]
NoProcedure == [kind |-> "none", char |-> "none"]

VARIABLES
    \* ble_data (ble.c)
    connected, gatt_procedure_ongoing, service_handle, chars_handle,
    nextState,                \* discovery_state_machine's static
    strip,                    \* the pin that powers the LED strip
    rowConnection, rowTempvalue, rowAction,
    \* the stack: scanning, a connection being opened, the link, the procedure
    \* under way, events for the application
    scanning, opening, link, procedure, events,
    \* the sensor node: CCCDs this client enabled, an indication unconfirmed
    cccd, unconfirmed

bleData == <<connected, gatt_procedure_ongoing, service_handle, chars_handle>>
rows    == <<rowConnection, rowTempvalue, rowAction>>
app     == <<bleData, nextState, strip, rows>>
peer    == <<cccd, unconfirmed>>
vars    == <<app, scanning, opening, link, procedure, events, peer>>

EventIds == {"system_boot", "scan_report", "connection_opened",
             "connection_closed", "gatt_service", "gatt_characteristic",
             "procedure_completed", "characteristic_value"}
Events   == [id : EventIds, char : Handles, value : 0..1]

Plain(id)        == [id |-> id, char |-> "none", value |-> 0]
Found(id, c)     == [id |-> id, char |-> c, value |-> 0]
ScanReport(v)    == [id |-> "scan_report", char |-> "none", value |-> v]
ValueEvent(c, v) == [id |-> "characteristic_value", char |-> c, value |-> v]

\* The program is loaded; the display shows what it last showed.
Starts ==
    /\ connected = FALSE
    /\ gatt_procedure_ongoing = FALSE
    /\ service_handle = [c \in Chars |-> "none"]
    /\ chars_handle = [c \in Chars |-> "none"]
    /\ nextState = "Idle"
    /\ strip = FALSE
    /\ scanning = FALSE
    /\ opening = FALSE
    /\ link = FALSE
    /\ procedure = NoProcedure
    /\ events = <<Plain("system_boot")>>
    /\ cccd = {}
    /\ unconfirmed = FALSE

Init ==
    /\ Starts
    /\ rowConnection = ""
    /\ rowTempvalue = ""
    /\ rowAction = ""

Post(e) == /\ Len(events) < MaxQueued
           /\ events' = Append(events, e)

Take(id) == /\ events # <<>>
            /\ Head(events).id = id
            /\ events' = Tail(events)

-----------------------------------------------------------------------------
(* discovery_state_machine                                                 *)

Transition(from, on, kind, char, to) ==
    [from |-> from, on |-> on, call |-> [kind |-> kind, char |-> char], to |-> to]

\* Mutant: the discovery of the smoke service starts when the subscription to
\* the light value is done.
TransitionsOnCompletion ==
    { Transition("Idle", "connection_opened", "service", "light", "light_Getservice"),
      Transition("light_Getservice", "procedure_completed", "chars", "light", "light_Getchars"),
      Transition("light_Getchars", "procedure_completed", "notify", "light", "smoke_discover"),
      Transition("smoke_discover", "procedure_completed", "service", "smoke", "smoke_Getservice"),
      Transition("smoke_Getservice", "procedure_completed", "chars", "smoke", "smoke_Getchars"),
      Transition("smoke_Getchars", "procedure_completed", "notify", "smoke", "SetIndication") }

\* Each waits for an event, calls a GATT procedure ("none" for no call) and
\* moves on whether or not the call succeeds.
Transitions ==
    { Transition("Idle", "connection_opened", "service", "light", "light_Getservice"),
      Transition("light_Getservice", "procedure_completed", "chars", "light", "light_Getchars"),
      Transition("light_Getchars", "procedure_completed", "notify", "light", "smoke_discover"),
      Transition("smoke_discover", "connection_opened", "service", "smoke", "smoke_Getservice"),
      Transition("smoke_Getservice", "procedure_completed", "chars", "smoke", "smoke_Getchars"),
      Transition("smoke_Getchars", "procedure_completed", "notify", "smoke", "SetIndication"),
      Transition("SetIndication", "procedure_completed", "none", "none", "Connclose"),
      Transition("Connclose", "connection_closed", "none", "none", "Idle") }

States == {"Idle", "light_Getservice", "light_Getchars", "smoke_discover",
           "smoke_Getservice", "smoke_Getchars", "SetIndication", "Connclose"}

\* The stack starts the procedure: there is a link, none is under way, and the
\* handle it is given exists.
CanStart(p) ==
    /\ link
    /\ procedure = NoProcedure
    /\ p.kind = "chars"  => service_handle[p.char] # "none"
    /\ p.kind = "notify" => chars_handle[p.char] # "none"

Call(p) == \/ CanStart(p) /\ procedure' = p
           \/ (CallsMayFail \/ ~CanStart(p)) /\ UNCHANGED procedure

Enabled(on) == {t \in Transitions : t.from = nextState /\ t.on = on}

\* What the machine makes of an event that leaves gatt_procedure_ongoing at
\* ongoing when handle_ble_event is done with it.
Machine(on, ongoing) ==
    IF Enabled(on) = {}
    THEN /\ gatt_procedure_ongoing' = ongoing
         /\ UNCHANGED <<nextState, procedure>>
    ELSE \E t \in Enabled(on) :
             /\ nextState' = t.to
             /\ IF t.call.kind = "none"
                THEN gatt_procedure_ongoing' = ongoing /\ UNCHANGED procedure
                ELSE gatt_procedure_ongoing' = TRUE /\ Call(t.call)

-----------------------------------------------------------------------------
(* handle_ble_event, then the machine                                      *)

\* Mutant: the client does not go back to scanning.
ScannerNotStarted == UNCHANGED scanning

\* sl_bt_scanner_start, sl_bt_scanner_stop: an error is logged and that is all.
scanner_start == scanning' = TRUE  \/ (CallsMayFail /\ UNCHANGED scanning)
scanner_stop  == scanning' = FALSE \/ (CallsMayFail /\ UNCHANGED scanning)

\* displayInit clears the display.
HandleBoot ==
    /\ Take("system_boot")
    /\ scanner_start
    /\ rowConnection' = "Discovering"
    /\ rowTempvalue' = ""
    /\ rowAction' = ""
    /\ connected' = FALSE
    /\ gatt_procedure_ongoing' = FALSE
    /\ UNCHANGED <<service_handle, chars_handle, nextState, strip, opening, link,
                   procedure, peer>>

\* value tells the server's connectable advertisement, 1, from what is ignored.
\* Whether or not the scanner stops, the connection is opened.
HandleScanReport ==
    /\ Take("scan_report")
    /\ IF Head(events).value = 1
       THEN /\ scanner_stop
            /\ IF ~opening /\ ~link
               THEN opening' = TRUE \/ (CallsMayFail /\ UNCHANGED opening)
               ELSE UNCHANGED opening
       ELSE UNCHANGED <<scanning, opening>>
    /\ UNCHANGED <<app, link, procedure, peer>>

HandleConnectionOpened ==
    /\ Take("connection_opened")
    /\ connected' = TRUE
    /\ rowConnection' = "Connected"
    /\ Machine("connection_opened", gatt_procedure_ongoing)
    /\ UNCHANGED <<service_handle, chars_handle, strip, rowTempvalue, rowAction,
                   scanning, opening, link, peer>>

\* Mutant: the machine is not sent back to its first state.
MachineGoesOn == UNCHANGED nextState

\* discovery_state_machine starts over before it looks at its state.
MachineStartsOver == nextState' = "Idle"

\* Mutant: the last readings stay on the display.
KeepReadings == UNCHANGED <<rowTempvalue, rowAction>>

ClearReadings == rowTempvalue' = "" /\ rowAction' = ""

HandleConnectionClosed ==
    /\ Take("connection_closed")
    /\ connected' = FALSE
    /\ gatt_procedure_ongoing' = FALSE
    /\ MachineStartsOver
    /\ scanner_start
    /\ rowConnection' = "Discovering"
    /\ ClearReadings
    /\ UNCHANGED <<service_handle, chars_handle, strip, opening, link,
                   procedure, peer>>

HandleGattService ==
    /\ Take("gatt_service")
    /\ service_handle' =
           [service_handle EXCEPT ![Head(events).char] = Head(events).char]
    /\ UNCHANGED <<connected, gatt_procedure_ongoing, chars_handle, nextState,
                   strip, rows, scanning, opening, link, procedure, peer>>

HandleGattCharacteristic ==
    /\ Take("gatt_characteristic")
    /\ chars_handle' =
           [chars_handle EXCEPT ![Head(events).char] = Head(events).char]
    /\ UNCHANGED <<connected, gatt_procedure_ongoing, service_handle, nextState,
                   strip, rows, scanning, opening, link, procedure, peer>>

\* The row is written when the machine asks for indications.
HandleProcedureCompleted ==
    /\ Take("procedure_completed")
    /\ Machine("procedure_completed", FALSE)
    /\ rowConnection' =
           IF \E t \in Enabled("procedure_completed") : t.call.kind = "notify"
           THEN "Handling indications" ELSE rowConnection
    /\ UNCHANGED <<connected, service_handle, chars_handle, strip, rowTempvalue,
                   rowAction, scanning, opening, link, peer>>

\* Mutant: only what is recognised is confirmed.
ConfirmKnown(c) ==
    unconfirmed' = (unconfirmed /\ ~(link /\ c = chars_handle["smoke"]))

\* sl_bt_gatt_send_characteristic_confirmation: an error is logged and that is
\* all, a refused confirmation is not repeated.
Confirm(c) == \/ unconfirmed' = (unconfirmed /\ ~link)
              \/ CallsMayFail /\ UNCHANGED unconfirmed

wsb_enable  == strip' = TRUE
wsb_disable == strip' = FALSE

LightText(v)  == IF v = 1 THEN "Light is On" ELSE "Light is Off"
BuzzerText(v) == IF v = 1 THEN "Buzzer is On" ELSE "Buzzer is Off"

HandleCharacteristicValue ==
    LET c == Head(events).char
        v == Head(events).value
    IN  /\ Take("characteristic_value")
        /\ Confirm(c)
        /\ rowTempvalue' =
               IF c = chars_handle["light"] THEN BuzzerText(v) ELSE rowTempvalue
        /\ IF c = chars_handle["smoke"]
           THEN /\ rowAction' = LightText(v)
                /\ IF v = 1 THEN wsb_enable ELSE wsb_disable
           ELSE UNCHANGED <<rowAction, strip>>
        /\ UNCHANGED <<bleData, nextState, rowConnection, scanning, opening,
                       link, procedure, cccd>>

HandleEvent ==
    \/ HandleBoot
    \/ HandleScanReport
    \/ HandleConnectionOpened
    \/ HandleConnectionClosed
    \/ HandleGattService
    \/ HandleGattCharacteristic
    \/ HandleProcedureCompleted
    \/ HandleCharacteristicValue

-----------------------------------------------------------------------------
(* The stack and the sensor node                                           *)

\* Reports leave room for the two events of a procedure.
AdvertiserSeen ==
    /\ scanning
    /\ Len(events) < MaxQueued - 2
    /\ \/ Post(ScanReport(0))
       \/ /\ ~link
          /\ LateReports \/ \A i \in 1..Len(events) : events[i] # ScanReport(1)
          /\ Post(ScanReport(1))
    /\ UNCHANGED <<app, scanning, opening, link, procedure, peer>>

ConnectionOpens ==
    /\ opening
    /\ opening' = FALSE
    /\ link' = TRUE
    /\ Post(Plain("connection_opened"))
    /\ UNCHANGED <<app, scanning, procedure, peer>>

\* Opening fails, or an open connection is lost with all that depends on it; a
\* procedure under way may be reported as ended first.
ConnectionLost ==
    /\ opening \/ link
    /\ opening' = FALSE
    /\ link' = FALSE
    /\ procedure' = NoProcedure
    /\ cccd' = {}
    /\ unconfirmed' = FALSE
    /\ \/ Post(Plain("connection_closed"))
       \/ /\ procedure # NoProcedure
          /\ Len(events) < MaxQueued - 1
          /\ events' = events \o <<Plain("procedure_completed"),
                                   Plain("connection_closed")>>
    /\ UNCHANGED <<app, scanning>>

\* The result of the procedure, then its end.
ProcedureFinds ==
    LET id == IF procedure.kind = "service" THEN "gatt_service"
                                            ELSE "gatt_characteristic"
    IN  /\ procedure.kind \in {"service", "chars"}
        /\ Len(events) < MaxQueued - 1
        /\ procedure' = NoProcedure
        /\ events' = events \o <<Found(id, procedure.char),
                                 Plain("procedure_completed")>>
        /\ UNCHANGED <<app, scanning, opening, link, peer>>

\* The server subscribes the client, or has nothing of the kind.
ProcedureEnds ==
    /\ procedure # NoProcedure
    /\ procedure' = NoProcedure
    /\ \/ /\ procedure.kind = "notify"
          /\ cccd' = cccd \cup {procedure.char}
       \/ ~ServerAnswers /\ UNCHANGED cccd
    /\ Post(Plain("procedure_completed"))
    /\ UNCHANGED <<app, scanning, opening, link, unconfirmed>>

ServerIndicates ==
    /\ link
    /\ ~unconfirmed
    /\ unconfirmed' = TRUE
    /\ \E c \in cccd, v \in 0..1 : Post(ValueEvent(c, v))
    /\ UNCHANGED <<app, scanning, opening, link, procedure, cccd>>

Environment ==
    \/ AdvertiserSeen
    \/ ConnectionOpens
    \/ ConnectionLost
    \/ ProcedureFinds
    \/ ProcedureEnds
    \/ ServerIndicates

Next == HandleEvent \/ Environment

Spec == Init /\ [][Next]_vars

\* The superloop keeps delivering events; an attempt to connect and a procedure
\* that was started come to an end.  The server need not show up.
FairSpec ==
    /\ Spec
    /\ WF_vars(HandleEvent)
    /\ WF_vars(opening /\ (ConnectionOpens \/ ConnectionLost))
    /\ WF_vars(ProcedureFinds \/ ProcedureEnds)

-----------------------------------------------------------------------------
BleTypes ==
    /\ connected \in BOOLEAN
    /\ gatt_procedure_ongoing \in BOOLEAN
    /\ service_handle \in [Chars -> Handles]
    /\ chars_handle \in [Chars -> Handles]

OutputTypes ==
    /\ strip \in BOOLEAN
    /\ rowConnection \in {"", "Discovering", "Connected", "Handling indications"}
    /\ rowTempvalue \in {"", "Buzzer is On", "Buzzer is Off"}
    /\ rowAction \in {"", "Light is On", "Light is Off"}

DiscoveryTypes ==
    /\ nextState \in States
    /\ procedure \in Procedures \cup {NoProcedure}

StackTypes ==
    /\ scanning \in BOOLEAN
    /\ opening \in BOOLEAN
    /\ link \in BOOLEAN
    /\ cccd \subseteq Chars
    /\ unconfirmed \in BOOLEAN

QueueTypes == events \in Seq(Events) /\ Len(events) <= MaxQueued

TypeOK == BleTypes /\ OutputTypes /\ DiscoveryTypes /\ StackTypes /\ QueueTypes

\* ble.c and scheduler.c keep the state of the connection apart; they agree: the
\* discovery is in its first state exactly while there is no connection, also
\* when a late scan report opens a connection before the end of the last one has
\* been handled.
MachineFollowsConnection == (nextState = "Idle") <=> ~connected

\* With no event to come the client is scanning, connecting or connected: it is
\* never left with nothing that could bring the server back.
NeverStranded == events = <<>> => scanning \/ opening \/ link

\* The client subscribes to the light value and to nothing else: the discovery
\* of the smoke service waits for a connection to open while one is open, and
\* the LED strip that smoke indications control is never switched on.
LightOnly == cccd \subseteq {"light"} /\ ~strip /\ rowAction = ""

\* Until system_boot is handled the display shows what it did before a reset.
Booting == \E i \in 1..Len(events) : events[i].id = "system_boot"

\* A closed connection leaves no reading on the display: no indication that was
\* queued when the link was lost is shown after the end of its connection.
NothingOutlivesConnection ==
    ~connected /\ ~Booting => rowTempvalue = "" /\ rowAction = ""

\* A connection opens before the end of the last one has been handled.
Overlapping ==
    \E i, j \in 1..Len(events) : /\ i < j
                                 /\ events[i].id = "connection_closed"
                                 /\ events[j].id = "connection_opened"

\* With a server that has the light service and grants what it is asked for,
\* every connection that stays is one in which the client gets subscribed to the
\* light value: no report, result or end of a procedure that is left over takes
\* the place of one that the discovery waits for, unless connections overlap.
DiscoveryCompletes ==
    []~Overlapping => (connected ~> ~connected \/ "light" \in cccd)
=============================================================================

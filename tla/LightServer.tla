---------------------------- MODULE LightServer ----------------------------
(***************************************************************************)
(* The sensor node: the firmware built with DEVICE_IS_BLE_SERVER = 1.      *)
(*                                                                         *)
(* sl_bt_on_event (app.c) hands every stack event to handle_ble_event      *)
(* (ble.c) and then to light_state_machine (scheduler.c).  The machine     *)
(* ignores everything but external signals and handle_ble_event does       *)
(* nothing with those, so each kind of event has one handler below.        *)
(* Interrupts (ADC0, LETIMER0) interleave with the handlers, and the       *)
(* Bluetooth stack with its remote client does so between them.            *)
(*                                                                         *)
(* External: the stack, modelled from what handle_ble_event relies on.     *)
(* Its events reach the application in order; external signals are         *)
(* merged while pending and may overtake queued events.                    *)
(***************************************************************************)
EXTENDS Integers, Sequences

CONSTANTS
    Samples,         \* readings the ADC may return, 12 bits
    LightThreshold,  \* mV under which it is dark        (light_threshold)
    SmokeThreshold,  \* mV under which the air is clear  (smoke_threshold)
    MaxQueued        \* bound: stack events waiting for the application

ASSUME SamplesAssumption == Samples \subseteq 0..4095
ASSUME ThresholdAssumption == LightThreshold \in Nat /\ SmokeThreshold \in Nat
ASSUME MaxQueuedAssumption == MaxQueued \in Nat \ {0}

VARIABLES
    \* ble_data (ble.c)
    connected, light_indication, smoke_indication, indication_in_flight,
    \* light_state_machine's static (scheduler.c); globals of adc.c
    nextState, channel, sample_light, sample_smoke,
    \* output pins and display rows
    lightPower, smokePower, buzzer, rowConnection, rowTempvalue, rowAction,
    rowLight, rowSmoke,   \* DISPLAY_ROW_11 and DISPLAY_ROW_10, in mV
    \* peripherals: the ADC input under conversion, COMP1 interrupt enabled
    conv, comp1Enabled,
    \* the stack: signals and events for the application, advertising, the
    \* link, the client's CCCDs, the indication awaiting a confirmation, GATT
    \* barred after a timeout
    signals, events, advertising, link, cccd, outstanding, barred

bleData  == <<connected, light_indication, smoke_indication, indication_in_flight>>
measured == <<rowLight, rowSmoke>>
rows     == <<rowConnection, rowTempvalue, rowAction, measured>>
power    == <<lightPower, smokePower>>
samples  == <<sample_light, sample_smoke>>
stack    == <<advertising, link, cccd, outstanding, barred>>
sampling == <<nextState, channel, samples, power, buzzer, conv, comp1Enabled>>
vars     == <<bleData, sampling, rows, signals, events, stack>>

Chars   == {"light", "smoke"}
States  == {"Idle", "StartInit", "ADCRead",
            "smoke_Idle", "smoke_StartInit", "smoke_ADCRead"}
Signals == {"UF", "COMP1"}
Blank   == -1    \* what a row for a measurement shows when it shows none

-----------------------------------------------------------------------------
(* Events of the stack                                                     *)

EventIds == {"system_boot", "connection_opened", "connection_closed",
             "client_config", "confirmation", "indication_timeout"}
Events   == [id : EventIds, char : Chars, on : BOOLEAN]

Plain(id)           == [id |-> id, char |-> "light", on |-> FALSE]
ClientConfig(c, on) == [id |-> "client_config", char |-> c, on |-> on]
Confirmation(c)     == [id |-> "confirmation", char |-> c, on |-> FALSE]

NoIndication == [char |-> "none", value |-> 0]
Indications  == {NoIndication} \cup [char : Chars, value : 0..1]

\* The stack queues an event for the application.
Post(e) == /\ Len(events) < MaxQueued
           /\ events' = Append(events, e)

\* The application takes the next event, which is one of these.
Take(id) == /\ events # <<>>
            /\ Head(events).id = id
            /\ events' = Tail(events)

\* The program is loaded; the display shows what it last showed.
Starts ==
    /\ connected = FALSE
    /\ light_indication = FALSE
    /\ smoke_indication = FALSE
    /\ indication_in_flight = FALSE
    /\ nextState = "Idle"
    /\ channel = 0
    /\ sample_light = 0
    /\ sample_smoke = 0
    /\ lightPower = FALSE
    /\ smokePower = FALSE
    /\ buzzer = FALSE
    /\ conv = "none"
    /\ comp1Enabled = FALSE
    /\ signals = {}
    /\ events = <<Plain("system_boot")>>
    /\ advertising = FALSE
    /\ link = FALSE
    /\ cccd = {}
    /\ outstanding = NoIndication
    /\ barred = FALSE

Init ==
    /\ Starts
    /\ rowConnection = ""
    /\ rowTempvalue = ""
    /\ rowAction = ""
    /\ rowLight = Blank
    /\ rowSmoke = Blank

-----------------------------------------------------------------------------
(* handle_ble_event                                                        *)

\* Mutants of the next definitions: a flag the reset forgets.
ClearAllButSubscription ==
    /\ connected' = FALSE
    /\ smoke_indication' = FALSE
    /\ indication_in_flight' = FALSE
    /\ UNCHANGED light_indication

ClearAllButConnected ==
    /\ light_indication' = FALSE
    /\ smoke_indication' = FALSE
    /\ indication_in_flight' = FALSE
    /\ UNCHANGED connected

ClearAllButInFlight ==
    /\ connected' = FALSE
    /\ light_indication' = FALSE
    /\ smoke_indication' = FALSE
    /\ UNCHANGED indication_in_flight

ClearBleData ==
    /\ connected' = FALSE
    /\ light_indication' = FALSE
    /\ smoke_indication' = FALSE
    /\ indication_in_flight' = FALSE

\* Mutant: the call is missing.
AdvertiserNotStarted == UNCHANGED advertising

\* sl_bt_advertiser_start (assumed to succeed: see the README)
advertiser_start == advertising' = TRUE

\* displayInit clears the display.
HandleBoot ==
    /\ Take("system_boot")
    /\ ClearBleData
    /\ advertiser_start
    /\ rowConnection' = "Advertising"
    /\ rowTempvalue' = ""
    /\ rowAction' = ""
    /\ rowLight' = Blank
    /\ rowSmoke' = Blank
    /\ UNCHANGED <<sampling, signals, link, cccd, outstanding, barred>>

HandleConnectionOpened ==
    /\ Take("connection_opened")
    /\ connected' = TRUE
    /\ advertising' = FALSE
    /\ rowConnection' = "Connected"
    /\ UNCHANGED <<light_indication, smoke_indication, indication_in_flight,
                   sampling, rowTempvalue, rowAction, measured, signals,
                   link, cccd, outstanding, barred>>

\* Rows 10 and 11 are left as they are.
HandleConnectionClosed ==
    /\ Take("connection_closed")
    /\ ClearBleData
    /\ advertiser_start
    /\ rowConnection' = "Advertising"
    /\ rowTempvalue' = ""
    /\ rowAction' = ""
    /\ UNCHANGED <<sampling, measured, signals, link, cccd, outstanding, barred>>

\* Everything this event does is inside "characteristic == gattdb_light_status":
\* the block for smoke that is nested there can never run.
HandleClientConfig ==
    /\ Take("client_config")
    /\ IF Head(events).char = "light"
       THEN /\ light_indication' = Head(events).on
            /\ rowTempvalue' = IF Head(events).on THEN rowTempvalue ELSE ""
       ELSE UNCHANGED <<light_indication, rowTempvalue>>
    /\ UNCHANGED <<connected, smoke_indication, indication_in_flight, sampling,
                   rowConnection, rowAction, measured, signals, stack>>

HandleConfirmation ==
    /\ Take("confirmation")
    /\ indication_in_flight' =
           (indication_in_flight /\ Head(events).char # "light")
    /\ UNCHANGED <<connected, light_indication, smoke_indication, sampling,
                   rows, signals, stack>>

HandleIndicationTimeout ==
    /\ Take("indication_timeout")
    /\ light_indication' = FALSE
    /\ smoke_indication' = FALSE
    /\ UNCHANGED <<connected, indication_in_flight, sampling, rows, signals,
                   stack>>

HandleEvent ==
    \/ HandleBoot
    \/ HandleConnectionOpened
    \/ HandleConnectionClosed
    \/ HandleClientConfig
    \/ HandleConfirmation
    \/ HandleIndicationTimeout

-----------------------------------------------------------------------------
(* convert_light, convert_smoke, ble_ambient, ble_smoke                    *)
(*                                                                         *)
(* The value is also written to the attribute of the GATT database.  That  *)
(* may fail, which is logged, and nobody reads it: it is not modelled.     *)

Millivolts(sample) == (sample * 2500) \div 4096

LightValue == IF Millivolts(sample_light) < LightThreshold THEN 1 ELSE 0
SmokeValue == IF Millivolts(sample_smoke) < SmokeThreshold THEN 1 ELSE 0

\* Each conversion, sent or not, is shown on a row of the display; that of the
\* light also sets the buzzer.
convert_light == /\ rowLight' = Millivolts(sample_light)
                 /\ buzzer' = (LightValue = 1)
convert_smoke == rowSmoke' = Millivolts(sample_smoke)

\* sl_bt_gatt_server_send_indication can succeed.
CanSend(c) == /\ link
              /\ ~barred
              /\ c \in cccd
              /\ outstanding = NoIndication

Sent(c, v) ==
    /\ light_indication
    /\ CanSend(c)
    /\ outstanding' = [char |-> c, value |-> v]
    /\ indication_in_flight' = TRUE

\* The call failed (the stack may also be out of memory) or was not made: the
\* error is logged and the reading is gone.
NotSent == UNCHANGED <<outstanding, indication_in_flight>>

\* Writing light_status[1], past the end of a one-byte array, may clear the
\* local the text is chosen by: shown is what is left of it.
ble_ambient ==
    /\ connected
    /\ convert_light
    /\ \/ /\ Sent("light", LightValue)
          /\ \E shown \in {LightValue, 0} :
                 rowTempvalue' = IF shown = 1 THEN "Buzzer is On"
                                              ELSE "Buzzer is Off"
       \/ NotSent /\ UNCHANGED rowTempvalue
    /\ UNCHANGED <<rowAction, rowSmoke>>

ble_smoke ==
    /\ connected
    /\ convert_smoke
    /\ \/ /\ Sent("smoke", SmokeValue)
          /\ \E shown \in {SmokeValue, 0} :
                 rowAction' = IF shown = 1 THEN "Light is On" ELSE "Light is Off"
       \/ NotSent /\ UNCHANGED rowAction
    /\ UNCHANGED <<rowTempvalue, rowLight, buzzer>>

-----------------------------------------------------------------------------
(* light_state_machine, driven by the pending external signals             *)

\* The machine's gate; every transition also needs the underflow flag.
Subscribed == connected /\ light_indication

TakeSignals == signals # {} /\ signals' = {}

\* Mutant: the transitions wait for the delay they started.
AdvanceOnComp1(from, to) ==
    /\ TakeSignals
    /\ Subscribed
    /\ "COMP1" \in signals
    /\ nextState = from
    /\ nextState' = to
    /\ UNCHANGED <<connected, light_indication, smoke_indication, samples,
                   channel, rowConnection, events, advertising, link, cccd, barred>>

Advance(from, to) ==
    /\ TakeSignals
    /\ Subscribed
    /\ "UF" \in signals
    /\ nextState = from
    /\ nextState' = to
    /\ UNCHANGED <<connected, light_indication, smoke_indication, samples,
                   channel, rowConnection, events, advertising, link, cccd, barred>>

SignalIgnored ==
    /\ TakeSignals
    /\ ~Subscribed \/ "UF" \notin signals
    /\ UNCHANGED <<bleData, sampling, rows, events, stack>>

timerWaitUs_irq == comp1Enabled' = TRUE

light_sensor_enable  == lightPower' = TRUE
light_sensor_disable == lightPower' = FALSE
smoke_sensor_enable  == smokePower' = TRUE
smoke_sensor_disable == smokePower' = FALSE

\* A conversion that is still running is given up.
ADC_Reset == conv' = "none"

\* Mutants: the pin of the buzzer is left alone; the inputs are swapped.
InitADCKeepsBuzzer == /\ UNCHANGED buzzer
                      /\ conv' = IF channel = 0 THEN "light" ELSE "smoke"

InitADCSwapsInputs == /\ buzzer' = FALSE
                      /\ conv' = IF channel = 1 THEN "light" ELSE "smoke"

\* The buzzer pin is configured anew, low; the input goes by channel.
initADC == /\ buzzer' = FALSE
           /\ conv' = IF channel = 0 THEN "light" ELSE "smoke"

PowerLight ==
    /\ Advance("Idle", "StartInit")
    /\ light_sensor_enable
    /\ timerWaitUs_irq
    /\ UNCHANGED <<indication_in_flight, smokePower, buzzer, rowTempvalue,
                   rowAction, measured, conv, outstanding>>

StartLight ==
    /\ Advance("StartInit", "ADCRead")
    /\ initADC
    /\ UNCHANGED <<indication_in_flight, power, rowTempvalue, rowAction,
                   measured, comp1Enabled, outstanding>>

\* Mutant: light_sensor_disable is missing.
ReadLightLeavesPower ==
    /\ Advance("ADCRead", "smoke_Idle")
    /\ ble_ambient
    /\ timerWaitUs_irq
    /\ ADC_Reset
    /\ UNCHANGED power

ReadLight ==
    /\ Advance("ADCRead", "smoke_Idle")
    /\ ble_ambient
    /\ timerWaitUs_irq
    /\ light_sensor_disable
    /\ ADC_Reset
    /\ UNCHANGED smokePower

PowerSmoke ==
    /\ Advance("smoke_Idle", "smoke_StartInit")
    /\ smoke_sensor_enable
    /\ timerWaitUs_irq
    /\ UNCHANGED <<indication_in_flight, lightPower, buzzer, rowTempvalue,
                   rowAction, measured, conv, outstanding>>

StartSmoke ==
    /\ Advance("smoke_StartInit", "smoke_ADCRead")
    /\ initADC
    /\ timerWaitUs_irq
    /\ UNCHANGED <<indication_in_flight, power, rowTempvalue, rowAction,
                   measured, outstanding>>

ReadSmoke ==
    /\ Advance("smoke_ADCRead", "Idle")
    /\ ble_smoke
    /\ timerWaitUs_irq
    /\ smoke_sensor_disable
    /\ ADC_Reset
    /\ UNCHANGED lightPower

HandleSignal ==
    \/ SignalIgnored
    \/ PowerLight \/ StartLight \/ ReadLight
    \/ PowerSmoke \/ StartSmoke \/ ReadSmoke

-----------------------------------------------------------------------------
(* Interrupts                                                              *)

\* Mutant: channel counts on instead of going back to 0.
StoreInNext(s) ==
    IF channel = 0
    THEN sample_light' = s /\ channel' = 1 /\ UNCHANGED sample_smoke
    ELSE sample_smoke' = s /\ channel' = channel + 1 /\ UNCHANGED sample_light

\* channel says which sensor a result belongs to.
Store(s) ==
    IF channel = 0
    THEN sample_light' = s /\ channel' = 1 /\ UNCHANGED sample_smoke
    ELSE sample_smoke' = s /\ channel' = 0 /\ UNCHANGED sample_light

\* ADC0_IRQHandler
AdcIrq ==
    /\ conv # "none"
    /\ conv' = "none"
    /\ timerWaitUs_irq
    /\ \E s \in Samples : Store(s)
    /\ UNCHANGED <<bleData, nextState, power, buzzer, rows, signals, events,
                   stack>>

\* LETIMER0_IRQHandler, UF.  A conversion takes microseconds and the period is
\* three seconds: the timer does not underflow while one is running.
LetimerUnderflow ==
    /\ conv = "none"
    /\ signals' = signals \cup {"UF"}
    /\ UNCHANGED <<bleData, sampling, rows, events, stack>>

\* LETIMER0_IRQHandler, COMP1: one interrupt per wait.
LetimerComp1 ==
    /\ comp1Enabled
    /\ comp1Enabled' = FALSE
    /\ signals' = signals \cup {"COMP1"}
    /\ UNCHANGED <<bleData, nextState, channel, samples, power, buzzer, conv,
                   rows, events, stack>>

-----------------------------------------------------------------------------
(* The stack and the client at the other end of the link                   *)

app == <<bleData, sampling, rows, signals>>

ClientConnects ==
    /\ advertising
    /\ ~link
    /\ link' = TRUE
    /\ advertising' = FALSE
    /\ Post(Plain("connection_opened"))
    /\ UNCHANGED <<app, cccd, outstanding, barred>>

LinkDrops ==
    /\ link
    /\ link' = FALSE
    /\ cccd' = {}
    /\ outstanding' = NoIndication
    /\ barred' = FALSE
    /\ Post(Plain("connection_closed"))
    /\ UNCHANGED <<app, advertising>>

ClientConfigures(c) ==
    /\ link
    /\ ~barred
    /\ cccd' = IF c \in cccd THEN cccd \ {c} ELSE cccd \cup {c}
    /\ Post(ClientConfig(c, c \notin cccd))
    /\ UNCHANGED <<app, advertising, link, outstanding, barred>>

ClientConfirms ==
    /\ outstanding # NoIndication
    /\ outstanding' = NoIndication
    /\ Post(Confirmation(outstanding.char))
    /\ UNCHANGED <<app, advertising, link, cccd, barred>>

\* No confirmation for 30 s: no more GATT transactions on this connection.
IndicationTimesOut ==
    /\ outstanding # NoIndication
    /\ outstanding' = NoIndication
    /\ barred' = TRUE
    /\ Post(Plain("indication_timeout"))
    /\ UNCHANGED <<app, advertising, link, cccd>>

Environment ==
    \/ ClientConnects
    \/ LinkDrops
    \/ \E c \in Chars : ClientConfigures(c)
    \/ ClientConfirms
    \/ IndicationTimesOut

-----------------------------------------------------------------------------
Next == \/ HandleEvent
        \/ HandleSignal
        \/ AdcIrq
        \/ LetimerUnderflow
        \/ LetimerComp1
        \/ Environment

Spec == Init /\ [][Next]_vars

\* The superloop keeps delivering what is pending, the timer runs free, a
\* started conversion completes.  Nothing is asked of the client or the link.
Fairness ==
    /\ WF_vars(HandleEvent)
    /\ WF_vars(HandleSignal)
    /\ WF_vars(AdcIrq)
    /\ WF_vars(LetimerUnderflow)

FairSpec == Spec /\ Fairness

-----------------------------------------------------------------------------
(* Properties                                                              *)

BleTypes ==
    /\ connected \in BOOLEAN
    /\ light_indication \in BOOLEAN
    /\ smoke_indication \in BOOLEAN
    /\ indication_in_flight \in BOOLEAN

SamplingTypes ==
    /\ nextState \in States
    /\ channel \in 0..1
    /\ sample_light \in Samples \cup {0}
    /\ sample_smoke \in Samples \cup {0}
    /\ lightPower \in BOOLEAN
    /\ smokePower \in BOOLEAN
    /\ buzzer \in BOOLEAN
    /\ conv \in Chars \cup {"none"}
    /\ comp1Enabled \in BOOLEAN

\* What a conversion can show.
Measurements == {Millivolts(s) : s \in Samples \cup {0}}

RowTypes ==
    /\ rowLight \in Measurements \cup {Blank}
    /\ rowSmoke \in Measurements \cup {Blank}
    /\ rowConnection \in {"", "Advertising", "Connected"}
    /\ rowTempvalue \in {"", "Buzzer is On", "Buzzer is Off"}
    /\ rowAction \in {"", "Light is On", "Light is Off"}

QueueTypes ==
    /\ signals \subseteq Signals
    /\ events \in Seq(Events)
    /\ Len(events) <= MaxQueued

StackTypes ==
    /\ advertising \in BOOLEAN
    /\ link \in BOOLEAN
    /\ cccd \subseteq Chars
    /\ outstanding \in Indications
    /\ barred \in BOOLEAN

TypeOK == BleTypes /\ SamplingTypes /\ RowTypes /\ QueueTypes /\ StackTypes

\* The events that decide light_indication, and what they make it.
DecidesSubscription(e) ==
    \/ e.id \in {"connection_closed", "indication_timeout"}
    \/ e.id = "client_config" /\ e.char = "light"
Subscribes(e) == e.id = "client_config" /\ e.on

ClientSubscribed == link /\ ~barred /\ "light" \in cccd

\* Once the events already queued have been handled, light_indication is TRUE
\* exactly when the client at the other end of the present connection has
\* indications of the light value enabled and GATT is usable: no order of
\* subscribing, losing the link, reconnecting and timing out leaves the
\* firmware measuring for nobody, or deaf to a subscriber.
SubscriptionFollowsClient ==
    LET deciding == {i \in 1..Len(events) : DecidesSubscription(events[i])}
    IN  /\ deciding = {} => light_indication = ClientSubscribed
        /\ \A i \in deciding : (\A j \in deciding : j <= i)
               => Subscribes(events[i]) = ClientSubscribed

\* The same for the connection: connected is TRUE, and the advertiser stopped,
\* exactly when there is a link, up to one event that is still queued; two
\* connections never overlap in the queue, so the handle an indication is sent
\* on is that of the present connection.
ConnectedFollowsLink ==
    LET about == {i \in 1..Len(events) :
                     events[i].id \in {"connection_opened", "connection_closed"}}
    IN  /\ about = {} => connected = link
        /\ \A i, j \in about : i < j => /\ events[i].id = "connection_opened"
                                        /\ events[j].id = "connection_closed"
        /\ advertising => ~link /\ events = <<>>

\* Until system_boot is handled the display shows what it did before a reset.
Booting == \E i \in 1..Len(events) : events[i].id = "system_boot"

\* A closed connection leaves no subscription, no indication in flight and
\* nothing of what it indicated on the display to the next one, also when
\* signals are handled between the loss of the link and its event.  (The
\* measurements themselves stay on rows 10 and 11 until the next ones.)
IndicationsEndWithConnection ==
    ~connected => /\ ~light_indication
                  /\ ~indication_in_flight
                  /\ ~Booting => rowTempvalue = "" /\ rowAction = ""

\* The buzzer sounds from the moment darkness is measured until the smoke
\* sensor's conversion starts, which configures the buzzer's pin anew, and at
\* no other time: in four of the six states it is silent however dark the
\* reading on the display is.
BuzzerOnlyUntilSmokeConversion ==
    buzzer <=> /\ rowLight # Blank
               /\ rowLight < LightThreshold
               /\ nextState \in {"smoke_Idle", "smoke_StartInit"}

LightStates == {"Idle", "StartInit", "ADCRead"}

\* The two sensors take turns, each is converted while it has power and is
\* reported from a conversion of the same power-up (SensorCycle): in whatever
\* state a disconnection froze the machine, the channel that ADC0_IRQHandler
\* toggles stays in step with the state light_state_machine is in.
Cycle == INSTANCE SensorCycle WITH
    turn       <- IF nextState \in LightStates THEN "light" ELSE "smoke",
    powered    <- {c \in Chars : (c = "light" /\ lightPower)
                              \/ (c = "smoke" /\ smokePower)},
    converting <- {conv} \ {"none"},
    fresh      <- IF nextState \in {"ADCRead", "smoke_ADCRead"} /\ conv = "none"
                  THEN {IF channel = 1 THEN "light" ELSE "smoke"}
                  ELSE {}

ImplementsCycle == Cycle!CycleSpec

\* A sensor that was switched on is read and switched off, unless the client
\* goes: then the machine stops where it is and the sensor keeps its power.
SensorsSwitchedOff ==
    /\ lightPower ~> (~lightPower \/ ~Subscribed)
    /\ smokePower ~> (~smokePower \/ ~Subscribed)

\* A client that stays subscribed has both sensors read again and again.
BothSensorsRead ==
    \/ []<>~Subscribed
    \/ []<>(nextState = "ADCRead") /\ []<>(nextState = "smoke_ADCRead")

\* A node without a link becomes discoverable (again).
Readvertises == ~link ~> advertising

\* ble.h: indication_in_flight is "true when an indication is in-flight".
\* An indication is in flight until its confirmation, or the timeout, has been
\* handled.
InFlightMeansOutstanding ==
    indication_in_flight =>
        \/ outstanding # NoIndication
        \/ \E i \in 1..Len(events) :
               events[i].id \in {"confirmation", "indication_timeout",
                                 "connection_closed"}

=============================================================================

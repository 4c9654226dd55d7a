------------------------- MODULE LightServerProofs -------------------------
(***************************************************************************)
(* The sensor node keeps its types and implements SensorCycle: for every   *)
(* set of readings, all thresholds and queues of any length.  What it      *)
(* knows of the connection is the subject of LightServerConnectionProofs.  *)
(***************************************************************************)
EXTENDS LightServer, SequenceTheorems, TLAPS

-----------------------------------------------------------------------------
(* The queue of events                                                     *)

\* Posting puts one event behind the others.
LEMMA PostFacts ==
    ASSUME events \in Seq(Events), NEW e \in Events, Post(e)
    PROVE  /\ events' \in Seq(Events)
           /\ Len(events') = Len(events) + 1
           /\ Len(events') <= MaxQueued
           /\ \A i \in 1..Len(events) : events'[i] = events[i]
           /\ events'[Len(events')] = e
<1>1. events' = Append(events, e) /\ Len(events) < MaxQueued
  BY DEF Post
<1> QED
  BY <1>1, MaxQueuedAssumption

\* Taking removes the first event and moves the others up.
LEMMA TakeFacts ==
    ASSUME events \in Seq(Events), NEW id, Take(id)
    PROVE  /\ Len(events) \in Nat \ {0}
           /\ Head(events) = events[1]
           /\ events[1] \in Events
           /\ events[1].id = id
           /\ events' \in Seq(Events)
           /\ Len(events') = Len(events) - 1
           /\ \A i \in 1..Len(events') : events'[i] = events[i + 1]
<1>1. events # <<>> /\ Head(events).id = id /\ events' = Tail(events)
  BY DEF Take
<1> QED
  BY <1>1, HeadTailProperties

\* Taking an event leaves a queue of events within its bound.
LEMMA TakeKeepsBound ==
    ASSUME TypeOK, NEW id, Take(id)
    PROVE  events' \in Seq(Events) /\ Len(events') <= MaxQueued
<1>1. events \in Seq(Events) /\ Len(events) <= MaxQueued
  BY DEF TypeOK, QueueTypes
<1> QED
  BY <1>1, TakeFacts, MaxQueuedAssumption

\* What the environment posts are events.
LEMMA PostedEvents ==
    /\ \A id \in EventIds : Plain(id) \in Events
    /\ \A c \in Chars, on \in BOOLEAN : ClientConfig(c, on) \in Events
    /\ \A c \in Chars : Confirmation(c) \in Events
BY DEF Plain, ClientConfig, Confirmation, Events, EventIds, Chars

-----------------------------------------------------------------------------
(* Types                                                                   *)

\* handle_ble_event keeps the types, whichever event it handles.
LEMMA EventTypes == TypeOK /\ HandleEvent => TypeOK'
<1> SUFFICES ASSUME TypeOK, HandleEvent PROVE TypeOK'
  OBVIOUS
<1> USE DEF TypeOK, HandleEvent, HandleBoot, HandleConnectionOpened,
            HandleConnectionClosed, HandleClientConfig, HandleConfirmation,
            HandleIndicationTimeout
<1>1. BleTypes'
  <2>1. HandleClientConfig => Head(events).on \in BOOLEAN
    BY TakeFacts DEF QueueTypes, Events
  <2> QED
    BY <2>1 DEF BleTypes, ClearBleData
<1>2. SamplingTypes'
  BY DEF SamplingTypes, sampling, samples, power
<1>3. RowTypes'
  BY DEF RowTypes, rows, measured
<1>4. QueueTypes'
  <2>1. signals' = signals
    OBVIOUS
  <2>2. PICK id : Take(id)
    OBVIOUS
  <2>3. events' \in Seq(Events) /\ Len(events') <= MaxQueued
    BY <2>2, TakeKeepsBound
  <2> QED
    BY <2>1, <2>3 DEF QueueTypes
<1>5. StackTypes'
  BY DEF StackTypes, stack, advertiser_start
<1> QED
  BY <1>1, <1>2, <1>3, <1>4, <1>5

\* The values reported are 0 and 1.
LEMMA ReportedValues == LightValue \in 0..1 /\ SmokeValue \in 0..1
BY DEF LightValue, SmokeValue

\* light_state_machine keeps the types, in every state.
LEMMA SignalTypes == TypeOK /\ HandleSignal => TypeOK'
<1> SUFFICES ASSUME TypeOK, HandleSignal PROVE TypeOK'
  OBVIOUS
<1> USE DEF TypeOK, HandleSignal, SignalIgnored, PowerLight, StartLight, ReadLight,
            PowerSmoke, StartSmoke, ReadSmoke, Advance, TakeSignals
<1>1. BleTypes'
  BY DEF BleTypes, bleData, ble_ambient, ble_smoke, Sent, NotSent
<1>2. SamplingTypes'
  BY DEF SamplingTypes, States, Chars, sampling, samples, power, timerWaitUs_irq,
         light_sensor_enable, light_sensor_disable, smoke_sensor_enable,
         smoke_sensor_disable, initADC, ADC_Reset, ble_ambient, ble_smoke, convert_light
<1>3. RowTypes'
  <2>1. \/ rowLight' = rowLight
        \/ rowLight' = Millivolts(sample_light)
    BY DEF rows, measured, ble_ambient, ble_smoke, convert_light
  <2>2. \/ rowSmoke' = rowSmoke
        \/ rowSmoke' = Millivolts(sample_smoke)
    BY DEF rows, measured, ble_ambient, ble_smoke, convert_smoke
  <2>3. /\ Millivolts(sample_light) \in Measurements
        /\ Millivolts(sample_smoke) \in Measurements
    BY DEF SamplingTypes, Measurements
  <2>4. /\ rowConnection' \in {"", "Advertising", "Connected"}
        /\ rowTempvalue' \in {"", "Buzzer is On", "Buzzer is Off"}
        /\ rowAction' \in {"", "Light is On", "Light is Off"}
    BY DEF RowTypes, rows, ble_ambient, ble_smoke
  <2> QED
    BY <2>1, <2>2, <2>3, <2>4 DEF RowTypes
<1>4. QueueTypes'
  BY DEF QueueTypes
<1>5. StackTypes'
  <2>1. outstanding' \in Indications
    <3>1. \A c \in Chars, v \in 0..1 : Sent(c, v) => outstanding' \in Indications
      BY DEF Sent, Indications
    <3>2. \/ outstanding' = outstanding
          \/ Sent("light", LightValue)
          \/ Sent("smoke", SmokeValue)
      BY DEF stack, ble_ambient, ble_smoke, NotSent
    <3> QED
      BY <3>1, <3>2, ReportedValues DEF StackTypes, Chars
  <2> QED
    BY <2>1 DEF StackTypes, stack
<1> QED
  BY <1>1, <1>2, <1>3, <1>4, <1>5

\* The interrupt handlers keep the types.
LEMMA InterruptTypes ==
    TypeOK /\ (AdcIrq \/ LetimerUnderflow \/ LetimerComp1) => TypeOK'
<1> SUFFICES ASSUME TypeOK, AdcIrq \/ LetimerUnderflow \/ LetimerComp1 PROVE TypeOK'
  OBVIOUS
<1> USE DEF TypeOK, AdcIrq, LetimerUnderflow, LetimerComp1
<1>1. BleTypes'
  BY DEF BleTypes, bleData
<1>2. SamplingTypes'
  <2>1. CASE AdcIrq
    BY <2>1 DEF SamplingTypes, Store, power, timerWaitUs_irq
  <2>2. CASE LetimerUnderflow
    BY <2>2 DEF SamplingTypes, sampling, samples, power
  <2>3. CASE LetimerComp1
    BY <2>3 DEF SamplingTypes, samples, power
  <2> QED
    BY <2>1, <2>2, <2>3
<1>3. RowTypes'
  BY DEF RowTypes, rows, measured
<1>4. QueueTypes'
  BY DEF QueueTypes, Signals
<1>5. StackTypes'
  BY DEF StackTypes, stack
<1> QED
  BY <1>1, <1>2, <1>3, <1>4, <1>5

\* The stack and the client keep the types.
LEMMA EnvironmentTypes == TypeOK /\ Environment => TypeOK'
<1> SUFFICES ASSUME TypeOK, Environment PROVE TypeOK'
  OBVIOUS
<1> USE DEF TypeOK, Environment, ClientConnects, LinkDrops, ClientConfigures,
            ClientConfirms, IndicationTimesOut
<1>1. BleTypes'
  BY DEF BleTypes, app, bleData
<1>2. SamplingTypes'
  BY DEF SamplingTypes, app, sampling, samples, power
<1>3. RowTypes'
  BY DEF RowTypes, app, rows, measured
<1>4. QueueTypes'
  <2>1. ClientConfirms => outstanding.char \in Chars
    BY DEF StackTypes, Indications
  <2>2. PICK e \in Events : Post(e)
    BY <2>1, PostedEvents DEF EventIds
  <2> QED
    BY <2>2, PostFacts DEF QueueTypes, app
<1>5. StackTypes'
  BY DEF StackTypes, app, Indications
<1> QED
  BY <1>1, <1>2, <1>3, <1>4, <1>5

\* The types of a program that starts, whatever the display still shows.
LEMMA TypeStarts == Starts /\ RowTypes => TypeOK
<1> SUFFICES ASSUME Starts, RowTypes PROVE TypeOK
  OBVIOUS
<1>1. BleTypes
  BY DEF Starts, BleTypes
<1>2. SamplingTypes
  <2>1. nextState \in States /\ conv \in Chars \cup {"none"}
    BY DEF Starts, States
  <2>2. channel = 0
    BY DEF Starts
  <2>3. /\ sample_light \in Samples \cup {0}
        /\ sample_smoke \in Samples \cup {0}
    BY DEF Starts
  <2>4. /\ lightPower \in BOOLEAN
        /\ smokePower \in BOOLEAN
        /\ buzzer \in BOOLEAN
        /\ comp1Enabled \in BOOLEAN
    BY DEF Starts
  <2> QED
    BY <2>1, <2>2, <2>3, <2>4 DEF SamplingTypes
<1>3. QueueTypes
  <2>1. Plain("system_boot") \in Events
    BY PostedEvents DEF EventIds
  <2>2. events = <<Plain("system_boot")>> /\ signals = {}
    BY DEF Starts
  <2> QED
    BY <2>1, <2>2, MaxQueuedAssumption DEF QueueTypes
<1>4. StackTypes
  BY DEF Starts, StackTypes, Indications
<1> QED
  BY <1>1, <1>2, <1>3, <1>4 DEF TypeOK

\* A blank display has its types.
LEMMA TypeInit == Init => TypeOK
BY TypeStarts DEF Init, RowTypes

\* Every step keeps the types.
LEMMA TypeStep == TypeOK /\ [Next]_vars => TypeOK'
<1>1. ASSUME TypeOK, UNCHANGED vars
      PROVE  TypeOK'
  <2> USE <1>1 DEF vars, TypeOK
  <2>1. BleTypes'
    BY DEF BleTypes, bleData
  <2>2. SamplingTypes'
    BY DEF SamplingTypes, sampling, samples, power
  <2>3. RowTypes'
    BY DEF RowTypes, rows, measured
  <2>4. QueueTypes'
    BY DEF QueueTypes
  <2>5. StackTypes'
    BY DEF StackTypes, stack
  <2> QED
    BY <2>1, <2>2, <2>3, <2>4, <2>5
<1> QED
  BY <1>1, EventTypes, SignalTypes, InterruptTypes, EnvironmentTypes DEF Next

\* The variables keep their types; the queue of the stack stays within bounds,
\* channel says one of the two sensors and each row shows one of its texts.
THEOREM TypeCorrect == Spec => []TypeOK
BY TypeInit, TypeStep, PTL DEF Spec

-----------------------------------------------------------------------------
(* Which variables a class of actions leaves alone                         *)

\* handle_ble_event leaves the sensors and the ADC alone.
LEMMA EventFrame ==
    HandleEvent => UNCHANGED <<sampling, signals, link, cccd, outstanding, barred>>
BY DEF HandleEvent, HandleBoot, HandleConnectionOpened, HandleConnectionClosed,
       HandleClientConfig, HandleConfirmation, HandleIndicationTimeout, stack

\* Signals and interrupts: an indication is only sent over the link.
LEMMA SignalFrame ==
    HandleSignal \/ AdcIrq \/ LetimerUnderflow \/ LetimerComp1
        => /\ UNCHANGED <<connected, light_indication, smoke_indication, rowConnection>>
           /\ UNCHANGED <<events, advertising, link, cccd, barred>>
           /\ UNCHANGED outstanding \/ link
BY DEF HandleSignal, SignalIgnored, PowerLight, StartLight, ReadLight, PowerSmoke,
       StartSmoke, ReadSmoke, Advance, ble_ambient, ble_smoke, Sent, NotSent, CanSend,
       AdcIrq, LetimerUnderflow, LetimerComp1, bleData, rows, stack

\* The stack and the client change nothing in the firmware.
LEMMA EnvironmentFrame == Environment => UNCHANGED app
BY DEF Environment, ClientConnects, LinkDrops, ClientConfigures, ClientConfirms,
       IndicationTimesOut

-----------------------------------------------------------------------------
(* The sensors                                                             *)

LightConverted == \/ conv = "light" /\ channel = 0
                  \/ conv = "none" /\ channel = 1
SmokeConverted == \/ conv = "smoke" /\ channel = 1
                  \/ conv = "none" /\ channel = 0

\* The inductive invariant on the sensors: in each state of the machine, where
\* channel and the conversion stand and which sensor has power.
SensorInv ==
    /\ nextState \in {"Idle", "StartInit"} => conv = "none" /\ channel = 0
    /\ nextState = "ADCRead" => LightConverted
    /\ nextState \in {"smoke_Idle", "smoke_StartInit"} => conv = "none" /\ channel = 1
    /\ nextState = "smoke_ADCRead" => SmokeConverted
    /\ lightPower <=> nextState \in {"StartInit", "ADCRead"}
    /\ smokePower <=> nextState \in {"smoke_StartInit", "smoke_ADCRead"}
    /\ conv # "none" => "UF" \notin signals

\* At boot no sensor has power.
LEMMA SensorInit == Starts => SensorInv
BY DEF Starts, SensorInv

\* The sensors stay as they are, also when a signal is used up.
LEMMA SensorsIdle ==
    ASSUME SensorInv, UNCHANGED sampling, signals' \subseteq signals \/ conv = "none"
    PROVE  SensorInv'
BY DEF SensorInv, LightConverted, SmokeConverted, sampling, power

\* Every step keeps power, conversion and channel in step with nextState.
LEMMA SensorStep == TypeOK /\ SensorInv /\ [Next]_vars => SensorInv'
<1> SUFFICES ASSUME TypeOK, SensorInv, [Next]_vars PROVE SensorInv'
  OBVIOUS
<1>1. CASE HandleEvent
  BY <1>1, EventFrame, SensorsIdle
<1>2. CASE SignalIgnored
  BY <1>2, SensorsIdle DEF SignalIgnored, TakeSignals
<1>3. CASE PowerLight
  BY <1>3 DEF PowerLight, Advance, TakeSignals, light_sensor_enable, SensorInv
<1>4. CASE StartLight
  BY <1>4 DEF StartLight, Advance, TakeSignals, initADC, power, SensorInv, LightConverted
<1>5. CASE ReadLight
  BY <1>5 DEF ReadLight, Advance, TakeSignals, light_sensor_disable, ADC_Reset,
              SensorInv, LightConverted
<1>6. CASE PowerSmoke
  BY <1>6 DEF PowerSmoke, Advance, TakeSignals, smoke_sensor_enable, SensorInv
<1>7. CASE StartSmoke
  BY <1>7 DEF StartSmoke, Advance, TakeSignals, initADC, power, SensorInv, SmokeConverted
<1>8. CASE ReadSmoke
  BY <1>8 DEF ReadSmoke, Advance, TakeSignals, smoke_sensor_disable, ADC_Reset,
              SensorInv, SmokeConverted
<1>9. CASE AdcIrq
  BY <1>9 DEF AdcIrq, Store, power, SensorInv, LightConverted, SmokeConverted,
              TypeOK, SamplingTypes, States
<1>10. CASE LetimerUnderflow
  BY <1>10, SensorsIdle DEF LetimerUnderflow
<1>11. CASE LetimerComp1
  BY <1>11 DEF LetimerComp1, power, SensorInv, LightConverted, SmokeConverted
<1>12. CASE Environment
  BY <1>12, EnvironmentFrame, SensorsIdle DEF app
<1>13. CASE UNCHANGED vars
  BY <1>13, SensorsIdle DEF vars
<1> QED
  BY <1>1, <1>2, <1>3, <1>4, <1>5, <1>6, <1>7, <1>8, <1>9, <1>10, <1>11, <1>12,
     <1>13 DEF Next, HandleSignal

-----------------------------------------------------------------------------
(* Every step is a step of SensorCycle                                     *)

\* The values of SensorCycle's variables in each state of the machine.
Turn    == IF nextState \in LightStates THEN "light" ELSE "smoke"
Powered == {c \in Chars : (c = "light" /\ lightPower) \/ (c = "smoke" /\ smokePower)}
Fresh   == IF nextState \in {"ADCRead", "smoke_ADCRead"} /\ conv = "none"
           THEN {IF channel = 1 THEN "light" ELSE "smoke"}
           ELSE {}

Mapping ==
    /\ nextState \in {"Idle", "StartInit", "ADCRead"} => Turn = "light"
    /\ nextState \in {"smoke_Idle", "smoke_StartInit", "smoke_ADCRead"} => Turn = "smoke"
    /\ nextState \in {"Idle", "smoke_Idle"} => Powered = {}
    /\ nextState \in {"StartInit", "ADCRead"} => Powered = {"light"}
    /\ nextState \in {"smoke_StartInit", "smoke_ADCRead"} => Powered = {"smoke"}
    /\ nextState \notin {"ADCRead", "smoke_ADCRead"} => Fresh = {}
    /\ nextState = "ADCRead" /\ conv = "none" => Fresh = {"light"}
    /\ nextState = "smoke_ADCRead" /\ conv = "none" => Fresh = {"smoke"}
    /\ conv # "none" => Fresh = {}

\* Under the invariant the mapped variables are what the state says.
LEMMA MappedSensors == SensorInv => Mapping
BY DEF Mapping, SensorInv, LightConverted, SmokeConverted, Turn, Powered, Fresh,
       LightStates, Chars

\* The same after a step.
LEMMA MappedSensorsNext == SensorInv' => Mapping'
BY MappedSensors, PTL

\* A step that leaves the machine, the sensors and the conversion alone is a
\* stutter of SensorCycle.
LEMMA CycleStutters ==
    ASSUME UNCHANGED <<nextState, power, conv, channel>>
    PROVE  UNCHANGED Cycle!cycleVars
BY DEF Cycle!cycleVars, power

\* Every step is a step of SensorCycle or leaves its variables alone.
LEMMA CycleStep ==
    TypeOK /\ SensorInv /\ SensorInv' /\ [Next]_vars => [Cycle!CycleNext]_Cycle!cycleVars
<1> SUFFICES ASSUME TypeOK, SensorInv, SensorInv', [Next]_vars
             PROVE  Cycle!CycleNext \/ UNCHANGED Cycle!cycleVars
  OBVIOUS
<1>0. Mapping /\ Mapping'
  BY MappedSensors, MappedSensorsNext
<1>1. CASE HandleEvent
  BY <1>1, EventFrame, CycleStutters DEF sampling
<1>2. CASE SignalIgnored
  BY <1>2, CycleStutters DEF SignalIgnored, sampling
<1>3. CASE PowerLight
  <2>1. Cycle!PowerOn
    BY <1>0, <1>3
    DEF Mapping, Turn, Powered, Fresh, PowerLight, Advance, SensorInv, Cycle!PowerOn
  <2> QED
    BY <2>1 DEF Cycle!CycleNext
<1>4. CASE StartLight
  <2>1. Cycle!StartConversion
    BY <1>0, <1>4
    DEF Mapping, Turn, Powered, Fresh, StartLight, Advance, initADC, power, SensorInv,
        Cycle!StartConversion
  <2> QED
    BY <2>1 DEF Cycle!CycleNext
<1>5. CASE ReadLight
  <2>1. Cycle!Report
    BY <1>0, <1>5
    DEF Mapping, Turn, Powered, Fresh, ReadLight, Advance, TakeSignals, ADC_Reset,
        SensorInv, LightConverted, Cycle!Report, Cycle!Other
  <2> QED
    BY <2>1 DEF Cycle!CycleNext
<1>6. CASE PowerSmoke
  <2>1. Cycle!PowerOn
    BY <1>0, <1>6
    DEF Mapping, Turn, Powered, Fresh, PowerSmoke, Advance, SensorInv, Cycle!PowerOn
  <2> QED
    BY <2>1 DEF Cycle!CycleNext
<1>7. CASE StartSmoke
  <2>1. Cycle!StartConversion
    BY <1>0, <1>7
    DEF Mapping, Turn, Powered, Fresh, StartSmoke, Advance, initADC, power, SensorInv,
        Cycle!StartConversion
  <2> QED
    BY <2>1 DEF Cycle!CycleNext
<1>8. CASE ReadSmoke
  <2>1. Cycle!Report
    BY <1>0, <1>8
    DEF Mapping, Turn, Powered, Fresh, ReadSmoke, Advance, TakeSignals, ADC_Reset,
        SensorInv, SmokeConverted, Cycle!Report, Cycle!Other
  <2> QED
    BY <2>1 DEF Cycle!CycleNext
<1>9. CASE AdcIrq
  <2>1. /\ nextState' = nextState
        /\ conv' = "none"
        /\ UNCHANGED power
    BY <1>9 DEF AdcIrq
  <2>2. CASE nextState = "ADCRead" /\ conv = "light"
    <3>1. /\ Turn = "light" /\ Turn' = "light"
          /\ Powered = {"light"} /\ Powered' = {"light"}
          /\ Fresh' = {"light"}
      BY <1>0, <2>1, <2>2 DEF Mapping
    <3>2. {conv} \ {"none"} = {"light"} /\ {conv'} \ {"none"} = {}
      BY <2>1, <2>2
    <3>3. Cycle!FinishConversion
      BY <3>1, <3>2 DEF Turn, Powered, Fresh, Cycle!FinishConversion
    <3> QED
      BY <3>3 DEF Cycle!CycleNext
  <2>3. CASE nextState = "smoke_ADCRead" /\ conv = "smoke"
    <3>1. /\ Turn = "smoke" /\ Turn' = "smoke"
          /\ Powered = {"smoke"} /\ Powered' = {"smoke"}
          /\ Fresh' = {"smoke"}
      BY <1>0, <2>1, <2>3 DEF Mapping
    <3>2. {conv} \ {"none"} = {"smoke"} /\ {conv'} \ {"none"} = {}
      BY <2>1, <2>3
    <3>3. Cycle!FinishConversion
      BY <3>1, <3>2 DEF Turn, Powered, Fresh, Cycle!FinishConversion
    <3> QED
      BY <3>3 DEF Cycle!CycleNext
  <2>4. \/ nextState = "ADCRead" /\ conv = "light"
        \/ nextState = "smoke_ADCRead" /\ conv = "smoke"
    BY <1>9 DEF AdcIrq, SensorInv, LightConverted, SmokeConverted, TypeOK,
                SamplingTypes, States
  <2> QED
    BY <2>2, <2>3, <2>4
<1>10. CASE LetimerUnderflow
  BY <1>10, CycleStutters DEF LetimerUnderflow, sampling
<1>11. CASE LetimerComp1
  BY <1>11, CycleStutters DEF LetimerComp1
<1>12. CASE Environment
  BY <1>12, EnvironmentFrame, CycleStutters DEF app, sampling
<1>13. CASE UNCHANGED vars
  BY <1>13, CycleStutters DEF vars, sampling
<1> QED
  BY <1>1, <1>2, <1>3, <1>4, <1>5, <1>6, <1>7, <1>8, <1>9, <1>10, <1>11, <1>12,
     <1>13 DEF Next, HandleSignal

\* The sensor node implements SensorCycle: the channel that ADC0_IRQHandler
\* toggles and the state that light_state_machine keeps across disconnections
\* never get out of step, so each reading is that of the sensor it is reported
\* for, converted while that sensor had power.
THEOREM ServerImplementsCycle == Spec => ImplementsCycle
<1>1. Init => Cycle!CycleInit
  BY DEF Init, Starts, Cycle!CycleInit, LightStates
<1>2. Init => SensorInv
  BY SensorInit DEF Init
<1>3. TypeOK /\ SensorInv /\ [Next]_vars => SensorInv'
  BY SensorStep
<1>4. TypeOK /\ SensorInv /\ SensorInv' /\ [Next]_vars
          => [Cycle!CycleNext]_Cycle!cycleVars
  BY CycleStep
<1> QED
  BY <1>1, <1>2, <1>3, <1>4, TypeCorrect, PTL DEF Spec, ImplementsCycle, Cycle!CycleSpec
=============================================================================

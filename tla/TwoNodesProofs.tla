--------------------------- MODULE TwoNodesProofs ---------------------------
(***************************************************************************)
(* The composition of the two nodes does to each what its own module       *)
(* allows, but for resets; so each keeps its promises through any number   *)
(* of resets.  What the two promise together follows from invariants that  *)
(* relate their states: for queues of any length on both sides and, where  *)
(* it says so, while no late scan report makes connections overlap.        *)
(***************************************************************************)
EXTENDS TwoNodes, LightServerConnectionProofs

-----------------------------------------------------------------------------
(* Each node in the composition                                            *)

\* The sensor node takes its own steps, or is reset.
LEMMA ServerStep == [SystemNext]_systemVars => [Next]_vars \/ ServerBoots
<1> SUFFICES ASSUME [SystemNext]_systemVars PROVE [Next]_vars \/ ServerBoots
  OBVIOUS
<1>1. CASE ServerRuns
  BY <1>1 DEF ServerRuns, ServerDoes, Next
<1>2. CASE ClientRuns
  BY <1>2 DEF ClientRuns
<1>3. CASE Radio
  <2>1. CASE Connect \/ ServerLosesLink \/ NoConfirmation
    BY <2>1 DEF Connect, ServerLosesLink, NoConfirmation, Next, Environment
  <2>2. CASE Subscription
    BY <2>2 DEF Subscription, Next, Environment
  <2>3. CASE ConfirmationArrives
    BY <2>3 DEF ConfirmationArrives, Next, Environment
  <2>4. CASE ServerSeen \/ ClientLosesLink \/ ServiceFound \/ NoAnswer \/ IndicationArrives
    BY <2>4 DEF ServerSeen, ClientLosesLink, ServiceFound, NoAnswer, IndicationArrives
  <2> QED
    BY <1>3, <2>1, <2>2, <2>3, <2>4 DEF Radio
<1>4. CASE Reset
  BY <1>4 DEF Reset
<1>5. CASE UNCHANGED systemVars
  BY <1>5 DEF systemVars
<1> QED
  BY <1>1, <1>2, <1>3, <1>4, <1>5 DEF SystemNext

\* What is unchanged for the composition is so for the client's module.
LEMMA ClientUnchanged == UNCHANGED client => UNCHANGED Client!vars
BY DEF client, Client!vars, Client!app, Client!bleData, Client!rows, Client!peer

\* The actuator node takes its own steps, or is reset.
LEMMA ClientStep == [SystemNext]_systemVars => [Client!Next]_(Client!vars) \/ ClientBoots
<1> SUFFICES ASSUME [SystemNext]_systemVars
             PROVE  Client!Next \/ UNCHANGED Client!vars \/ ClientBoots
  OBVIOUS
<1>1. CASE ServerRuns
  BY <1>1, ClientUnchanged DEF ServerRuns, ServerDoes
<1>2. CASE ClientRuns
  BY <1>2 DEF ClientRuns, Client!Next
<1>3. CASE Radio
  <2>1. CASE ServerLosesLink \/ ConfirmationArrives \/ NoConfirmation
    BY <2>1, ClientUnchanged DEF ServerLosesLink, ConfirmationArrives, NoConfirmation
  <2>2. CASE ServerSeen \/ Connect \/ ClientLosesLink \/ ServiceFound \/ Subscription
             \/ NoAnswer \/ IndicationArrives
    BY <2>2
    DEF ServerSeen, Connect, ClientLosesLink, ServiceFound, Subscription, NoAnswer,
        IndicationArrives, Client!Next, Client!Environment
  <2> QED
    BY <1>3, <2>1, <2>2 DEF Radio
<1>4. CASE Reset
  BY <1>4, ClientUnchanged DEF Reset
<1>5. CASE UNCHANGED systemVars
  BY <1>5, ClientUnchanged DEF systemVars
<1> QED
  BY <1>1, <1>2, <1>3, <1>4, <1>5 DEF SystemNext

\* Each node in the composition behaves as its own module says a node may, but
\* for the steps that reset it: neither module leaves out something that the
\* other node, at the far end of a link that each side loses on its own, can do.
THEOREM NodesAsSpecified ==
    SystemSpec => /\ Init /\ [][Next \/ ServerBoots]_vars
                  /\ Client!Init /\ [][Client!Next \/ ClientBoots]_(Client!vars)
<1>1. SystemInit => Init /\ Client!Init
  BY DEF SystemInit
<1> QED
  BY <1>1, ServerStep, ClientStep, PTL DEF SystemSpec

-----------------------------------------------------------------------------
(* The sensor node and resets                                              *)

\* A reset puts the sensor node where it starts, with its display as it was.
LEMMA ServerBootsStarts == ServerBoots => Starts' /\ UNCHANGED rows
BY DEF ServerBoots, Starts

\* What the sensor node promises, with what makes it inductive.
ServerInv ==
    /\ TypeOK
    /\ QueueInv
    /\ SubscriptionFollowsClient
    /\ IndicationsEndWithConnection
    /\ BuzzerInv

\* It holds where the node starts, whatever its display shows.
LEMMA ServerInit == Starts /\ RowTypes => ServerInv
BY TypeStarts, QueueInit, SubscriptionInit, NothingInit, BuzzerInit DEF ServerInv

\* It holds where a reset puts the node.
LEMMA ServerInitNext == Starts' /\ RowTypes' => ServerInv'
BY ServerInit, PTL

\* Every step of the composition keeps it.
LEMMA ServerInvStep == ServerInv /\ [SystemNext]_systemVars => ServerInv'
<1>1. ServerInv /\ ServerBoots => ServerInv'
  <2>1. ServerInv /\ UNCHANGED rows => RowTypes'
    BY DEF ServerInv, TypeOK, RowTypes, rows, measured
  <2> QED
    BY <2>1, ServerBootsStarts, ServerInitNext
<1>2. ServerInv /\ [Next]_vars => ServerInv'
  BY TypeStep, QueueStep, SubscriptionStep, NothingStep, BuzzerStep DEF ServerInv
<1> QED
  BY <1>1, <1>2, ServerStep

\* The sensor node keeps its types, follows its link and its subscriber, ends
\* indications with their connection and silences its buzzer, although it is reset
\* between any two steps of its own, of its interrupts or of the radio, any number
\* of times, with whatever the client still believes and the display still shows.
THEOREM ResetsSurvived == SystemSpec => []ServerSurvivesResets
<1>1. SystemInit => ServerInv
  <2>1. Init => Starts /\ RowTypes
    BY DEF Init, RowTypes
  <2> QED
    BY <2>1, ServerInit DEF SystemInit
<1>2. ServerInv => ServerSurvivesResets
  BY QueueTellsConnection DEF ServerInv, BuzzerInv, ServerSurvivesResets
<1> QED
  BY <1>1, <1>2, ServerInvStep, PTL DEF SystemSpec

-----------------------------------------------------------------------------
(* The actuator node and resets                                            *)

\* What is proved of the actuator node by itself, with its names in TwoNodes.
Node == INSTANCE DiscoveryClientProofs WITH
    CallsMayFail <- FALSE, ServerAnswers <- FALSE, MaxQueued <- ClientQueued,
    connected <- cConnected, gatt_procedure_ongoing <- cOngoing,
    service_handle <- cServiceHandle, chars_handle <- cCharsHandle,
    nextState <- cState, strip <- cStrip, rowConnection <- cRowConnection,
    rowTempvalue <- cRowTempvalue, rowAction <- cRowAction,
    scanning <- cScanning, opening <- cOpening, link <- cLink,
    procedure <- cProcedure, events <- cEvents, cccd <- cCccd,
    unconfirmed <- cUnconfirmed

\* Client and Node are the same module with the same names: so are its handlers ...
LEMMA SameHandlers == Client!HandleEvent => Node!HandleEvent
<1> USE DEF Client!Take, Node!Take, Client!peer, Node!peer, Client!rows, Node!rows,
            Client!bleData, Node!bleData, Client!app, Node!app,
            Client!scanner_start, Node!scanner_start,
            Client!scanner_stop, Node!scanner_stop
<1>1. Client!HandleBoot => Node!HandleBoot
  BY DEF Client!HandleBoot, Node!HandleBoot
<1>2. Client!HandleScanReport => Node!HandleScanReport
  BY DEF Client!HandleScanReport, Node!HandleScanReport
<1>3. \A on, ongoing : Client!Machine(on, ongoing) => Node!Machine(on, ongoing)
  BY DEF Client!Machine, Node!Machine, Client!Enabled, Node!Enabled,
         Client!Transitions, Node!Transitions, Client!Transition, Node!Transition,
         Client!Call, Node!Call, Client!CanStart, Node!CanStart,
         Client!NoProcedure, Node!NoProcedure
<1>4. Client!HandleConnectionOpened => Node!HandleConnectionOpened
  BY <1>3 DEF Client!HandleConnectionOpened, Node!HandleConnectionOpened
<1>5. Client!HandleConnectionClosed => Node!HandleConnectionClosed
  BY DEF Client!HandleConnectionClosed, Node!HandleConnectionClosed,
         Client!MachineStartsOver, Node!MachineStartsOver,
         Client!ClearReadings, Node!ClearReadings
<1>6. Client!HandleGattService => Node!HandleGattService
  BY DEF Client!HandleGattService, Node!HandleGattService
<1>7. Client!HandleGattCharacteristic => Node!HandleGattCharacteristic
  BY DEF Client!HandleGattCharacteristic, Node!HandleGattCharacteristic
<1>8. Client!HandleProcedureCompleted => Node!HandleProcedureCompleted
  BY <1>3 DEF Client!HandleProcedureCompleted, Node!HandleProcedureCompleted,
         Client!Enabled, Node!Enabled, Client!Transitions, Node!Transitions,
         Client!Transition, Node!Transition
<1>9. Client!HandleCharacteristicValue => Node!HandleCharacteristicValue
  BY DEF Client!HandleCharacteristicValue, Node!HandleCharacteristicValue,
         Client!Confirm, Node!Confirm, Client!BuzzerText, Node!BuzzerText,
         Client!LightText, Node!LightText, Client!wsb_enable, Node!wsb_enable,
         Client!wsb_disable, Node!wsb_disable
<1> QED
  BY <1>1, <1>2, <1>4, <1>5, <1>6, <1>7, <1>8, <1>9
  DEF Client!HandleEvent, Node!HandleEvent

\* ... its environment ...
LEMMA SameEnvironment ==
    /\ Client!AdvertiserSeen  => Node!AdvertiserSeen
    /\ Client!ConnectionOpens => Node!ConnectionOpens
    /\ Client!ConnectionLost  => Node!ConnectionLost
    /\ Client!ProcedureFinds  => Node!ProcedureFinds
    /\ Client!ProcedureEnds   => Node!ProcedureEnds
    /\ Client!ServerIndicates => Node!ServerIndicates
<1> USE DEF Client!Post, Node!Post, Client!peer, Node!peer, Client!rows, Node!rows,
            Client!bleData, Node!bleData, Client!app, Node!app,
            Client!Plain, Node!Plain, Client!Found, Node!Found,
            Client!ScanReport, Node!ScanReport, Client!ValueEvent, Node!ValueEvent,
            Client!NoProcedure, Node!NoProcedure
<1>1. Client!AdvertiserSeen => Node!AdvertiserSeen
  BY DEF Client!AdvertiserSeen, Node!AdvertiserSeen
<1>2. Client!ConnectionOpens => Node!ConnectionOpens
  BY DEF Client!ConnectionOpens, Node!ConnectionOpens
<1>3. Client!ConnectionLost => Node!ConnectionLost
  BY DEF Client!ConnectionLost, Node!ConnectionLost
<1>4. Client!ProcedureFinds => Node!ProcedureFinds
  BY DEF Client!ProcedureFinds, Node!ProcedureFinds
<1>5. Client!ProcedureEnds => Node!ProcedureEnds
  BY DEF Client!ProcedureEnds, Node!ProcedureEnds
<1>6. Client!ServerIndicates => Node!ServerIndicates
  BY DEF Client!ServerIndicates, Node!ServerIndicates
<1> QED
  BY <1>1, <1>2, <1>3, <1>4, <1>5, <1>6

\* ... its variables and its first states.
LEMMA SameVariables == UNCHANGED Client!vars => UNCHANGED Node!vars
BY DEF Client!vars, Node!vars, Client!app, Node!app, Client!bleData, Node!bleData,
       Client!rows, Node!rows, Client!peer, Node!peer

LEMMA SameStarts == Client!Starts => Node!Starts
BY DEF Client!Starts, Node!Starts, Client!NoProcedure, Node!NoProcedure,
       Client!Plain, Node!Plain, Client!Chars, Node!Chars

\* A step of the composition is one of the actuator node, or resets it.
LEMMA NodeStep == [SystemNext]_systemVars => [Node!Next]_(Node!vars) \/ ClientBoots
<1>1. Client!Environment => Node!Environment
  BY SameEnvironment DEF Client!Environment, Node!Environment
<1>2. Client!Next => Node!Next
  BY <1>1, SameHandlers DEF Client!Next, Node!Next
<1> QED
  BY <1>2, ClientStep, SameVariables

\* A reset puts the actuator node where it starts, with its display as it was.
LEMMA ClientBootsStarts ==
    ClientBoots => Client!Starts' /\ UNCHANGED <<cRowConnection, cRowTempvalue, cRowAction>>
BY DEF ClientBoots, Client!Starts, Client!NoProcedure, Client!Plain, Client!Chars, Chars

\* What the actuator node promises, with what makes it inductive ...
ClientInv ==
    /\ Node!TypeOK
    /\ Node!ConnectionInv
    /\ Node!WayBack
    /\ Node!LightInv
    /\ Node!ReadingInv
    /\ Node!LinkOwns

\* Where the node starts: the row for the action is always blank.
ClientAtStart == Client!Starts /\ Node!RowTypes /\ cRowAction = ""

ClientKept == ClientInv /\ Node!ProcedureInv

\* They hold there.
LEMMA ClientInit == ClientAtStart => ClientKept
BY LateReportsAssumption, ClientQueuedAssumption, SameStarts,
   Node!TypeStarts, Node!ConnectionInit, Node!WayBackInit, Node!LightInit,
   Node!ReadingInit, Node!LinkOwnsInit, Node!ProcedureInit
DEF ClientInv, ClientAtStart, ClientKept

\* They hold where a reset puts the node.
LEMMA ClientBootsInv ==
    ClientInv /\ ClientBoots => ClientInv' /\ Node!ProcedureInv'
<1>1. ClientAtStart' => ClientKept'
  BY ClientInit, PTL
<1>2. ClientInv /\ UNCHANGED <<cRowConnection, cRowTempvalue, cRowAction>>
          => Node!RowTypes' /\ cRowAction' = ""
  BY DEF ClientInv, Node!TypeOK, Node!OutputTypes, Node!RowTypes, Node!LightInv,
         Node!LightOnly
<1> QED
  BY <1>1, <1>2, ClientBootsStarts DEF ClientAtStart, ClientKept

\* Every step of the composition keeps them.
LEMMA ClientInvStep == ClientInv /\ [SystemNext]_systemVars => ClientInv'
<1>1. ClientInv /\ [Node!Next]_(Node!vars) => ClientInv'
  BY LateReportsAssumption, ClientQueuedAssumption, Node!TypeStep, Node!ConnectionStep,
     Node!WayBackStep, Node!LightStep, Node!ReadingStep,
     Node!LinkOwnsStep
  DEF ClientInv
<1> QED
  BY <1>1, NodeStep, ClientBootsInv

LEMMA ClientProceduresStep ==
    ~LateReports /\ ClientInv /\ Node!ProcedureInv /\ [SystemNext]_systemVars
        => Node!ProcedureInv'
<1>1. ~LateReports /\ ClientInv /\ Node!ProcedureInv /\ [Node!Next]_(Node!vars)
          => Node!ProcedureInv'
  BY LateReportsAssumption, ClientQueuedAssumption, Node!ProcedureStep DEF ClientInv
<1> QED
  BY <1>1, NodeStep, ClientBootsInv

\* What is to be proved of the actuator node follows.
LEMMA ClientInvSuffices == ClientInv => ClientSurvivesResets
<1> SUFFICES ASSUME ClientInv PROVE ClientSurvivesResets
  OBVIOUS
<1>1. Client!TypeOK
  BY DEF ClientInv, Node!TypeOK, Client!TypeOK, Node!BleTypes, Client!BleTypes,
         Node!OutputTypes, Client!OutputTypes, Node!DiscoveryTypes, Client!DiscoveryTypes,
         Node!StackTypes, Client!StackTypes, Node!QueueTypes, Client!QueueTypes,
         Node!Events, Client!Events, Node!EventIds, Client!EventIds,
         Node!Handles, Client!Handles, Node!Chars, Client!Chars,
         Node!Procedures, Client!Procedures, Node!NoProcedure, Client!NoProcedure,
         Node!States, Client!States
<1>2. Client!MachineFollowsConnection
  BY DEF ClientInv, Node!ConnectionInv, Node!MachineFollowsConnection,
         Client!MachineFollowsConnection
<1>3. Client!NeverStranded
  BY LateReportsAssumption, ClientQueuedAssumption, Node!WayBackSuffices
  DEF ClientInv, Node!NeverStranded, Client!NeverStranded
<1>4. Client!LightOnly
  BY DEF ClientInv, Node!LightInv, Node!LightOnly, Client!LightOnly
<1>5. Client!NothingOutlivesConnection
  BY DEF ClientInv, Node!ReadingInv, Node!NothingOutlivesConnection,
         Client!NothingOutlivesConnection, Node!Booting, Client!Booting
<1> QED
  BY <1>1, <1>2, <1>3, <1>4, <1>5 DEF ClientSurvivesResets

\* The first states of the composition are those where both nodes start.
LEMMA ClientInitial == SystemInit => ClientInv /\ Node!ProcedureInv
<1> SUFFICES ASSUME SystemInit
             PROVE  ClientAtStart
  BY ClientInit DEF ClientKept
<1>1. cRowConnection = "" /\ cRowTempvalue = "" /\ cRowAction = ""
  BY DEF SystemInit, Client!Init
<1> QED
  BY <1>1 DEF SystemInit, Client!Init, Node!RowTypes, ClientAtStart

\* The actuator node keeps its types, its discovery stays in step with its
\* connection, it always has a way back to the server, smoke stays out and no
\* reading outlives its connection, although either node is reset between any two
\* steps, any number of times.
THEOREM ClientResetsSurvived == SystemSpec => []ClientSurvivesResets
BY ClientInitial, ClientInvStep, ClientInvSuffices, PTL DEF SystemSpec

-----------------------------------------------------------------------------
(* What the radio brings to the sensor node                                *)

\* A subscription that the actuator node asks for and the server does not have.
Subscribing(c) ==
    /\ c \in Chars \ cccd
    /\ cProcedure = [kind |-> "notify", char |-> c]
    /\ ClientConfigures(c)

\* The steps of the composition, as the sensor node sees them.
LEMMA ServerSteps ==
    [SystemNext]_systemVars =>
        \/ HandleEvent
        \/ HandleSignal
        \/ AdcIrq \/ LetimerUnderflow \/ LetimerComp1
        \/ ClientConnects
        \/ LinkDrops
        \/ \E c \in Chars : Subscribing(c)
        \/ ClientConfirms
        \/ IndicationTimesOut
        \/ ServerBoots
        \/ UNCHANGED vars
<1> SUFFICES ASSUME [SystemNext]_systemVars
             PROVE  \/ HandleEvent
                    \/ HandleSignal
                    \/ AdcIrq \/ LetimerUnderflow \/ LetimerComp1
                    \/ ClientConnects
                    \/ LinkDrops
                    \/ \E c \in Chars : Subscribing(c)
                    \/ ClientConfirms
                    \/ IndicationTimesOut
                    \/ ServerBoots
                    \/ UNCHANGED vars
  OBVIOUS
<1>1. CASE ServerRuns
  BY <1>1 DEF ServerRuns, ServerDoes
<1>2. CASE ClientRuns
  BY <1>2 DEF ClientRuns
<1>3. CASE Radio
  <2>1. CASE Connect \/ ServerLosesLink \/ NoConfirmation \/ ConfirmationArrives
    BY <2>1 DEF Connect, ServerLosesLink, NoConfirmation, ConfirmationArrives
  <2>2. CASE Subscription
    BY <2>2 DEF Subscription, Subscribing
  <2>3. CASE ServerSeen \/ ClientLosesLink \/ ServiceFound \/ NoAnswer \/ IndicationArrives
    BY <2>3 DEF ServerSeen, ClientLosesLink, ServiceFound, NoAnswer, IndicationArrives
  <2> QED
    BY <1>3, <2>1, <2>2, <2>3 DEF Radio
<1>4. CASE Reset
  BY <1>4 DEF Reset
<1>5. CASE UNCHANGED systemVars
  BY <1>5 DEF systemVars
<1> QED
  BY <1>1, <1>2, <1>3, <1>4, <1>5 DEF SystemNext

-----------------------------------------------------------------------------
(* Smoke                                                                   *)

\* What is queued about indications is about the light, and the client only ever
\* switches them on.
LightQueued ==
    \A i \in 1..Len(events) : /\ events[i].id = "confirmation" => events[i].char = "light"
                              /\ events[i].id = "client_config" => events[i].on

\* The sensor node has a subscriber to the light at most, and nothing of the smoke
\* sensor on its way or on its display.
Served ==
    /\ cccd \subseteq {"light"}
    /\ outstanding.char # "smoke"
    /\ rowAction = ""
    /\ LightQueued

\* Taking an event keeps the queue so.
LEMMA LightQueuedTaken ==
    ASSUME TypeOK, LightQueued, NEW id, Take(id)
    PROVE  LightQueued'
<1>1. /\ Len(events) \in Nat \ {0}
      /\ Len(events') = Len(events) - 1
      /\ \A i \in 1..Len(events') : events'[i] = events[i + 1]
  BY TakeFacts DEF TypeOK, QueueTypes
<1>2. \A i \in 1..Len(events') : i + 1 \in 1..Len(events)
  BY <1>1
<1> QED
  BY <1>1, <1>2 DEF LightQueued

\* So does posting one about the light.
LEMMA LightQueuedPosted ==
    ASSUME TypeOK, LightQueued, NEW e \in Events, Post(e),
           e.id = "confirmation" => e.char = "light",
           e.id = "client_config" => e.on
    PROVE  LightQueued'
<1>1. Len(events) \in Nat
  BY DEF TypeOK, QueueTypes
<1>2. /\ Len(events') = Len(events) + 1
      /\ \A i \in 1..Len(events) : events'[i] = events[i]
      /\ events'[Len(events')] = e
  BY PostFacts DEF TypeOK, QueueTypes
<1>3. \A i \in 1..Len(events') : i \in 1..Len(events) \/ i = Len(events')
  BY <1>1, <1>2
<1> QED
  BY <1>2, <1>3 DEF LightQueued

\* At boot nothing is queued but the boot.
LEMMA LightQueuedInit == Starts => LightQueued
<1> SUFFICES ASSUME Starts PROVE LightQueued
  OBVIOUS
<1>1. events = <<Plain("system_boot")>>
  BY DEF Starts
<1>2. Len(events) = 1 /\ events[1].id = "system_boot"
  BY <1>1 DEF Plain
<1> QED
  BY <1>2 DEF LightQueued

\* Where the sensor node starts, there is no subscriber.
ServerAtStart == Starts /\ rowAction = ""

LEMMA ServedInit == ServerAtStart => Served
<1> SUFFICES ASSUME ServerAtStart PROVE Served
  OBVIOUS
<1>1. cccd = {} /\ outstanding = NoIndication
  BY DEF ServerAtStart, Starts
<1>2. cccd \subseteq {"light"} /\ outstanding.char # "smoke"
  BY <1>1 DEF NoIndication
<1> QED
  BY <1>2, LightQueuedInit DEF ServerAtStart, Served

\* The same after a reset.
LEMMA ServedInitNext == ServerAtStart' => Served'
BY ServedInit, PTL

\* No step of the composition brings a subscriber to smoke: the actuator node's
\* procedures are about the light.
LEMMA ServedStep ==
    TypeOK /\ Served /\ Node!LightInv /\ [SystemNext]_systemVars => Served'
<1> SUFFICES ASSUME TypeOK, Served, Node!LightInv, [SystemNext]_systemVars
             PROVE  Served'
  OBVIOUS
<1>0. cccd \subseteq {"light"} /\ outstanding.char # "smoke" /\ rowAction = ""
      /\ LightQueued
  BY DEF Served
<1>1. CASE HandleEvent
  <2>1. LightQueued'
    BY <1>0, <1>1, LightQueuedTaken
    DEF HandleEvent, HandleBoot, HandleConnectionOpened, HandleConnectionClosed,
        HandleClientConfig, HandleConfirmation, HandleIndicationTimeout
  <2>2. rowAction' \in {rowAction, ""}
    BY <1>1
    DEF HandleEvent, HandleBoot, HandleConnectionOpened, HandleConnectionClosed,
        HandleClientConfig, HandleConfirmation, HandleIndicationTimeout, rows
  <2>3. UNCHANGED <<cccd, outstanding>>
    BY <1>1, EventFrame
  <2> QED
    BY <1>0, <2>1, <2>2, <2>3 DEF Served
<1>2. CASE HandleSignal
  <2>1. UNCHANGED <<events, cccd>>
    BY <1>2, SignalFrame
  <2>2. ~Sent("smoke", SmokeValue)
    BY <1>0 DEF Sent, CanSend
  <2>3. rowAction' = rowAction
    <3>1. ble_ambient => rowAction' = rowAction
      BY DEF ble_ambient
    <3>2. ble_smoke => rowAction' = rowAction
      BY <2>2 DEF ble_smoke
    <3> QED
      BY <1>2, <3>1, <3>2
      DEF HandleSignal, SignalIgnored, PowerLight, StartLight, ReadLight, PowerSmoke,
          StartSmoke, ReadSmoke, rows
  <2>4. outstanding' = outstanding \/ outstanding'.char = "light"
    <3>1. ble_ambient => outstanding' = outstanding \/ outstanding'.char = "light"
      <4>1. ble_ambient => Sent("light", LightValue) \/ NotSent
        BY DEF ble_ambient
      <4> QED
        BY <4>1 DEF Sent, NotSent
    <3>2. ble_smoke => outstanding' = outstanding
      BY <2>2 DEF ble_smoke, NotSent
    <3> QED
      BY <1>2, <3>1, <3>2
      DEF HandleSignal, SignalIgnored, PowerLight, StartLight, ReadLight, PowerSmoke,
          StartSmoke, ReadSmoke, stack
  <2> QED
    BY <1>0, <2>1, <2>3, <2>4 DEF Served, LightQueued
<1>3. ASSUME UNCHANGED <<events, cccd, outstanding, rowAction>> PROVE Served'
  BY <1>0, <1>3 DEF Served, LightQueued
<1>4. CASE AdcIrq \/ LetimerUnderflow \/ LetimerComp1
  BY <1>3, <1>4 DEF AdcIrq, LetimerUnderflow, LetimerComp1, rows, stack
<1>5. ASSUME NEW e \in Events, Post(e), Environment,
             e.id = "confirmation" => e.char = "light",
             e.id = "client_config" => e.on,
             outstanding' \in {outstanding, NoIndication}, cccd' \subseteq {"light"}
      PROVE  Served'
  <2>1. LightQueued'
    BY <1>0, <1>5, LightQueuedPosted
  <2>2. rowAction' = rowAction
    BY <1>5, EnvironmentFrame DEF app, rows
  <2>3. NoIndication.char = "none"
    BY DEF NoIndication
  <2> QED
    BY <1>0, <1>5, <2>1, <2>2, <2>3 DEF Served
<1>6. ASSUME NEW id \in {"connection_opened", "connection_closed", "indication_timeout"},
             Post(Plain(id)), Environment,
             outstanding' \in {outstanding, NoIndication}, cccd' \subseteq {"light"}
      PROVE  Served'
  <2>1. Plain(id) \in Events /\ Plain(id).id = id
    BY PostedEvents DEF Plain, EventIds
  <2> QED
    BY <1>5, <1>6, <2>1
<1>7. CASE ClientConnects \/ LinkDrops \/ IndicationTimesOut
  BY <1>0, <1>6, <1>7 DEF ClientConnects, LinkDrops, IndicationTimesOut, Environment
<1>8. ASSUME NEW c \in Chars, Subscribing(c)
      PROVE  Served'
  <2>1. c = "light"
    BY <1>8 DEF Subscribing, Node!LightInv, Chars
  <2>2. /\ Post(ClientConfig("light", TRUE)) /\ cccd' = cccd \cup {"light"}
        /\ outstanding' = outstanding /\ Environment
    BY <1>8, <2>1 DEF Subscribing, ClientConfigures, Environment
  <2>3. ClientConfig("light", TRUE) \in Events
    BY PostedEvents DEF Chars
  <2>4. /\ ClientConfig("light", TRUE).id = "client_config"
        /\ ClientConfig("light", TRUE).on
    BY DEF ClientConfig
  <2> QED
    BY <1>0, <1>5, <2>2, <2>3, <2>4
<1>9. CASE ClientConfirms
  <2>1. outstanding.char = "light"
    BY <1>0, <1>9 DEF ClientConfirms, TypeOK, StackTypes, Indications, Chars
  <2>2. /\ Post(Confirmation("light")) /\ cccd' = cccd
        /\ outstanding' = NoIndication /\ Environment
    BY <1>9, <2>1 DEF ClientConfirms, Environment
  <2>3. Confirmation("light") \in Events
    BY PostedEvents DEF Chars
  <2>4. /\ Confirmation("light").id = "confirmation"
        /\ Confirmation("light").char = "light"
    BY DEF Confirmation
  <2> QED
    BY <1>0, <1>5, <2>2, <2>3, <2>4
<1>10. CASE ServerBoots
  BY <1>0, <1>10, ServerBootsStarts, ServedInitNext DEF rows, ServerAtStart
<1>11. CASE UNCHANGED vars
  BY <1>3, <1>11 DEF vars, rows, stack
<1> QED
  BY <1>1, <1>2, <1>4, <1>7, <1>8, <1>9, <1>10, <1>11, ServerSteps

\* Both nodes' invariants are kept together, and with them that only the light has
\* a subscriber.
NodesInv == ServerInv /\ ClientInv /\ Served

LEMMA NodesInit == SystemInit => NodesInv
<1>1. Init => Starts /\ RowTypes /\ rowAction = ""
  BY DEF Init, RowTypes
<1> QED
  BY <1>1, ServerInit, ClientInitial, ServedInit
  DEF SystemInit, NodesInv, ServerAtStart

LEMMA NodesStep == NodesInv /\ [SystemNext]_systemVars => NodesInv'
BY ServerInvStep, ClientInvStep, ServedStep DEF NodesInv, ServerInv, ClientInv

\* The readings of the smoke sensor do not leave the sensor node, whatever they are
\* and whichever links and nodes fail, late scan reports included: the client's
\* discovery never gets to smoke (discovery_state_machine), so the sensor node has
\* no subscriber and ble_smoke sends none; row 10 alone shows them.
THEOREM SmokeKept == SystemSpec => []SmokeNeverLeaves
<1>1. NodesInv => SmokeNeverLeaves
  BY DEF NodesInv, ClientInv, Served, SmokeNeverLeaves, Node!LightInv, Node!LightOnly,
         Node!LightEvents
<1> QED
  BY <1>1, NodesInit, NodesStep, PTL DEF SystemSpec

-----------------------------------------------------------------------------
(* indication_in_flight                                                    *)

\* The confirmation of the indication in flight, or the end of its connection, is
\* queued.
Settling ==
    \E i \in 1..Len(events) : events[i].id \in {"confirmation", "connection_closed"}

\* The inductive form of InFlightRightUnlessBarred.
InFlight == indication_in_flight => outstanding # NoIndication \/ barred \/ Settling

\* What settles it is taken last.
LEMMA SettlingTaken ==
    ASSUME TypeOK, Settling,
           NEW id, Take(id), id \notin {"confirmation", "connection_closed"}
    PROVE  Settling'
<1>1. /\ Len(events) \in Nat \ {0}
      /\ events[1].id = id
      /\ Len(events') = Len(events) - 1
      /\ \A i \in 1..Len(events') : events'[i] = events[i + 1]
  BY TakeFacts DEF TypeOK, QueueTypes
<1>2. PICK i \in 1..Len(events) : events[i].id \in {"confirmation", "connection_closed"}
  BY DEF Settling
<1>3. i # 1
  BY <1>1, <1>2
<1>4. i - 1 \in 1..Len(events') /\ events'[i - 1] = events[i]
  BY <1>1, <1>3
<1> QED
  BY <1>2, <1>4 DEF Settling

\* What settles it stays when an event is posted, and may be what is posted.
LEMMA SettlingPosted ==
    ASSUME TypeOK, NEW e \in Events, Post(e),
           Settling \/ e.id \in {"confirmation", "connection_closed"}
    PROVE  Settling'
<1>1. Len(events) \in Nat
  BY DEF TypeOK, QueueTypes
<1>2. /\ Len(events') = Len(events) + 1
      /\ \A i \in 1..Len(events) : events'[i] = events[i]
      /\ events'[Len(events')] = e
  BY PostFacts DEF TypeOK, QueueTypes
<1>3. /\ \A i \in 1..Len(events) : i \in 1..Len(events')
      /\ Len(events') \in 1..Len(events')
  BY <1>1, <1>2
<1> QED
  BY <1>2, <1>3 DEF Settling

\* An indication is settled by its confirmation, which is about the light, or by
\* the end of its connection; with a timeout the connection is of no more use.
LEMMA InFlightStep ==
    TypeOK /\ Served /\ InFlight /\ [SystemNext]_systemVars => InFlight'
<1> SUFFICES ASSUME TypeOK, Served, InFlight, [SystemNext]_systemVars
             PROVE  InFlight'
  OBVIOUS
<1>1. ASSUME NEW id, Take(id), id \notin {"confirmation", "connection_closed"},
             indication_in_flight' \in {indication_in_flight, FALSE},
             UNCHANGED <<outstanding, barred>>
      PROVE  InFlight'
  BY <1>1, SettlingTaken DEF InFlight
<1>2. CASE HandleEvent
  <2>1. UNCHANGED <<outstanding, barred>>
    BY <1>2, EventFrame
  <2>2. CASE HandleBoot
    BY <1>1, <2>1, <2>2 DEF HandleBoot, ClearBleData
  <2>3. CASE HandleConnectionOpened
    BY <1>1, <2>1, <2>3 DEF HandleConnectionOpened
  <2>4. CASE HandleConnectionClosed
    BY <2>4 DEF HandleConnectionClosed, ClearBleData, InFlight
  <2>5. CASE HandleClientConfig
    BY <1>1, <2>1, <2>5 DEF HandleClientConfig
  <2>6. CASE HandleConfirmation
    <3>1. Len(events) \in Nat \ {0} /\ events[1].id = "confirmation"
          /\ Head(events) = events[1]
      BY <2>6, TakeFacts DEF HandleConfirmation, TypeOK, QueueTypes
    <3>2. Head(events).char = "light"
      <4>1. 1 \in 1..Len(events)
        BY <3>1
      <4> QED
        BY <3>1, <4>1 DEF Served, LightQueued
    <3>3. ~indication_in_flight'
      BY <2>6, <3>2 DEF HandleConfirmation
    <3> QED
      BY <3>3 DEF InFlight
  <2>7. CASE HandleIndicationTimeout
    BY <1>1, <2>1, <2>7 DEF HandleIndicationTimeout
  <2> QED
    BY <1>2, <2>2, <2>3, <2>4, <2>5, <2>6, <2>7 DEF HandleEvent
<1>3. ASSUME UNCHANGED <<indication_in_flight, outstanding, barred, events>>
      PROVE  InFlight'
  BY <1>3 DEF InFlight, Settling
<1>4. CASE HandleSignal
  <2>1. UNCHANGED <<barred, events>>
    BY <1>4, SignalFrame
  <2>2. \A c, v : Sent(c, v) => outstanding' = [char |-> c, value |-> v]
    BY DEF Sent
  <2>3. CASE Sent("light", LightValue) \/ Sent("smoke", SmokeValue)
    BY <2>2, <2>3 DEF InFlight, NoIndication
  <2>4. CASE UNCHANGED <<indication_in_flight, outstanding>>
    BY <1>3, <2>1, <2>4
  <2> QED
    BY <1>4, <2>3, <2>4
    DEF HandleSignal, SignalIgnored, PowerLight, StartLight, ReadLight, PowerSmoke,
        StartSmoke, ReadSmoke, ble_ambient, ble_smoke, NotSent, bleData, stack
<1>5. CASE AdcIrq \/ LetimerUnderflow \/ LetimerComp1
  BY <1>3, <1>5 DEF AdcIrq, LetimerUnderflow, LetimerComp1, bleData, stack
<1>6. ASSUME NEW e \in Events, Post(e), Environment,
             UNCHANGED <<outstanding, barred>>
                 \/ e.id \in {"confirmation", "connection_closed"}
      PROVE  InFlight'
  <2>1. indication_in_flight' = indication_in_flight
    BY <1>6, EnvironmentFrame DEF app, bleData
  <2> QED
    BY <1>6, <2>1, SettlingPosted DEF InFlight
<1>7. CASE ClientConnects
  BY <1>6, <1>7, PostedEvents DEF ClientConnects, Environment, EventIds
<1>8. CASE LinkDrops
  <2>1. /\ Plain("connection_closed") \in Events
        /\ Plain("connection_closed").id = "connection_closed"
    BY PostedEvents DEF Plain, EventIds
  <2> QED
    BY <1>6, <1>8, <2>1 DEF LinkDrops, Environment
<1>9. ASSUME NEW c \in Chars, Subscribing(c)
      PROVE  InFlight'
  BY <1>6, <1>9, PostedEvents DEF Subscribing, ClientConfigures, Environment
<1>10. CASE ClientConfirms
  <2>1. outstanding.char \in Chars
    BY <1>10 DEF ClientConfirms, TypeOK, StackTypes, Indications
  <2>2. /\ Confirmation(outstanding.char) \in Events
        /\ Confirmation(outstanding.char).id = "confirmation"
    BY <2>1, PostedEvents DEF Confirmation
  <2> QED
    BY <1>6, <1>10, <2>2 DEF ClientConfirms, Environment
<1>11. CASE IndicationTimesOut
  BY <1>11 DEF IndicationTimesOut, InFlight
<1>12. CASE ServerBoots
  BY <1>12 DEF ServerBoots, InFlight
<1>13. CASE UNCHANGED vars
  BY <1>3, <1>13 DEF vars, bleData, stack
<1> QED
  BY <1>2, <1>4, <1>5, <1>7, <1>8, <1>9, <1>10, <1>11, <1>12, <1>13, ServerSteps

\* What confirmations, timeouts, lost links and resets can do to
\* indication_in_flight: it stays set for good only where GATT is barred.
THEOREM InFlightRight == SystemSpec => []InFlightRightUnlessBarred
<1>1. SystemInit => InFlight
  BY DEF SystemInit, Init, Starts, InFlight
<1>2. NodesInv /\ InFlight /\ [SystemNext]_systemVars => InFlight'
  BY InFlightStep DEF NodesInv, ServerInv
<1>3. InFlight => InFlightRightUnlessBarred
  BY DEF InFlight, Settling, InFlightRightUnlessBarred
<1> QED
  BY <1>1, <1>2, <1>3, NodesInit, NodesStep, PTL DEF SystemSpec

-----------------------------------------------------------------------------
(* The link                                                                *)

\* A step that leaves both nodes with their link is one of these: a procedure that
\* ends with no answer does so on a link that a timeout has made useless.
LEMMA ConnectedSteps ==
    ASSUME [SystemNext]_systemVars, Connected'
    PROVE  \/ /\ Connected
              /\ \/ UNCHANGED <<client, cccd>> /\ (barred => barred')
                 \/ Node!HandleEvent /\ UNCHANGED vars
                 \/ Node!AdvertiserSeen /\ UNCHANGED vars
                 \/ Node!ProcedureFinds /\ UNCHANGED vars
                 \/ /\ Node!ProcedureEnds
                    /\ Subscribing(cProcedure.char)
                    /\ cProcedure.kind = "notify"
                    /\ cccd' = cccd \cup {cProcedure.char}
                    /\ cCccd' = cCccd \cup {cProcedure.char}
                    /\ barred' = barred
                 \/ barred /\ Node!ProcedureEnds /\ UNCHANGED <<vars, cCccd>>
                 \/ IndicationArrives /\ Node!ServerIndicates
           \/ ClientConnects /\ Node!ConnectionOpens
<1>1. CASE ServerRuns
  <2>1. UNCHANGED <<client, link, cccd, barred>>
    BY <1>1, EventFrame, SignalFrame DEF ServerRuns, ServerDoes
  <2> QED
    BY <2>1 DEF Connected, client
<1>2. CASE ClientRuns
  <2>1. Node!HandleEvent /\ UNCHANGED vars
    BY <1>2, SameHandlers DEF ClientRuns
  <2>2. cLink' = cLink
    BY <2>1, LateReportsAssumption, ClientQueuedAssumption, Node!LinkHandled
  <2> QED
    BY <2>1, <2>2 DEF Connected, vars, stack
<1>3. CASE Radio
  <2>1. CASE ServerSeen
    <3>1. Node!AdvertiserSeen /\ UNCHANGED vars
      BY <2>1, SameEnvironment DEF ServerSeen
    <3> QED
      BY <3>1 DEF Connected, vars, stack, Node!AdvertiserSeen
  <2>2. CASE Connect
    BY <2>2, SameEnvironment DEF Connect
  <2>3. CASE ServerLosesLink
    BY <2>3 DEF ServerLosesLink, LinkDrops, Connected
  <2>4. CASE ClientLosesLink
    BY <2>4 DEF ClientLosesLink, Client!ConnectionLost, Connected
  <2>5. CASE ServiceFound
    <3>1. Node!ProcedureFinds /\ UNCHANGED vars
      BY <2>5, SameEnvironment DEF ServiceFound
    <3> QED
      BY <3>1 DEF Connected, vars, stack, Node!ProcedureFinds
  <2>6. CASE Subscription
    <3>1. PICK c \in Chars \ cccd : /\ cProcedure = [kind |-> "notify", char |-> c]
                                    /\ ClientConfigures(c)
                                    /\ Client!ProcedureEnds
                                    /\ cCccd' = cCccd \cup {c}
      BY <2>6 DEF Subscription
    <3>2. Node!ProcedureEnds
      BY <3>1, SameEnvironment
    <3>3. /\ cccd' = cccd \cup {c} /\ UNCHANGED <<link, barred>>
          /\ cLink' = cLink
      BY <3>1, <3>2 DEF ClientConfigures, Node!ProcedureEnds
    <3>4. cProcedure.kind = "notify" /\ cProcedure.char = c
      BY <3>1
    <3> QED
      BY <3>1, <3>2, <3>3, <3>4 DEF Connected, Subscribing
  <2>7. CASE NoAnswer
    <3>1. Node!ProcedureEnds /\ UNCHANGED <<vars, cCccd>>
      BY <2>7, SameEnvironment DEF NoAnswer
    <3>2. UNCHANGED <<link, cLink>>
      BY <3>1 DEF vars, stack, Node!ProcedureEnds
    <3> QED
      BY <2>7, <3>1, <3>2 DEF NoAnswer, Answers, Connected
  <2>8. CASE IndicationArrives
    <3>1. Node!ServerIndicates /\ UNCHANGED vars
      BY <2>8, SameEnvironment DEF IndicationArrives
    <3> QED
      BY <2>8, <3>1 DEF Connected, vars, stack, Node!ServerIndicates
  <2>9. CASE ConfirmationArrives
    <3>1. UNCHANGED <<client, link, cccd, barred>>
      BY <2>9 DEF ConfirmationArrives, ClientConfirms, vars, stack
    <3> QED
      BY <3>1 DEF Connected, client
  <2>10. CASE NoConfirmation
    BY <2>10 DEF NoConfirmation, IndicationTimesOut, Connected, client
  <2> QED
    BY <1>3, <2>1, <2>2, <2>3, <2>4, <2>5, <2>6, <2>7, <2>8, <2>9, <2>10 DEF Radio
<1>4. CASE Reset
  BY <1>4 DEF Reset, ServerBoots, ClientBoots, Connected
<1>5. CASE UNCHANGED systemVars
  BY <1>5 DEF systemVars, vars, stack, client, Connected
<1> QED
  BY <1>1, <1>2, <1>3, <1>4, <1>5 DEF SystemNext

-----------------------------------------------------------------------------
(* A discovery that the server answers                                     *)

\* With both ends of a link the server knows what the actuator node is subscribed
\* to.
Agree == Connected => cCccd \subseteq cccd

\* On a connection that both nodes have and that can be used, the discovery is on
\* course: the server has answered it so far.
Progress == Connected /\ ~barred => Node!OnCourse

\* Subscriptions are made on both sides at once, and end with either end of the link.
LEMMA AgreeStep == ClientInv /\ Agree /\ [SystemNext]_systemVars => Agree'
<1> SUFFICES ASSUME ClientInv, Agree, [SystemNext]_systemVars, Connected'
             PROVE  cCccd' \subseteq cccd'
  BY DEF Agree
<1>1. CASE ClientConnects /\ Node!ConnectionOpens
  <2>1. ~cLink
    BY <1>1 DEF Node!ConnectionOpens, ClientInv, Node!ConnectionInv, Node!OneAtATime
  <2>2. cCccd = {} /\ cCccd' = cCccd
    BY <1>1, <2>1 DEF ClientInv, Node!LinkOwns, Node!ConnectionOpens, Node!peer
  <2> QED
    BY <2>2
<1>2. CASE /\ Connected /\ UNCHANGED cccd
           /\ \/ Node!HandleEvent \/ Node!AdvertiserSeen \/ Node!ProcedureFinds
              \/ Node!ServerIndicates
  <2>1. UNCHANGED cCccd
    BY <1>2, LateReportsAssumption, ClientQueuedAssumption, Node!LinkHandled
    DEF Node!AdvertiserSeen, Node!ProcedureFinds, Node!ServerIndicates, Node!peer
  <2> QED
    BY <1>2, <2>1 DEF Agree
<1>3. CASE Connected /\ UNCHANGED <<cCccd, cccd>>
  BY <1>3 DEF Agree
<1>4. CASE /\ Connected
           /\ cccd' = cccd \cup {cProcedure.char}
           /\ cCccd' = cCccd \cup {cProcedure.char}
  BY <1>4 DEF Agree
<1> QED
  BY <1>1, <1>2, <1>3, <1>4, ConnectedSteps DEF vars, stack, IndicationArrives, client

\* What the discovery has come to stays while the actuator node does nothing.
LEMMA CourseKept == UNCHANGED client /\ Node!OnCourse => Node!OnCourse'
BY DEF client, Node!OnCourse, Node!Underway, Node!Known, Node!Ended, Node!Result,
       Node!Queued

\* While both nodes keep the link the server's end of it never goes away and comes
\* back, and GATT once barred stays so: every answer the discovery has got is one of
\* the same connection.
LEMMA ProgressStep ==
    ~LateReports /\ ClientInv /\ Node!ProcedureInv /\ Progress /\ [SystemNext]_systemVars
        => Progress'
<1> SUFFICES ASSUME ~LateReports, ClientInv, Node!ProcedureInv, Progress,
                    [SystemNext]_systemVars, Connected', ~barred'
             PROVE  Node!OnCourse'
  BY DEF Progress
<1>1. Node!TypeOK /\ Node!QueueTypes /\ Node!ConnectionInv /\ Node!ProcedureInv
  BY DEF ClientInv, Node!TypeOK
<1>2. CASE ClientConnects /\ Node!ConnectionOpens
  BY <1>1, <1>2, LateReportsAssumption, ClientQueuedAssumption, Node!OnCourseOpens
<1>3. CASE Connected /\ UNCHANGED client /\ ~barred
  BY <1>3, CourseKept DEF Progress
<1>4. CASE Connected /\ ~barred /\ Node!HandleEvent
  <2>1. cLink /\ Node!OnCourse
    BY <1>4 DEF Progress, Connected
  <2> QED
    BY <1>1, <1>4, <2>1, LateReportsAssumption, ClientQueuedAssumption, Node!OnCourseEvent
<1>5. CASE /\ Connected /\ ~barred
           /\ \/ Node!AdvertiserSeen \/ Node!ServerIndicates \/ Node!ProcedureFinds
              \/ /\ Node!ProcedureEnds
                 /\ cProcedure.kind = "notify"
                 /\ cCccd' = cCccd \cup {cProcedure.char}
  <2>1. Node!OnCourse
    BY <1>5 DEF Progress
  <2> QED
    BY <1>1, <1>5, <2>1, LateReportsAssumption, ClientQueuedAssumption,
       Node!OnCourseAnswered
<1> QED
  BY <1>2, <1>3, <1>4, <1>5, ConnectedSteps DEF vars, stack, IndicationArrives

\* Once everything is done the discovery is at its end on the actuator node, and the
\* server knows.
LEMMA SettledAtEnd ==
    ServerInv /\ Agree /\ Progress => Settled
<1> SUFFICES ASSUME ServerInv, Agree, Progress, Connected, Quiet, ~barred
             PROVE  /\ connected /\ light_indication
                    /\ cConnected /\ cState = "smoke_discover"
  BY DEF Settled
<1>1. /\ cConnected /\ cState = "smoke_discover" /\ "light" \in cCccd
  BY LateReportsAssumption, ClientQueuedAssumption, Node!CourseDone
  DEF Progress, Quiet, Client!NoProcedure, Node!NoProcedure
<1>2. link /\ "light" \in cccd
  BY <1>1 DEF Agree, Connected
<1>3. \A i \in 1..Len(events) : FALSE
  BY DEF Quiet
<1>4. light_indication = ClientSubscribed
  BY <1>3 DEF ServerInv, SubscriptionFollowsClient
<1>5. connected = link
  BY <1>3, QueueTellsConnection DEF ServerInv, ConnectedFollowsLink
<1> QED
  BY <1>1, <1>2, <1>4, <1>5 DEF ClientSubscribed

\* However the nodes got there, with links lost on one side before the other and
\* resets of either in any state: on a link that can be used, with nothing queued or
\* under way, both think they are connected, the discovery has reached its end and
\* the server knows its subscriber.  Late reports are excluded: with them the end of
\* one connection's call can be taken for that of the next.
THEOREM SettlesInAgreement == ~LateReports => (SystemSpec => []Settled)
<1> SUFFICES ASSUME ~LateReports PROVE SystemSpec => []Settled
  OBVIOUS
<1> DEFINE Inv == NodesInv /\ Node!ProcedureInv /\ Agree /\ Progress
<1>1. SystemInit => Inv
  <2>1. SystemInit => ~Connected
    BY DEF SystemInit, Init, Starts, Connected
  <2> QED
    BY <2>1, NodesInit, ClientInitial DEF Agree, Progress
<1>2. Inv /\ [SystemNext]_systemVars => Inv'
  BY NodesStep, ClientProceduresStep, AgreeStep, ProgressStep DEF NodesInv
<1>3. Inv => Settled
  BY SettledAtEnd DEF NodesInv
<1> QED
  BY <1>1, <1>2, <1>3, PTL DEF SystemSpec


-----------------------------------------------------------------------------
(* Readings                                                                *)

\* Without its link a node has nothing to confirm, and has sent nothing.
OwnLink ==
    /\ confirming \/ cUnconfirmed => cLink
    /\ ~link => lastSent = NoIndication

\* What the actuator node shows when the last indication has arrived.
LastText == IF lastSent = NoIndication THEN "" ELSE Node!BuzzerText(lastSent.value)

\* Nothing is on its way ...
AtRest ==
    /\ outstanding = NoIndication
    /\ Node!NoValue /\ ~cUnconfirmed /\ ~confirming
    /\ cRowTempvalue = LastText

\* ... or an indication is on the air ...
OnAir == Node!NoValue /\ ~cUnconfirmed /\ ~confirming

\* ... or queued at the actuator node, which recognises it ...
Arrived ==
    /\ Node!OneValue(outstanding.value) /\ cUnconfirmed /\ ~confirming
    /\ cCharsHandle["light"] = "light"

\* ... or shown there, and its confirmation is on the air.
Shown ==
    /\ Node!NoValue /\ ~cUnconfirmed /\ confirming
    /\ cRowTempvalue = Node!BuzzerText(outstanding.value)

\* The inductive form of ShownIsLastSent: where the last indication is.
Delivery ==
    Connected /\ ~barred =>
        \/ AtRest
        \/ /\ outstanding # NoIndication /\ lastSent = outstanding
           /\ OnAir \/ Arrived \/ Shown

\* The steps of the composition keep the handles that the client has found.
LEMMA HandlesStep ==
    ClientInv /\ Node!HandleInv /\ [SystemNext]_systemVars => Node!HandleInv'
<1>1. ClientInv /\ Node!HandleInv /\ [Node!Next]_(Node!vars) => Node!HandleInv'
  BY LateReportsAssumption, ClientQueuedAssumption, Node!HandleStep DEF ClientInv
<1>2. ClientBoots => Node!HandleInv'
  BY DEF ClientBoots, Node!HandleInv, Client!NoProcedure, Chars
<1> QED
  BY <1>1, <1>2, NodeStep

LEMMA HandlesInit == SystemInit => Node!HandleInv
BY LateReportsAssumption, ClientQueuedAssumption, SameStarts, Node!HandleInit
DEF SystemInit, Client!Init

\* A confirmation is given on the client's link, and lost with either.
LEMMA OwnLinkStep == OwnLink /\ [SystemNext]_systemVars => OwnLink'
<1> SUFFICES ASSUME OwnLink, [SystemNext]_systemVars PROVE OwnLink'
  OBVIOUS
<1>1. CASE ServerRuns
  BY <1>1 DEF ServerRuns, ServerDoes, Remember, client, OwnLink
<1>2. CASE ClientRuns
  <2>1. Node!HandleEvent
    BY <1>2, SameHandlers DEF ClientRuns
  <2>2. cLink' = cLink
    BY <2>1, LateReportsAssumption, ClientQueuedAssumption, Node!LinkHandled
  <2>3. cUnconfirmed' => cUnconfirmed
    BY <2>1
    DEF Node!HandleEvent, Node!HandleBoot, Node!HandleScanReport,
        Node!HandleConnectionOpened, Node!HandleConnectionClosed, Node!HandleGattService,
        Node!HandleGattCharacteristic, Node!HandleProcedureCompleted,
        Node!HandleCharacteristicValue, Node!Confirm, Node!peer
  <2> QED
    BY <1>2, <2>2, <2>3 DEF ClientRuns, OwnLink, vars, stack
<1>3. CASE Radio
  <2>1. CASE ServerSeen \/ ServiceFound
    BY <2>1
    DEF ServerSeen, ServiceFound, Client!AdvertiserSeen, Client!ProcedureFinds,
        Client!peer, OwnLink, vars, stack
  <2>2. CASE Connect
    BY <2>2 DEF Connect, Client!ConnectionOpens, Client!peer, Remember, OwnLink
  <2>3. CASE ServerLosesLink \/ ConfirmationArrives \/ NoConfirmation
    BY <2>3
    DEF ServerLosesLink, ConfirmationArrives, NoConfirmation, client, Remember, OwnLink
  <2>4. CASE ClientLosesLink
    BY <2>4 DEF ClientLosesLink, Client!ConnectionLost, OwnLink, vars, stack
  <2>5. CASE Subscription \/ NoAnswer
    BY <2>5
    DEF Subscription, NoAnswer, Client!ProcedureEnds, Remember, OwnLink, vars, stack
  <2>6. CASE IndicationArrives
    BY <2>6 DEF IndicationArrives, Client!ServerIndicates, OwnLink, vars, stack
  <2> QED
    BY <1>3, <2>1, <2>2, <2>3, <2>4, <2>5, <2>6 DEF Radio
<1>4. CASE Reset
  BY <1>4 DEF Reset, ServerBoots, ClientBoots, Remember, client, OwnLink, vars, stack
<1>5. CASE UNCHANGED systemVars
  BY <1>5 DEF systemVars, client, vars, stack, OwnLink
<1> QED
  BY <1>1, <1>2, <1>3, <1>4, <1>5 DEF SystemNext

\* An indication is sent when none is outstanding.
LEMMA SentAlone ==
    ServerRuns => \/ UNCHANGED outstanding
                  \/ outstanding = NoIndication /\ outstanding' # NoIndication
<1>1. \A c \in Chars : \A v : Sent(c, v)
          => outstanding = NoIndication /\ outstanding' # NoIndication
  <2> SUFFICES ASSUME NEW c \in Chars, NEW v, Sent(c, v)
               PROVE  outstanding = NoIndication /\ outstanding' # NoIndication
    OBVIOUS
  <2>1. outstanding = NoIndication /\ outstanding' = [char |-> c, value |-> v]
    BY DEF Sent, CanSend
  <2>2. outstanding'.char # "none"
    BY <2>1 DEF Chars
  <2> QED
    BY <2>1, <2>2 DEF NoIndication
<1>2. "light" \in Chars /\ "smoke" \in Chars
  BY DEF Chars
<1> QED
  BY <1>1, <1>2, EventFrame
  DEF ServerRuns, ServerDoes, HandleSignal, SignalIgnored, PowerLight, StartLight,
      ReadLight, PowerSmoke, StartSmoke, ReadSmoke, Advance, ble_ambient, ble_smoke,
      NotSent, AdcIrq, LetimerUnderflow, LetimerComp1, stack

\* On the way of the last indication there is one step after the other.
LEMMA DeliveryStep ==
    ~LateReports /\ NodesInv /\ Node!ProcedureInv /\ Node!HandleInv /\ OwnLink /\ Delivery
        /\ [SystemNext]_systemVars => Delivery'
<1> SUFFICES ASSUME ~LateReports, NodesInv, Node!ProcedureInv, Node!HandleInv, OwnLink,
                    Delivery, [SystemNext]_systemVars, Connected', ~barred'
             PROVE  Delivery'
  BY DEF Delivery
<1>0. /\ ServerInv /\ TypeOK /\ Served
      /\ Node!TypeOK /\ Node!ConnectionInv /\ Node!ReadingInv /\ Node!LightInv
  BY DEF NodesInv, ServerInv, ClientInv
<1> USE LateReportsAssumption, ClientQueuedAssumption
\* A step that leaves the queue's value, the row and the indication as they are.
<1>k. ASSUME Connected, ~barred, UNCHANGED <<outstanding, lastSent, confirming>>,
             Node!NoValue => Node!NoValue',
             \A v : Node!OneValue(v) => Node!OneValue(v)',
             UNCHANGED <<cRowTempvalue, cUnconfirmed, cCharsHandle>>
      PROVE  Delivery'
  BY <1>k DEF Delivery, AtRest, OnAir, Arrived, Shown, LastText
<1>s. ASSUME UNCHANGED client
      PROVE  /\ Node!NoValue => Node!NoValue'
             /\ \A v : Node!OneValue(v) => Node!OneValue(v)'
             /\ UNCHANGED <<cRowTempvalue, cUnconfirmed, cCharsHandle, cLink>>
  BY <1>s DEF client, Node!NoValue, Node!OneValue, Node!Queued
\* The history variable, when what is outstanding stays.
<1>r. ASSUME Connected, ~barred, Remember, UNCHANGED outstanding
      PROVE  lastSent' = lastSent
  BY <1>r DEF Delivery, AtRest, Remember, Connected
<1>1. CASE ServerRuns
  <2>1. /\ UNCHANGED <<client, confirming, link, barred>> /\ Remember
    BY <1>1, EventFrame, SignalFrame DEF ServerRuns, ServerDoes
  <2>2. Connected /\ ~barred
    BY <2>1, <1>s DEF Connected
  <2>3. CASE UNCHANGED outstanding
    BY <2>1, <2>2, <2>3, <1>k, <1>s, <1>r
  <2>4. CASE outstanding = NoIndication /\ outstanding' # NoIndication
    <3>1. AtRest
      BY <2>2, <2>4 DEF Delivery
    <3>2. OnAir'
      BY <2>1, <3>1, <1>s DEF AtRest, OnAir
    <3>3. lastSent' = outstanding'
      BY <2>1, <2>4 DEF Remember, Connected
    <3> QED
      BY <2>4, <3>2, <3>3 DEF Delivery
  <2> QED
    BY <1>1, <2>3, <2>4, SentAlone
<1>2. CASE ClientRuns
  <2>1. Node!HandleEvent /\ UNCHANGED <<outstanding, barred, link, lastSent>>
    BY <1>2, SameHandlers DEF ClientRuns, vars, stack
  <2>2. cLink' = cLink
    BY <2>1, Node!LinkHandled
  <2>3. Connected /\ ~barred /\ cLink
    BY <2>1, <2>2 DEF Connected
  <2>4. \A i \in Nat : ~Node!Queued(i, "system_boot") /\ ~Node!Queued(i, "connection_closed")
    BY <2>3 DEF Node!ProcedureInv, Node!BeforeConnection, Node!Between, Node!ClosedEnds
  <2>5. confirming' = (confirming \/ (cUnconfirmed /\ ~cUnconfirmed'))
    BY <1>2 DEF ClientRuns
  <2>6. /\ Node!NoValue => Node!NoValue' /\ UNCHANGED <<cRowTempvalue, cUnconfirmed>>
        /\ \A v : Node!OneValue(v) /\ cCharsHandle["light"] = "light" =>
               \/ Node!OneValue(v)' /\ UNCHANGED <<cRowTempvalue, cUnconfirmed>>
               \/ Node!NoValue' /\ cRowTempvalue' = Node!BuzzerText(v) /\ ~cUnconfirmed'
    BY <1>0, <2>1, <2>3, <2>4, Node!ValueHandled
  <2>7. CASE Node!NoValue
    <3>1. ~confirming => ~confirming'
      BY <2>5, <2>6, <2>7
    <3>2. confirming => confirming'
      BY <2>5
    <3>3. ~Arrived
      BY <2>7 DEF Arrived, Node!OneValue, Node!NoValue
    <3> QED
      BY <2>1, <2>3, <2>6, <2>7, <3>1, <3>2, <3>3
      DEF Delivery, AtRest, OnAir, Shown, LastText
  <2>8. CASE Arrived /\ outstanding # NoIndication /\ lastSent = outstanding
    <3>0. PICK v : v = outstanding.value /\ Node!OneValue(v)
      BY <2>8 DEF Arrived
    <3>1. CASE Node!OneValue(v)' /\ UNCHANGED <<cRowTempvalue, cUnconfirmed>>
      <4>1. cCharsHandle'["light"] = "light"
        BY <1>0, <2>1, <2>8, Node!HandleGrows DEF Arrived
      <4>2. ~confirming'
        BY <2>5, <2>8, <3>1 DEF Arrived
      <4>3. Node!OneValue(outstanding.value)'
        BY <2>1, <3>0, <3>1 DEF Node!OneValue, Node!Queued
      <4> QED
        BY <2>1, <2>8, <3>1, <4>1, <4>2, <4>3 DEF Delivery, Arrived
    <3>2. CASE Node!NoValue' /\ cRowTempvalue' = Node!BuzzerText(v) /\ ~cUnconfirmed'
      <4>1. confirming'
        BY <2>5, <2>8, <3>2 DEF Arrived
      <4> QED
        BY <2>1, <2>8, <3>0, <3>2, <4>1 DEF Delivery, Shown
    <3> QED
      BY <2>6, <2>8, <3>0, <3>1, <3>2 DEF Arrived
  <2> QED
    BY <2>3, <2>7, <2>8 DEF Delivery, AtRest, OnAir, Shown
<1>3. CASE ServerSeen \/ ServiceFound \/ Subscription \/ NoAnswer
  <2>1. Node!AdvertiserSeen \/ Node!ProcedureFinds \/ Node!ProcedureEnds
    BY <1>3, SameEnvironment DEF ServerSeen, ServiceFound, Subscription, NoAnswer
  <2>2. cLink' = cLink
    BY <2>1 DEF Node!AdvertiserSeen, Node!ProcedureFinds, Node!ProcedureEnds
  <2>3. UNCHANGED <<link, barred, outstanding, confirming>>
    BY <1>3 DEF ServerSeen, ServiceFound, Subscription, NoAnswer, ClientConfigures,
                vars, stack
  <2>4. Connected /\ ~barred
    BY <2>2, <2>3 DEF Connected
  <2>5. lastSent' = lastSent
    BY <1>3, <1>r, <2>3, <2>4 DEF ServerSeen, ServiceFound, Subscription, NoAnswer
  <2> QED
    BY <1>0, <1>k, <2>1, <2>3, <2>4, <2>5, Node!ValueKept
<1>4. CASE Connect
  <2>1. Node!ConnectionOpens
    BY <1>4, SameEnvironment DEF Connect
  <2>2. Node!NoValue' /\ cRowTempvalue' = ""
    BY <1>0, <2>1, Node!OpensWithoutReading
  <2>3. ~cLink /\ ~link
    BY <1>0, <1>4, <2>1
    DEF Connect, ClientConnects, Node!ConnectionOpens, Node!ConnectionInv, Node!OneAtATime,
        ServerInv, QueueInv, AdvertisingIdle
  <2>4. outstanding = NoIndication /\ outstanding' = outstanding
    BY <1>0, <1>4, <2>3 DEF Connect, ClientConnects, ServerInv, QueueInv, LinkOwns
  <2>5. ~confirming' /\ ~cUnconfirmed' /\ lastSent = NoIndication
    BY <1>4, <2>1, <2>3 DEF Connect, Node!ConnectionOpens, Node!peer, OwnLink
  <2>6. lastSent' = NoIndication
    BY <1>4, <2>4, <2>5 DEF Connect, Remember
  <2> QED
    BY <2>2, <2>4, <2>5, <2>6 DEF Delivery, AtRest, LastText
<1>5. CASE ServerLosesLink \/ ClientLosesLink \/ NoConfirmation \/ Reset
  BY <1>5 DEF ServerLosesLink, ClientLosesLink, NoConfirmation, Reset, LinkDrops,
              Client!ConnectionLost, IndicationTimesOut, ServerBoots, ClientBoots, Connected
<1>6. CASE IndicationArrives
  <2>1. /\ Node!ServerIndicates /\ UNCHANGED vars /\ UNCHANGED <<lastSent, confirming>>
        /\ ~confirming /\ outstanding # NoIndication
        /\ cEvents' = Append(cEvents, Client!ValueEvent(outstanding.char, outstanding.value))
    BY <1>6, SameEnvironment DEF IndicationArrives
  <2>2. /\ Connected /\ ~barred /\ ~cUnconfirmed /\ cUnconfirmed'
        /\ UNCHANGED <<outstanding, cCharsHandle>>
        /\ cCccd # {} /\ Len(cEvents) < ClientQueued
    BY <2>1 DEF Node!ServerIndicates, Connected, vars, stack, Node!Post, Node!app, Node!bleData
  <2>3. OnAir /\ lastSent = outstanding
    BY <2>1, <2>2 DEF Delivery, AtRest, Arrived, Shown
  <2>4. outstanding.char = "light" /\ outstanding.value \in 0..1
    BY <1>0, <2>1 DEF TypeOK, StackTypes, Indications, Served, Chars
  <2>5. PICK v \in 0..1 : v = outstanding.value
    BY <2>4
  <2>6. Node!Post(Node!ValueEvent("light", v))
    BY <2>1, <2>2, <2>4, <2>5 DEF Node!Post, Client!ValueEvent, Node!ValueEvent
  <2>9. Node!OneValue(v)'
    BY <1>0, <2>3, <2>6, Node!ValueArrives DEF OnAir
  <2>7. Node!OneValue(outstanding.value)'
    BY <2>2, <2>5, <2>9 DEF Node!OneValue, Node!Queued
  <2>8. cCharsHandle'["light"] = "light"
    BY <2>2 DEF Node!HandleInv
  <2> QED
    BY <2>1, <2>2, <2>3, <2>7, <2>8 DEF Delivery, Arrived
<1>7. CASE ConfirmationArrives
  <2>1. /\ confirming /\ ~confirming' /\ UNCHANGED client /\ UNCHANGED <<link, barred>>
        /\ outstanding' = NoIndication
        /\ Remember
    BY <1>7 DEF ConfirmationArrives, ClientConfirms, vars, stack
  <2>2. Connected /\ ~barred
    BY <2>1, <1>s DEF Connected
  <2>3. Shown /\ outstanding # NoIndication /\ lastSent = outstanding
    BY <2>1, <2>2 DEF Delivery, AtRest, OnAir, Arrived
  <2>4. lastSent' = lastSent
    BY <2>1 DEF Remember, Connected
  <2>5. cRowTempvalue' = LastText'
    BY <2>1, <2>3, <2>4, <1>s DEF Shown, LastText
  <2> QED
    BY <2>1, <2>3, <2>5, <1>s DEF Delivery, AtRest, Shown
<1>8. CASE UNCHANGED systemVars
  <2>1. UNCHANGED <<client, outstanding, lastSent, confirming, link, barred>>
    BY <1>8 DEF systemVars, vars, stack
  <2>2. Connected /\ ~barred
    BY <2>1, <1>s DEF Connected
  <2> QED
    BY <2>1, <2>2, <1>k, <1>s
<1> QED
  BY <1>1, <1>2, <1>3, <1>4, <1>5, <1>6, <1>7, <1>8 DEF SystemNext, Radio

\* Whichever links are lost, on one side before the other, and whichever node is
\* reset: with nothing on its way the actuator node shows the reading that the sensor
\* node sent last in this connection, and none before the first.  Not so with late
\* reports, which can have a reading on display, or queued, when the next connection
\* opens.
THEOREM ShownLastSent == ~LateReports => (SystemSpec => []ShownIsLastSent)
<1> SUFFICES ASSUME ~LateReports PROVE SystemSpec => []ShownIsLastSent
  OBVIOUS
<1> DEFINE Inv == /\ NodesInv /\ Node!ProcedureInv /\ Node!HandleInv
                  /\ OwnLink /\ Delivery
<1>1. SystemInit => Inv
  <2>1. SystemInit => ~Connected /\ OwnLink
    BY DEF SystemInit, Init, Starts, Client!Init, Client!Starts, Connected, OwnLink
  <2> QED
    BY <2>1, NodesInit, ClientInitial, HandlesInit DEF Delivery
<1>2. Inv /\ [SystemNext]_systemVars => Inv'
  BY NodesStep, ClientProceduresStep, HandlesStep, OwnLinkStep, DeliveryStep DEF NodesInv
<1>3. Inv => ShownIsLastSent
  BY DEF Delivery, AtRest, LastText, ShownIsLastSent, Node!BuzzerText, Client!BuzzerText
<1> QED
  BY <1>1, <1>2, <1>3, PTL DEF SystemSpec
=============================================================================

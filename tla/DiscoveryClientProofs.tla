----------------------- MODULE DiscoveryClientProofs -----------------------
(***************************************************************************)
(* The actuator node keeps its types, its discovery stays in step with its *)
(* connection, it is never stranded, it never gets to smoke and it shows   *)
(* no reading without a connection: for queues of any length, whether or   *)
(* not the stack refuses calls (but for the third) and whether or not late *)
(* scan reports make connections overlap.  Without either they do not.     *)
(* The last sections say what a discovery needs of the server to stay on   *)
(* course, for the composition of the two nodes.                           *)
(***************************************************************************)
EXTENDS DiscoveryClient, SequenceTheorems, TLAPS

-----------------------------------------------------------------------------
(* The queue of events                                                     *)

\* Posting puts one event behind the others.
LEMMA PostFacts ==
    ASSUME events \in Seq(Events), NEW e \in Events, Post(e)
    PROVE  /\ events' \in Seq(Events)
           /\ Len(events') = Len(events) + 1
           /\ Len(events') <= MaxQueued
           /\ \A i \in 1..Len(events) : events'[i] = events[i]
           /\ events'[Len(events')] = e
<1>1. events' = Append(events, e) /\ Len(events) < MaxQueued
  BY DEF Post
<1> QED
  BY <1>1, MaxQueuedAssumption

\* The end of a procedure is posted with the event before or after it.
LEMMA PostTwoFacts ==
    ASSUME events \in Seq(Events), NEW e \in Events, NEW f \in Events,
           Len(events) < MaxQueued - 1, events' = events \o <<e, f>>
    PROVE  /\ events' \in Seq(Events)
           /\ Len(events') = Len(events) + 2
           /\ Len(events') <= MaxQueued
           /\ \A i \in 1..Len(events) : events'[i] = events[i]
           /\ events'[Len(events) + 1] = e
           /\ events'[Len(events) + 2] = f
BY MaxQueuedAssumption

\* Taking removes the first event and moves the others up.
LEMMA TakeFacts ==
    ASSUME events \in Seq(Events), NEW id, Take(id)
    PROVE  /\ Len(events) \in Nat \ {0}
           /\ Head(events) = events[1]
           /\ events[1] \in Events
           /\ events[1].id = id
           /\ events' \in Seq(Events)
           /\ Len(events') = Len(events) - 1
           /\ \A i \in 1..Len(events') : events'[i] = events[i + 1]
<1>1. events # <<>> /\ Head(events).id = id /\ events' = Tail(events)
  BY DEF Take
<1> QED
  BY <1>1, HeadTailProperties

\* What is posted are events.
LEMMA PostedEvents ==
    /\ \A id \in EventIds : Plain(id) \in Events
    /\ \A id \in EventIds, c \in Handles : Found(id, c) \in Events
    /\ \A v \in 0..1 : ScanReport(v) \in Events
    /\ \A c \in Handles, v \in 0..1 : ValueEvent(c, v) \in Events
BY DEF Plain, Found, ScanReport, ValueEvent, Events, EventIds, Handles

-----------------------------------------------------------------------------
(* The machine                                                             *)

\* The rows of discovery_state_machine's table: only an opened connection leads
\* out of the first state, and none into it but the end of one.
LEMMA TransitionTable ==
    \A t \in Transitions :
        /\ t.from \in States /\ t.to \in States
        /\ t.call \in Procedures \cup {NoProcedure}
        /\ t.call.kind # "none" => t.call \in Procedures
        /\ t.on = "connection_opened" => t.to # "Idle"
        /\ t.on = "procedure_completed" => t.from # "Idle" /\ t.to # "Idle"
BY DEF Transitions, Transition, States, Procedures, NoProcedure, Chars

\* What the machine may do with an event: stay, or move on with or without a call.
LEMMA MachineFacts ==
    ASSUME NEW on, NEW ongoing \in BOOLEAN, Machine(on, ongoing)
    PROVE  /\ gatt_procedure_ongoing' \in BOOLEAN
           /\ \/ /\ UNCHANGED <<nextState, procedure>>
                 /\ gatt_procedure_ongoing' = ongoing
                 /\ Enabled(on) = {}
              \/ \E t \in Transitions :
                     /\ t.from = nextState /\ t.on = on /\ nextState' = t.to
                     /\ procedure' = procedure
                        \/ (procedure' = t.call /\ t.call \in Procedures /\ CanStart(t.call))
<1>1. CASE Enabled(on) = {}
  BY <1>1 DEF Machine
<1>2. CASE Enabled(on) # {}
  <2>1. PICK t \in Enabled(on) :
            /\ nextState' = t.to
            /\ IF t.call.kind = "none"
               THEN gatt_procedure_ongoing' = ongoing /\ UNCHANGED procedure
               ELSE gatt_procedure_ongoing' = TRUE /\ Call(t.call)
    BY <1>2 DEF Machine
  <2>2. t \in Transitions /\ t.from = nextState /\ t.on = on
    BY DEF Enabled
  <2>3. t.call.kind # "none" => t.call \in Procedures
    BY <2>2, TransitionTable
  <2> QED
    BY <2>1, <2>2, <2>3 DEF Call
<1> QED
  BY <1>1, <1>2

-----------------------------------------------------------------------------
(* Types                                                                   *)

\* Taking an event leaves a queue of events within its bound.
LEMMA TakeKeepsBound ==
    ASSUME QueueTypes, NEW id, Take(id)
    PROVE  QueueTypes'
BY TakeFacts, MaxQueuedAssumption DEF QueueTypes

\* The event that is handled is one.
LEMMA HeadIsEvent ==
    ASSUME QueueTypes, NEW id, Take(id)
    PROVE  Head(events) \in Events /\ Head(events).char \in Handles
<1>1. Head(events) \in Events
  BY TakeFacts DEF QueueTypes
<1> QED
  BY <1>1 DEF Events

\* A step of the machine keeps its types.
LEMMA MachineTypes ==
    ASSUME DiscoveryTypes, NEW on, NEW ongoing \in BOOLEAN, Machine(on, ongoing)
    PROVE  DiscoveryTypes' /\ gatt_procedure_ongoing' \in BOOLEAN
BY MachineFacts, TransitionTable DEF DiscoveryTypes

\* Whichever event is handled, the types are kept.
LEMMA EventTypes == TypeOK /\ HandleEvent => TypeOK'
<1> SUFFICES ASSUME TypeOK, HandleEvent PROVE TypeOK'
  OBVIOUS
<1> USE DEF HandleEvent, HandleBoot, HandleScanReport, HandleConnectionOpened,
            HandleConnectionClosed, HandleGattService, HandleGattCharacteristic,
            HandleProcedureCompleted, HandleCharacteristicValue
<1>0. BleTypes /\ OutputTypes /\ DiscoveryTypes /\ StackTypes /\ QueueTypes
  BY DEF TypeOK
<1>1. QueueTypes'
  <2>1. PICK id : Take(id)
    OBVIOUS
  <2> QED
    BY <1>0, <2>1, TakeKeepsBound
<1>2. BleTypes'
  <2>1. CASE HandleConnectionOpened \/ HandleProcedureCompleted
    <3>1. gatt_procedure_ongoing' \in BOOLEAN
      BY <1>0, <2>1, MachineTypes DEF BleTypes
    <3> QED
      BY <1>0, <2>1, <3>1 DEF BleTypes
  <2>2. CASE HandleGattService \/ HandleGattCharacteristic
    <3>1. Head(events).char \in Handles
      BY <1>0, <2>2, HeadIsEvent
    <3>2. /\ connected' = connected
          /\ gatt_procedure_ongoing' = gatt_procedure_ongoing
          /\ \/ service_handle' = service_handle
             \/ service_handle' =
                    [service_handle EXCEPT ![Head(events).char] = Head(events).char]
          /\ \/ chars_handle' = chars_handle
             \/ chars_handle' =
                    [chars_handle EXCEPT ![Head(events).char] = Head(events).char]
      BY <2>2
    <3> QED
      BY <1>0, <3>1, <3>2 DEF BleTypes
  <2> QED
    BY <1>0, <2>1, <2>2 DEF BleTypes, app, bleData
<1>3. OutputTypes'
  BY <1>0 DEF OutputTypes, app, rows, ClearReadings, BuzzerText, LightText, wsb_enable,
              wsb_disable
<1>4. DiscoveryTypes'
  <2>1. CASE HandleConnectionOpened \/ HandleProcedureCompleted
    BY <1>0, <2>1, MachineTypes DEF BleTypes
  <2> QED
    BY <1>0, <2>1 DEF DiscoveryTypes, app, MachineStartsOver, States
<1>5. StackTypes'
  BY <1>0 DEF StackTypes, peer, scanner_start, scanner_stop, Confirm
<1> QED
  BY <1>1, <1>2, <1>3, <1>4, <1>5 DEF TypeOK

\* A procedure finds something for a sensor.
LEMMA FoundEvents ==
    ASSUME DiscoveryTypes, ProcedureFinds
    PROVE  procedure \in Procedures
           /\ \A id \in EventIds : Found(id, procedure.char) \in Events
<1>1. procedure \in Procedures
  <2>1. procedure \in Procedures \/ procedure = NoProcedure
    BY DEF DiscoveryTypes
  <2>2. procedure.kind \in {"service", "chars"}
    BY DEF ProcedureFinds
  <2> QED
    BY <2>1, <2>2 DEF NoProcedure
<1> QED
  BY <1>1, PostedEvents DEF Procedures, Handles

\* What the stack and the server post are events, one or two of them.
LEMMA EnvironmentPosts ==
    ASSUME TypeOK, Environment
    PROVE  \/ \E e \in Events : Post(e)
           \/ \E e, f \in Events : /\ Len(events) < MaxQueued - 1
                                   /\ events' = events \o <<e, f>>
<1>1. \A id \in EventIds : Plain(id) \in Events
  BY PostedEvents
<1>2. CASE AdvertiserSeen
  BY <1>2, PostedEvents DEF AdvertiserSeen
<1>3. CASE ConnectionOpens \/ ConnectionLost \/ ProcedureEnds
  BY <1>1, <1>3 DEF ConnectionOpens, ConnectionLost, ProcedureEnds, EventIds
<1>4. CASE ProcedureFinds
  <2>1. \A id \in EventIds : Found(id, procedure.char) \in Events
    BY <1>4, FoundEvents DEF TypeOK
  <2> QED
    BY <1>1, <1>4, <2>1 DEF ProcedureFinds, EventIds
<1>5. CASE ServerIndicates
  BY <1>5, PostedEvents DEF ServerIndicates, TypeOK, StackTypes, Handles
<1> QED
  BY <1>2, <1>3, <1>4, <1>5 DEF Environment

\* The stack and the server change nothing in the firmware.
LEMMA EnvironmentFrame == Environment => UNCHANGED <<app, scanning>>
BY DEF Environment, AdvertiserSeen, ConnectionOpens, ConnectionLost, ProcedureFinds,
       ProcedureEnds, ServerIndicates, app

\* The stack and the server keep the types.
LEMMA EnvironmentTypes == TypeOK /\ Environment => TypeOK'
<1> SUFFICES ASSUME TypeOK, Environment PROVE TypeOK'
  OBVIOUS
<1>0. BleTypes /\ OutputTypes /\ DiscoveryTypes /\ StackTypes /\ QueueTypes
  BY DEF TypeOK
<1>1. QueueTypes'
  BY <1>0, EnvironmentPosts, PostFacts, PostTwoFacts DEF QueueTypes
<1>2. UNCHANGED <<bleData, nextState, strip, rows, scanning>>
  BY EnvironmentFrame DEF app
<1>3. BleTypes' /\ OutputTypes'
  BY <1>0, <1>2 DEF BleTypes, OutputTypes, bleData, rows
<1> USE DEF Environment, AdvertiserSeen, ConnectionOpens, ConnectionLost,
            ProcedureFinds, ProcedureEnds, ServerIndicates
<1>4. DiscoveryTypes'
  BY <1>0, <1>2 DEF DiscoveryTypes
<1>5. StackTypes'
  <2>1. procedure.kind = "notify" => procedure.char \in Chars
    BY <1>0 DEF DiscoveryTypes, Procedures, NoProcedure
  <2>2. cccd' \subseteq Chars
    BY <1>0, <2>1 DEF StackTypes, peer
  <2>3. scanning' \in BOOLEAN /\ opening' \in BOOLEAN /\ link' \in BOOLEAN
    BY <1>0, <1>2 DEF StackTypes
  <2>4. unconfirmed' \in BOOLEAN
    BY <1>0 DEF StackTypes, peer
  <2> QED
    BY <2>2, <2>3, <2>4 DEF StackTypes
<1> QED
  BY <1>1, <1>3, <1>4, <1>5 DEF TypeOK

\* What the rows may show, which a reset leaves alone.
RowTypes ==
    /\ rowConnection \in {"", "Discovering", "Connected", "Handling indications"}
    /\ rowTempvalue \in {"", "Buzzer is On", "Buzzer is Off"}
    /\ rowAction \in {"", "Light is On", "Light is Off"}

\* The types of a program that starts, whatever the display shows.
LEMMA TypeStarts == Starts /\ RowTypes => TypeOK
<1> SUFFICES ASSUME Starts, RowTypes PROVE TypeOK
  OBVIOUS
<1>1. BleTypes
  <2>1. /\ service_handle = [c \in Chars |-> "none"]
        /\ chars_handle = [c \in Chars |-> "none"]
        /\ connected = FALSE /\ gatt_procedure_ongoing = FALSE
    BY DEF Starts
  <2> QED
    BY <2>1 DEF BleTypes, Handles
<1>2. OutputTypes
  BY DEF Starts, RowTypes, OutputTypes
<1>3. DiscoveryTypes
  BY DEF Starts, DiscoveryTypes, States
<1>4. StackTypes
  BY DEF Starts, StackTypes
<1>5. QueueTypes
  <2>1. Plain("system_boot") \in Events
    BY PostedEvents DEF EventIds
  <2>2. events = <<Plain("system_boot")>>
    BY DEF Starts
  <2> QED
    BY <2>1, <2>2, MaxQueuedAssumption DEF QueueTypes
<1> QED
  BY <1>1, <1>2, <1>3, <1>4, <1>5 DEF TypeOK

\* The display is blank when the power comes on.
LEMMA TypeInit == Init => TypeOK
<1> SUFFICES ASSUME Init PROVE Starts /\ RowTypes
  BY TypeStarts
<1>1. rowConnection = "" /\ rowTempvalue = "" /\ rowAction = ""
  BY DEF Init
<1> QED
  BY <1>1 DEF Init, RowTypes

\* Every step keeps the types.
LEMMA TypeStep == TypeOK /\ [Next]_vars => TypeOK'
<1>1. ASSUME TypeOK, UNCHANGED vars
      PROVE  TypeOK'
  <2>1. UNCHANGED <<bleData, strip, rows, nextState, procedure, scanning, opening, link,
                    events, peer>>
    BY <1>1 DEF vars, app
  <2>2. BleTypes' /\ OutputTypes'
    BY <1>1, <2>1 DEF TypeOK, BleTypes, OutputTypes, bleData, rows
  <2>3. DiscoveryTypes' /\ StackTypes' /\ QueueTypes'
    BY <1>1, <2>1 DEF TypeOK, DiscoveryTypes, StackTypes, QueueTypes, peer
  <2> QED
    BY <2>2, <2>3 DEF TypeOK
<1> QED
  BY <1>1, EventTypes, EnvironmentTypes DEF Next

\* The variables keep their types: handles are found for the sensor they are of,
\* the queue stays within its bound and each row shows one of its texts.
THEOREM TypeCorrect == Spec => []TypeOK
BY TypeInit, TypeStep, PTL DEF Spec

-----------------------------------------------------------------------------
(* The connections in the queue                                            *)

Queued(i, id) == i \in 1..Len(events) /\ events[i].id = id

\* The boot event is the first one and comes before any connection.
BootFirst == \A i \in Nat : Queued(i, "system_boot") => i = 1 /\ ~connected

\* Between two connections that open one is closed.
OpenedApart ==
    \A i, j \in Nat : Queued(i, "connection_opened") /\ Queued(j, "connection_opened")
        => \/ i >= j
           \/ \E k \in Nat : i < k /\ k < j /\ Queued(k, "connection_closed")

\* The end of the connection that the firmware has comes before the next.
OpenedAfterClosed ==
    connected => \A j \in Nat : Queued(j, "connection_opened")
        => \E k \in Nat : k < j /\ Queued(k, "connection_closed")

\* Without a link the end of every connection is queued.
EndsQueued ==
    ~link => /\ \A i \in Nat : Queued(i, "connection_opened")
                    => \E k \in Nat : i < k /\ Queued(k, "connection_closed")
             /\ connected => \E k \in Nat : Queued(k, "connection_closed")

OneAtATime == opening => ~link

\* The inductive invariant on the connection: however many connections are in
\* the queue, they take turns, and the machine is in its first state between
\* them.
ConnectionInv ==
    /\ BootFirst
    /\ OpenedApart
    /\ OpenedAfterClosed
    /\ EndsQueued
    /\ OneAtATime
    /\ MachineFollowsConnection

\* What is behind the event that is taken moves up by one, and was queued.
LEMMA TakenShifts ==
    ASSUME QueueTypes, NEW id, Take(id)
    PROVE  /\ Queued(1, id)
           /\ \A i \in Nat : \A d : Queued(i, d)' <=> i # 0 /\ Queued(i + 1, d)
           /\ \A i \in Nat : \A d : Queued(i, d) /\ d # id => i > 1 /\ Queued(i - 1, d)'
<1>1. /\ Len(events) \in Nat \ {0}
      /\ events[1].id = id
      /\ Len(events') = Len(events) - 1
      /\ \A i \in 1..Len(events') : events'[i] = events[i + 1]
  BY TakeFacts DEF QueueTypes
<1> QED
  BY <1>1 DEF Queued

\* What was queued stays where it is when events are posted.
LEMMA PostedStays ==
    ASSUME QueueTypes, NEW e \in Events, Post(e)
    PROVE  \A i \in Nat : \A d : Queued(i, d)' <=>
               Queued(i, d) \/ (i = Len(events) + 1 /\ d = e.id)
<1>1. /\ Len(events) \in Nat
      /\ Len(events') = Len(events) + 1
      /\ \A i \in 1..Len(events) : events'[i] = events[i]
      /\ events'[Len(events')] = e
  BY PostFacts DEF QueueTypes
<1> QED
  BY <1>1 DEF Queued

\* Two events posted at once.
LEMMA PostedTwoStay ==
    ASSUME QueueTypes, NEW e \in Events, NEW f \in Events,
           Len(events) < MaxQueued - 1, events' = events \o <<e, f>>
    PROVE  \A i \in Nat : \A d : Queued(i, d)' <=>
               \/ Queued(i, d)
               \/ i = Len(events) + 1 /\ d = e.id
               \/ i = Len(events) + 2 /\ d = f.id
<1>1. /\ Len(events) \in Nat
      /\ Len(events') = Len(events) + 2
      /\ \A i \in 1..Len(events) : events'[i] = events[i]
      /\ events'[Len(events) + 1] = e
      /\ events'[Len(events) + 2] = f
  BY PostTwoFacts DEF QueueTypes
<1> QED
  BY <1>1 DEF Queued

ConnectionsInQueue == BootFirst /\ OpenedApart /\ OpenedAfterClosed /\ EndsQueued

\* An event that opens or closes no connection is handled.
LEMMA OtherTaken ==
    ASSUME QueueTypes, ConnectionsInQueue,
           NEW id, id \notin {"connection_opened", "connection_closed"}, Take(id),
           UNCHANGED <<connected, link>>
    PROVE  ConnectionsInQueue'
<1> USE TakenShifts
<1>1. BootFirst'
  BY DEF ConnectionsInQueue, BootFirst
<1>2. OpenedApart'
  <2> SUFFICES ASSUME NEW i \in Nat, NEW j \in Nat, i < j,
                      Queued(i, "connection_opened")', Queued(j, "connection_opened")'
               PROVE  \E k \in Nat : i < k /\ k < j /\ Queued(k, "connection_closed")'
    BY DEF OpenedApart
  <2>1. PICK k \in Nat : i + 1 < k /\ k < j + 1 /\ Queued(k, "connection_closed")
    BY DEF ConnectionsInQueue, OpenedApart
  <2> QED
    BY <2>1
<1>3. OpenedAfterClosed'
  <2> SUFFICES ASSUME connected, NEW j \in Nat, Queued(j, "connection_opened")'
               PROVE  \E k \in Nat : k < j /\ Queued(k, "connection_closed")'
    BY DEF OpenedAfterClosed
  <2>1. PICK k \in Nat : k < j + 1 /\ Queued(k, "connection_closed")
    BY DEF ConnectionsInQueue, OpenedAfterClosed
  <2> QED
    BY <2>1
<1>4. EndsQueued'
  <2> SUFFICES ASSUME ~link
               PROVE  /\ \A i \in Nat : Queued(i, "connection_opened")'
                             => \E k \in Nat : i < k /\ Queued(k, "connection_closed")'
                      /\ connected => \E k \in Nat : Queued(k, "connection_closed")'
    BY DEF EndsQueued
  <2>1. ASSUME NEW i \in Nat, Queued(i, "connection_opened")'
        PROVE  \E k \in Nat : i < k /\ Queued(k, "connection_closed")'
    <3>1. PICK k \in Nat : i + 1 < k /\ Queued(k, "connection_closed")
      BY <2>1 DEF ConnectionsInQueue, EndsQueued
    <3> QED
      BY <3>1
  <2>2. ASSUME connected PROVE \E k \in Nat : Queued(k, "connection_closed")'
    <3>1. PICK k \in Nat : Queued(k, "connection_closed")
      BY <2>2 DEF ConnectionsInQueue, EndsQueued
    <3> QED
      BY <3>1
  <2> QED
    BY <2>1, <2>2
<1> QED
  BY <1>1, <1>2, <1>3, <1>4 DEF ConnectionsInQueue

\* A connection is taken up when the one before it is closed.
LEMMA OpenedTaken ==
    ASSUME QueueTypes, ConnectionsInQueue, Take("connection_opened"), link' = link
    PROVE  ~connected /\ ConnectionsInQueue'
<1> USE TakenShifts
<1>1. Queued(1, "connection_opened")
  OBVIOUS
<1>2. ~connected
  <2>1. \A k \in Nat : k < 1 => ~Queued(k, "connection_closed")
    BY DEF Queued
  <2> QED
    BY <1>1, <2>1 DEF ConnectionsInQueue, OpenedAfterClosed
<1>3. BootFirst'
  BY DEF ConnectionsInQueue, BootFirst
<1>4. \A j \in Nat : Queued(j, "connection_opened")'
          => \E k \in Nat : k < j /\ Queued(k, "connection_closed")'
  <2> SUFFICES ASSUME NEW j \in Nat, Queued(j, "connection_opened")'
               PROVE  \E k \in Nat : k < j /\ Queued(k, "connection_closed")'
    OBVIOUS
  <2>1. j + 1 > 1 /\ Queued(j + 1, "connection_opened")
    BY DEF Queued
  <2>2. PICK k \in Nat : 1 < k /\ k < j + 1 /\ Queued(k, "connection_closed")
    BY <1>1, <2>1 DEF ConnectionsInQueue, OpenedApart
  <2> QED
    BY <2>2
<1>5. OpenedApart'
  <2> SUFFICES ASSUME NEW i \in Nat, NEW j \in Nat, i < j,
                      Queued(i, "connection_opened")', Queued(j, "connection_opened")'
               PROVE  \E k \in Nat : i < k /\ k < j /\ Queued(k, "connection_closed")'
    BY DEF OpenedApart
  <2>1. PICK k \in Nat : i + 1 < k /\ k < j + 1 /\ Queued(k, "connection_closed")
    BY DEF ConnectionsInQueue, OpenedApart
  <2> QED
    BY <2>1
<1>6. EndsQueued'
  <2> SUFFICES ASSUME ~link
               PROVE  /\ \A i \in Nat : Queued(i, "connection_opened")'
                             => \E k \in Nat : i < k /\ Queued(k, "connection_closed")'
                      /\ \E k \in Nat : Queued(k, "connection_closed")'
    BY DEF EndsQueued
  <2>1. ASSUME NEW i \in Nat, Queued(i, "connection_opened")'
        PROVE  \E k \in Nat : i < k /\ Queued(k, "connection_closed")'
    <3>1. PICK k \in Nat : i + 1 < k /\ Queued(k, "connection_closed")
      BY <2>1 DEF ConnectionsInQueue, EndsQueued
    <3> QED
      BY <3>1
  <2>2. PICK k \in Nat : 1 < k /\ Queued(k, "connection_closed")
    BY <1>1 DEF ConnectionsInQueue, EndsQueued
  <2>3. Queued(k - 1, "connection_closed")' /\ k - 1 \in Nat
    BY <2>2
  <2> QED
    BY <2>1, <2>3
<1> QED
  BY <1>2, <1>3, <1>4, <1>5, <1>6 DEF ConnectionsInQueue, OpenedAfterClosed

\* The end of a connection is handled.
LEMMA ClosedTaken ==
    ASSUME QueueTypes, ConnectionsInQueue, Take("connection_closed"),
           ~connected', link' = link
    PROVE  ConnectionsInQueue'
<1> USE TakenShifts
<1>1. BootFirst' /\ OpenedAfterClosed'
  BY DEF ConnectionsInQueue, BootFirst, OpenedAfterClosed
<1>2. OpenedApart'
  <2> SUFFICES ASSUME NEW i \in Nat, NEW j \in Nat, i < j,
                      Queued(i, "connection_opened")', Queued(j, "connection_opened")'
               PROVE  \E k \in Nat : i < k /\ k < j /\ Queued(k, "connection_closed")'
    BY DEF OpenedApart
  <2>1. PICK k \in Nat : i + 1 < k /\ k < j + 1 /\ Queued(k, "connection_closed")
    BY DEF ConnectionsInQueue, OpenedApart
  <2> QED
    BY <2>1
<1>3. EndsQueued'
  <2> SUFFICES ASSUME ~link, NEW i \in Nat, Queued(i, "connection_opened")'
               PROVE  \E k \in Nat : i < k /\ Queued(k, "connection_closed")'
    BY DEF EndsQueued
  <2>1. PICK k \in Nat : i + 1 < k /\ Queued(k, "connection_closed")
    BY DEF ConnectionsInQueue, EndsQueued
  <2> QED
    BY <2>1
<1> QED
  BY <1>1, <1>2, <1>3 DEF ConnectionsInQueue

\* Events that open no connection are posted, and perhaps the end of one.
LEMMA OthersPosted ==
    ASSUME ConnectionsInQueue, connected' = connected,
           \A i \in Nat : \A d : Queued(i, d) => Queued(i, d)',
           \A i \in Nat : Queued(i, "system_boot")' => Queued(i, "system_boot"),
           \A i \in Nat : Queued(i, "connection_opened")'
               => Queued(i, "connection_opened"),
           link' = link \/ \E n \in Nat :
               /\ Queued(n, "connection_closed")'
               /\ \A i \in Nat : Queued(i, "connection_opened") => i < n
    PROVE  ConnectionsInQueue'
<1>1. BootFirst' /\ OpenedApart' /\ OpenedAfterClosed'
  BY DEF ConnectionsInQueue, BootFirst, OpenedApart, OpenedAfterClosed
<1>2. EndsQueued'
  <2>1. CASE link' = link
    BY <2>1 DEF ConnectionsInQueue, EndsQueued
  <2>2. CASE link' # link
    BY <2>2 DEF EndsQueued
  <2> QED
    BY <2>1, <2>2
<1> QED
  BY <1>1, <1>2 DEF ConnectionsInQueue

\* A connection opens while there is none.
LEMMA OpenedPosted ==
    ASSUME QueueTypes, ConnectionsInQueue, Post(Plain("connection_opened")),
           ~link, link', connected' = connected
    PROVE  ConnectionsInQueue'
<1>1. /\ Plain("connection_opened") \in Events
      /\ Plain("connection_opened").id = "connection_opened"
  BY PostedEvents DEF EventIds, Plain
<1>2. \A i \in Nat : \A d : Queued(i, d)' <=>
          Queued(i, d) \/ (i = Len(events) + 1 /\ d = "connection_opened")
  BY <1>1, PostedStays
<1>3. \A i \in Nat : \A d : Queued(i, d) => i < Len(events) + 1
  BY DEF Queued, QueueTypes
<1>4. /\ \A i \in Nat : Queued(i, "connection_opened")
               => \E k \in Nat : i < k /\ Queued(k, "connection_closed")
      /\ connected => \E k \in Nat : Queued(k, "connection_closed")
  BY DEF ConnectionsInQueue, EndsQueued
<1>5. BootFirst' /\ EndsQueued'
  BY <1>2 DEF ConnectionsInQueue, BootFirst, EndsQueued
<1>6. OpenedApart'
  <2> SUFFICES ASSUME NEW i \in Nat, NEW j \in Nat, i < j,
                      Queued(i, "connection_opened")', Queued(j, "connection_opened")'
               PROVE  \E k \in Nat : i < k /\ k < j /\ Queued(k, "connection_closed")'
    BY DEF OpenedApart
  <2>1. CASE Queued(j, "connection_opened")
    <3>1. Queued(i, "connection_opened")
      BY <1>2, <1>3, <2>1
    <3> QED
      BY <1>2, <2>1, <3>1 DEF ConnectionsInQueue, OpenedApart
  <2>2. CASE j = Len(events) + 1
    <3>1. Queued(i, "connection_opened")
      BY <1>2, <2>2
    <3> QED
      BY <1>2, <1>3, <1>4, <2>2, <3>1
  <2> QED
    BY <1>2, <2>1, <2>2
<1>7. OpenedAfterClosed'
  <2> SUFFICES ASSUME connected, NEW j \in Nat, Queued(j, "connection_opened")'
               PROVE  \E k \in Nat : k < j /\ Queued(k, "connection_closed")'
    BY DEF OpenedAfterClosed
  <2>1. CASE Queued(j, "connection_opened")
    BY <1>2, <2>1 DEF ConnectionsInQueue, OpenedAfterClosed
  <2>2. CASE j = Len(events) + 1
    BY <1>2, <1>3, <1>4, <2>2
  <2> QED
    BY <1>2, <2>1, <2>2
<1> QED
  BY <1>5, <1>6, <1>7 DEF ConnectionsInQueue

\* The queue and the connections of the firmware and the stack do not change.
LEMMA QueueKept ==
    ASSUME ConnectionsInQueue, UNCHANGED <<events, connected, link>>
    PROVE  ConnectionsInQueue'
BY DEF ConnectionsInQueue, BootFirst, OpenedApart, OpenedAfterClosed, EndsQueued, Queued

\* At boot one event is queued and there is no connection.
LEMMA ConnectionInit == Starts => ConnectionInv
<1> SUFFICES ASSUME Starts PROVE ConnectionInv
  OBVIOUS
<1>1. events = <<Plain("system_boot")>> /\ ~connected /\ ~opening /\ nextState = "Idle"
  BY DEF Starts
<1>2. \A i \in Nat : \A d : Queued(i, d) => i = 1 /\ d = "system_boot"
  BY <1>1 DEF Queued, Plain
<1> QED
  BY <1>1, <1>2
  DEF ConnectionInv, BootFirst, OpenedApart, OpenedAfterClosed, EndsQueued, OneAtATime,
      MachineFollowsConnection

\* Every step of the firmware keeps the invariant on the connection.
LEMMA EventConnection == TypeOK /\ ConnectionInv /\ HandleEvent => ConnectionInv'
<1> SUFFICES ASSUME TypeOK, ConnectionInv, HandleEvent PROVE ConnectionInv'
  OBVIOUS
<1>0. QueueTypes /\ BleTypes /\ ConnectionsInQueue /\ OneAtATime /\ MachineFollowsConnection
  BY DEF TypeOK, ConnectionInv, ConnectionsInQueue
<1> USE DEF HandleEvent, HandleBoot, HandleScanReport, HandleConnectionOpened,
            HandleConnectionClosed, HandleGattService, HandleGattCharacteristic,
            HandleProcedureCompleted, HandleCharacteristicValue
<1>1. link' = link
  BY DEF app
<1>2. OneAtATime'
  BY <1>0, <1>1 DEF OneAtATime, app
<1>3. ASSUME ConnectionsInQueue', MachineFollowsConnection'
      PROVE  ConnectionInv'
  BY <1>2, <1>3 DEF ConnectionInv, ConnectionsInQueue
<1>4. CASE HandleBoot
  <2>1. Queued(1, "system_boot")
    BY <1>0, <1>4, TakenShifts
  <2>2. ~connected /\ connected' = connected /\ nextState' = nextState
    BY <1>0, <1>4, <2>1 DEF ConnectionsInQueue, BootFirst, BleTypes
  <2>3. ConnectionsInQueue'
    BY <1>0, <1>1, <1>4, <2>2, OtherTaken
  <2> QED
    BY <1>0, <1>3, <2>2, <2>3 DEF MachineFollowsConnection
<1>5. CASE HandleConnectionOpened
  <2>1. ~connected /\ ConnectionsInQueue'
    BY <1>0, <1>1, <1>5, OpenedTaken
  <2>2. Machine("connection_opened", gatt_procedure_ongoing) /\ connected'
    BY <1>5
  <2>3. nextState = "Idle"
    BY <1>0, <2>1 DEF MachineFollowsConnection
  <2>4. Enabled("connection_opened") # {}
    <3> DEFINE t == Transition("Idle", "connection_opened", "service", "light",
                               "light_Getservice")
    <3>1. t \in Transitions
      BY DEF Transitions
    <3>2. t.from = nextState /\ t.on = "connection_opened"
      BY <2>3 DEF Transition
    <3> QED
      BY <3>1, <3>2 DEF Enabled
  <2>5. PICK t \in Transitions : t.on = "connection_opened" /\ nextState' = t.to
    <3>1. gatt_procedure_ongoing \in BOOLEAN
      BY <1>0 DEF BleTypes
    <3> QED
      BY <2>2, <2>4, <3>1, MachineFacts
  <2>6. nextState' # "Idle"
    BY <2>5, TransitionTable
  <2> QED
    BY <1>3, <2>1, <2>2, <2>6 DEF MachineFollowsConnection
<1>6. CASE HandleConnectionClosed
  <2>1. ~connected' /\ nextState' = "Idle"
    BY <1>6 DEF MachineStartsOver
  <2>2. ConnectionsInQueue'
    BY <1>0, <1>1, <1>6, <2>1, ClosedTaken
  <2> QED
    BY <1>3, <2>1, <2>2 DEF MachineFollowsConnection
<1>7. CASE HandleProcedureCompleted
  <2>1. ConnectionsInQueue'
    BY <1>0, <1>1, <1>7, OtherTaken
  <2>2. Machine("procedure_completed", FALSE) /\ connected' = connected
    BY <1>7
  <2>3. (nextState' = "Idle") <=> (nextState = "Idle")
    <3>1. \/ nextState' = nextState
          \/ \E t \in Transitions : /\ t.from = nextState /\ nextState' = t.to
                                    /\ t.on = "procedure_completed"
      BY <2>2, MachineFacts
    <3> QED
      BY <3>1, TransitionTable
  <2> QED
    BY <1>0, <1>3, <2>1, <2>2, <2>3 DEF MachineFollowsConnection
<1>8. CASE HandleScanReport \/ HandleGattService \/ HandleGattCharacteristic
           \/ HandleCharacteristicValue
  <2>1. UNCHANGED <<connected, nextState>>
    BY <1>8 DEF app, bleData
  <2>2. PICK id \in {"scan_report", "gatt_service", "gatt_characteristic",
                     "characteristic_value"} : Take(id)
    BY <1>8
  <2>3. ConnectionsInQueue'
    BY <1>0, <1>1, <2>1, <2>2, OtherTaken
  <2> QED
    BY <1>0, <1>3, <2>1, <2>3 DEF MachineFollowsConnection
<1> QED
  BY <1>4, <1>5, <1>6, <1>7, <1>8

\* Every step of the stack and the server keeps the invariant on the connection.
LEMMA EnvironmentConnection ==
    TypeOK /\ ConnectionInv /\ Environment => ConnectionInv'
<1> SUFFICES ASSUME TypeOK, ConnectionInv, Environment PROVE ConnectionInv'
  OBVIOUS
<1>0. QueueTypes /\ ConnectionsInQueue /\ OneAtATime /\ MachineFollowsConnection
  BY DEF TypeOK, ConnectionInv, ConnectionsInQueue
<1>1. UNCHANGED <<connected, nextState>>
  BY EnvironmentFrame DEF app, bleData
<1> USE DEF Environment, AdvertiserSeen, ConnectionOpens, ConnectionLost,
            ProcedureFinds, ProcedureEnds, ServerIndicates
<1>2. OneAtATime' /\ MachineFollowsConnection'
  BY <1>0, <1>1 DEF OneAtATime, MachineFollowsConnection
<1>3. CASE ConnectionOpens
  <2>1. ConnectionsInQueue'
    BY <1>0, <1>1, <1>3, OpenedPosted DEF OneAtATime
  <2> QED
    BY <1>2, <2>1 DEF ConnectionInv, ConnectionsInQueue
<1>4. ASSUME NEW e \in Events, Post(e), link' = link \/ e.id = "connection_closed",
             e.id \notin {"system_boot", "connection_opened"}
      PROVE  ConnectionsInQueue'
  <2>1. \A i \in Nat : \A d : Queued(i, d)' <=>
            Queued(i, d) \/ (i = Len(events) + 1 /\ d = e.id)
    BY <1>0, <1>4, PostedStays
  <2>2. Len(events) + 1 \in Nat
    BY <1>0 DEF QueueTypes
  <2>3. \A i \in Nat : \A d : Queued(i, d) => i < Len(events) + 1
    BY <1>0 DEF Queued, QueueTypes
  <2> QED
    BY <1>0, <1>1, <1>4, <2>1, <2>2, <2>3, OthersPosted
<1>5. ASSUME NEW e \in Events, NEW f \in Events, Len(events) < MaxQueued - 1,
             events' = events \o <<e, f>>,
             link' = link \/ f.id = "connection_closed",
             e.id \notin {"system_boot", "connection_opened"},
             f.id \notin {"system_boot", "connection_opened"}
      PROVE  ConnectionsInQueue'
  <2>1. \A i \in Nat : \A d : Queued(i, d)' <=>
            \/ Queued(i, d)
            \/ i = Len(events) + 1 /\ d = e.id
            \/ i = Len(events) + 2 /\ d = f.id
    BY <1>0, <1>5, PostedTwoStay
  <2>2. Len(events) + 2 \in Nat
    BY <1>0 DEF QueueTypes
  <2>3. \A i \in Nat : \A d : Queued(i, d) => i < Len(events) + 2
    BY <1>0 DEF Queued, QueueTypes
  <2> QED
    BY <1>0, <1>1, <1>5, <2>1, <2>2, <2>3, OthersPosted
<1>6. CASE AdvertiserSeen
  <2>1. PICK v \in 0..1 : Post(ScanReport(v)) /\ link' = link
    BY <1>6
  <2>2. ConnectionsInQueue'
    BY <1>4, <2>1, PostedEvents DEF ScanReport
  <2> QED
    BY <1>2, <2>2 DEF ConnectionInv, ConnectionsInQueue
<1>7. CASE ConnectionLost
  <2>1. /\ \A id \in EventIds : Plain(id) \in Events /\ Plain(id).id = id
        /\ {"connection_closed", "procedure_completed"} \subseteq EventIds
    BY PostedEvents DEF Plain, EventIds
  <2>2. ConnectionsInQueue'
    BY <1>4, <1>5, <1>7, <2>1
  <2> QED
    BY <1>2, <2>2 DEF ConnectionInv, ConnectionsInQueue
<1>8. CASE ProcedureFinds
  <2>1. PICK e \in Events, f \in Events :
            /\ Len(events) < MaxQueued - 1
            /\ events' = events \o <<e, f>>
            /\ e.id \in {"gatt_service", "gatt_characteristic"}
            /\ f.id = "procedure_completed"
            /\ link' = link
    <3> DEFINE id == IF procedure.kind = "service" THEN "gatt_service"
                                                   ELSE "gatt_characteristic"
    <3>1. Found(id, procedure.char) \in Events /\ Plain("procedure_completed") \in Events
      BY <1>8, FoundEvents, PostedEvents DEF TypeOK, EventIds
    <3>2. Found(id, procedure.char).id = id
          /\ Plain("procedure_completed").id = "procedure_completed"
      BY DEF Found, Plain
    <3> QED
      BY <1>8, <3>1, <3>2
  <2>2. ConnectionsInQueue'
    BY <1>5, <2>1
  <2> QED
    BY <1>2, <2>2 DEF ConnectionInv, ConnectionsInQueue
<1>9. CASE ProcedureEnds
  <2>1. Plain("procedure_completed") \in Events
    BY PostedEvents DEF EventIds
  <2>2. ConnectionsInQueue'
    BY <1>4, <1>9, <2>1 DEF Plain
  <2> QED
    BY <1>2, <2>2 DEF ConnectionInv, ConnectionsInQueue
<1>10. CASE ServerIndicates
  <2>1. PICK c \in cccd, v \in 0..1 : Post(ValueEvent(c, v)) /\ link' = link
    BY <1>10
  <2>2. ValueEvent(c, v) \in Events
    BY PostedEvents DEF TypeOK, StackTypes, Handles
  <2>3. ConnectionsInQueue'
    BY <1>4, <2>1, <2>2 DEF ValueEvent
  <2> QED
    BY <1>2, <2>3 DEF ConnectionInv, ConnectionsInQueue
<1> QED
  BY <1>3, <1>6, <1>7, <1>8, <1>9, <1>10

\* Every step keeps the invariant on the connection.
LEMMA ConnectionStep == TypeOK /\ ConnectionInv /\ [Next]_vars => ConnectionInv'
<1> SUFFICES ASSUME TypeOK, ConnectionInv, [Next]_vars PROVE ConnectionInv'
  OBVIOUS
<1>1. CASE UNCHANGED vars
  <2>1. ConnectionsInQueue'
    BY <1>1, QueueKept DEF ConnectionInv, ConnectionsInQueue, vars, app, bleData
  <2> QED
    BY <1>1, <2>1 DEF ConnectionInv, ConnectionsInQueue, OneAtATime,
                      MachineFollowsConnection, vars, app, bleData
<1> QED
  BY <1>1, EventConnection, EnvironmentConnection DEF Next

\* The invariant holds of every reachable state.
LEMMA ConnectionInvariant == Spec => [](TypeOK /\ ConnectionInv)
<1>1. Init => ConnectionInv
  BY ConnectionInit DEF Init
<1> QED
  BY <1>1, ConnectionStep, TypeCorrect, PTL DEF Spec

\* handle_ble_event and discovery_state_machine agree on the connection, however
\* many connections have opened and closed behind the event they look at.
THEOREM MachineFollows == Spec => []MachineFollowsConnection
<1>1. ConnectionInv => MachineFollowsConnection
  BY DEF ConnectionInv
<1> QED
  BY <1>1, ConnectionInvariant, PTL

-----------------------------------------------------------------------------
(* The way back to the server                                              *)

\* The inductive form of NeverStranded: an event is queued that starts the
\* scanner, or there is no need to.
WayBack ==
    \/ scanning \/ opening \/ link
    \/ \E i \in Nat : Queued(i, "system_boot") \/ Queued(i, "connection_closed")

\* Every step leaves a way back, if the stack opens the connections it can.
LEMMA WayBackStep ==
    ~CallsMayFail /\ TypeOK /\ WayBack /\ [Next]_vars => WayBack'
<1> SUFFICES ASSUME ~CallsMayFail, TypeOK, WayBack, [Next]_vars PROVE WayBack'
  OBVIOUS
<1>0. QueueTypes /\ StackTypes
  BY DEF TypeOK
<1>1. CASE HandleBoot \/ HandleConnectionClosed
  BY <1>1 DEF WayBack, HandleBoot, HandleConnectionClosed, scanner_start
<1>2. CASE HandleScanReport
  <2>1. CASE Head(events).value = 1
    BY <1>2, <2>1 DEF HandleScanReport, WayBack
  <2>2. CASE Head(events).value # 1
    <3>1. \A i \in Nat : \A d : Queued(i, d) /\ d # "scan_report"
              => i - 1 \in Nat /\ Queued(i - 1, d)'
      BY <1>0, <1>2, TakenShifts DEF HandleScanReport
    <3> QED
      BY <1>2, <2>2, <3>1 DEF HandleScanReport, WayBack
  <2> QED
    BY <2>1, <2>2
<1>3. CASE HandleConnectionOpened \/ HandleGattService \/ HandleGattCharacteristic
           \/ HandleProcedureCompleted \/ HandleCharacteristicValue
  <2>1. PICK id \in {"connection_opened", "gatt_service", "gatt_characteristic",
                     "procedure_completed", "characteristic_value"} : Take(id)
    BY <1>3 DEF HandleConnectionOpened, HandleGattService, HandleGattCharacteristic,
                HandleProcedureCompleted, HandleCharacteristicValue
  <2>2. UNCHANGED <<scanning, opening, link>>
    BY <1>3 DEF HandleConnectionOpened, HandleGattService, HandleGattCharacteristic,
                HandleProcedureCompleted, HandleCharacteristicValue
  <2>3. \A i \in Nat : \A d : Queued(i, d) /\ d # id => i - 1 \in Nat /\ Queued(i - 1, d)'
    BY <1>0, <2>1, TakenShifts
  <2> QED
    BY <2>1, <2>2, <2>3 DEF WayBack
<1>4. CASE ConnectionLost
  <2>1. Plain("connection_closed") \in Events /\ Plain("procedure_completed") \in Events
    BY PostedEvents DEF EventIds
  <2>2. CASE Post(Plain("connection_closed"))
    <3>1. PICK n \in Nat : n = Len(events) + 1
      BY <1>0 DEF QueueTypes
    <3>2. Plain("connection_closed").id = "connection_closed"
      BY DEF Plain
    <3>3. Queued(n, "connection_closed")'
      BY <1>0, <2>1, <2>2, <3>1, <3>2, PostedStays
    <3> QED
      BY <3>3 DEF WayBack
  <2>3. CASE /\ Len(events) < MaxQueued - 1
             /\ events' = events \o <<Plain("procedure_completed"),
                                      Plain("connection_closed")>>
    <3>1. PICK n \in Nat : n = Len(events) + 2
      BY <1>0 DEF QueueTypes
    <3>2. Plain("connection_closed").id = "connection_closed"
      BY DEF Plain
    <3>3. Queued(n, "connection_closed")'
      BY <1>0, <2>1, <2>3, <3>1, <3>2, PostedTwoStay
    <3> QED
      BY <3>3 DEF WayBack
  <2> QED
    BY <1>4, <2>2, <2>3 DEF ConnectionLost
<1>5. CASE Environment /\ ~ConnectionLost
  <2>1. \A i \in Nat : \A d : Queued(i, d) => Queued(i, d)'
    BY <1>0, <1>5, EnvironmentPosts, PostedStays, PostedTwoStay
  <2>2. scanning' = scanning /\ (opening \/ link => opening' \/ link')
    BY <1>5 DEF Environment, AdvertiserSeen, ConnectionOpens, ProcedureFinds,
                ProcedureEnds, ServerIndicates
  <2> QED
    BY <2>1, <2>2 DEF WayBack
<1>6. CASE UNCHANGED vars
  BY <1>6 DEF WayBack, Queued, vars
<1> QED
  BY <1>1, <1>2, <1>3, <1>4, <1>5, <1>6 DEF Next, HandleEvent

\* At boot the event that starts the scanner is queued.
LEMMA WayBackInit == Starts => WayBack
<1> SUFFICES ASSUME Starts PROVE Queued(1, "system_boot")
  BY DEF WayBack
<1>1. Plain("system_boot").id = "system_boot"
  BY DEF Plain
<1>2. events = <<Plain("system_boot")>>
  BY DEF Starts
<1> QED
  BY <1>1, <1>2 DEF Queued

\* A way back that is not queued is under way.
LEMMA WayBackSuffices == TypeOK /\ WayBack => NeverStranded
<1> SUFFICES ASSUME WayBack, events = <<>> PROVE scanning \/ opening \/ link
  BY DEF NeverStranded
<1>1. Len(events) = 0
  OBVIOUS
<1>2. \A i \in Nat : \A d : ~Queued(i, d)
  BY <1>1 DEF Queued
<1> QED
  BY <1>2 DEF WayBack

\* The client never waits with nothing that could bring the server back, as long
\* as the stack opens the connections that it can.
THEOREM NotStranded == ~CallsMayFail => (Spec => []NeverStranded)
<1> SUFFICES ASSUME ~CallsMayFail PROVE Spec => []NeverStranded
  OBVIOUS
<1>1. TypeOK /\ WayBack /\ [Next]_vars => WayBack'
  BY WayBackStep
<1>2. Init => WayBack
  BY WayBackInit DEF Init
<1> QED
  BY <1>1, <1>2, WayBackSuffices, TypeCorrect, PTL DEF Spec

-----------------------------------------------------------------------------
(* Nothing but light                                                       *)

\* No event is about smoke, and values are of the light.
LightEvents ==
    \A i \in 1..Len(events) :
        /\ events[i].char # "smoke"
        /\ events[i].id = "characteristic_value" => events[i].char = "light"

\* The inductive form of LightOnly: the discovery of the smoke service is not
\* reached, and so nothing about smoke is asked for, found or subscribed to.
LightInv ==
    /\ LightOnly
    /\ nextState \in {"Idle", "light_Getservice", "light_Getchars", "smoke_discover"}
    /\ procedure.char # "smoke"
    /\ chars_handle["smoke"] = "none"
    /\ LightEvents

\* The rows of the table up to smoke_discover are about light.
LEMMA LightTransitions ==
    \A t \in Transitions :
        \/ /\ t.to \in {"Idle", "light_Getservice", "light_Getchars", "smoke_discover"}
           /\ t.call.char # "smoke"
        \/ /\ t.from = "smoke_discover"
           /\ t.on = "connection_opened"
        \/ t.from \in {"smoke_Getservice", "smoke_Getchars", "SetIndication", "Connclose"}
BY DEF Transitions, Transition

\* Taking or posting keeps LightEvents.
LEMMA LightTaken ==
    ASSUME QueueTypes, LightEvents, NEW id, Take(id)
    PROVE  /\ LightEvents'
           /\ Head(events).char # "smoke"
           /\ id = "characteristic_value" => Head(events).char = "light"
<1>1. /\ Len(events) \in Nat \ {0}
      /\ Head(events) = events[1] /\ events[1].id = id
      /\ Len(events') = Len(events) - 1
      /\ \A i \in 1..Len(events') : events'[i] = events[i + 1]
  BY TakeFacts DEF QueueTypes
<1>2. /\ 1 \in 1..Len(events)
      /\ \A i \in 1..Len(events') : i + 1 \in 1..Len(events)
  BY <1>1
<1> QED
  BY <1>1, <1>2 DEF LightEvents

Lit(e) == e.char # "smoke" /\ (e.id = "characteristic_value" => e.char = "light")

\* What is posted and about light keeps LightEvents.
LEMMA LightPosted ==
    ASSUME QueueTypes, LightEvents, NEW e \in Events, Post(e), Lit(e)
    PROVE  LightEvents'
<1>1. /\ Len(events) \in Nat
      /\ Len(events') = Len(events) + 1
      /\ \A i \in 1..Len(events) : events'[i] = events[i]
      /\ events'[Len(events')] = e
  BY PostFacts DEF QueueTypes
<1>2. \A i \in 1..Len(events') : i \in 1..Len(events) \/ i = Len(events')
  BY <1>1
<1> QED
  BY <1>1, <1>2 DEF LightEvents, Lit

\* The same of two events.
LEMMA LightPostedTwo ==
    ASSUME QueueTypes, LightEvents, NEW e \in Events, NEW f \in Events,
           Len(events) < MaxQueued - 1, events' = events \o <<e, f>>, Lit(e), Lit(f)
    PROVE  LightEvents'
<1>1. /\ Len(events) \in Nat
      /\ Len(events') = Len(events) + 2
      /\ \A i \in 1..Len(events) : events'[i] = events[i]
      /\ events'[Len(events) + 1] = e
      /\ events'[Len(events) + 2] = f
  BY PostTwoFacts DEF QueueTypes
<1>2. \A i \in 1..Len(events') :
          i \in 1..Len(events) \/ i = Len(events) + 1 \/ i = Len(events) + 2
  BY <1>1
<1> QED
  BY <1>1, <1>2 DEF LightEvents, Lit

\* Handling an event gets no further than the light value.
LEMMA LightEventStep ==
    TypeOK /\ ConnectionInv /\ LightInv /\ HandleEvent => LightInv'
<1> SUFFICES ASSUME TypeOK, ConnectionInv, LightInv, HandleEvent PROVE LightInv'
  OBVIOUS
<1>0. QueueTypes /\ BleTypes /\ LightEvents /\ LightOnly
  BY DEF TypeOK, LightInv
<1> USE DEF HandleEvent, HandleBoot, HandleScanReport, HandleConnectionOpened,
            HandleConnectionClosed, HandleGattService, HandleGattCharacteristic,
            HandleProcedureCompleted, HandleCharacteristicValue
<1>1. LightEvents' /\ Head(events).char # "smoke"
  <2>1. PICK id : Take(id)
    OBVIOUS
  <2> QED
    BY <1>0, <2>1, LightTaken
<1>2. LightOnly'
  <2>1. cccd' = cccd
    BY DEF peer
  <2>2. strip' = strip /\ (rowAction' = rowAction \/ rowAction' = "")
    <3>1. CASE HandleCharacteristicValue
      <4>1. Head(events).char = "light"
        BY <1>0, <3>1, LightTaken
      <4>2. chars_handle["smoke"] # "light"
        BY DEF LightInv
      <4> QED
        BY <3>1, <4>1, <4>2
    <3> QED
      BY <3>1 DEF app, rows, ClearReadings
  <2> QED
    BY <1>0, <2>1, <2>2 DEF LightOnly
<1>3. chars_handle'["smoke"] = "none"
  <2>1. CASE HandleGattCharacteristic
    BY <1>0, <1>1, <2>1 DEF LightInv, BleTypes, Chars
  <2> QED
    BY <2>1 DEF LightInv, app, bleData
<1>4. /\ nextState' \in {"Idle", "light_Getservice", "light_Getchars", "smoke_discover"}
      /\ procedure'.char # "smoke"
  <2>1. ASSUME NEW on, NEW ongoing \in BOOLEAN, Machine(on, ongoing),
               nextState = "smoke_discover" => on # "connection_opened"
        PROVE  /\ nextState' \in {"Idle", "light_Getservice", "light_Getchars",
                                   "smoke_discover"}
               /\ procedure'.char # "smoke"
    <3>1. CASE UNCHANGED <<nextState, procedure>>
      BY <3>1 DEF LightInv
    <3>2. CASE \E t \in Transitions :
                   /\ t.from = nextState /\ t.on = on /\ nextState' = t.to
                   /\ procedure' = procedure \/ procedure' = t.call
      <4>1. PICK t \in Transitions :
                /\ t.from = nextState /\ t.on = on /\ nextState' = t.to
                /\ procedure' = procedure \/ procedure' = t.call
        BY <3>2
      <4>2. /\ ~(t.from = "smoke_discover" /\ t.on = "connection_opened")
            /\ t.from \notin {"smoke_Getservice", "smoke_Getchars", "SetIndication",
                              "Connclose"}
        BY <2>1, <4>1 DEF LightInv
      <4>3. /\ t.to \in {"Idle", "light_Getservice", "light_Getchars", "smoke_discover"}
            /\ t.call.char # "smoke"
        BY <4>2, LightTransitions
      <4> QED
        BY <4>1, <4>3 DEF LightInv
    <3> QED
      BY <2>1, <3>1, <3>2, MachineFacts
  <2>2. CASE HandleConnectionOpened
    <3>1. ~connected
      BY <1>0, <2>2, OpenedTaken DEF ConnectionInv, ConnectionsInQueue
    <3>2. nextState = "Idle"
      BY <3>1 DEF ConnectionInv, MachineFollowsConnection
    <3> QED
      BY <1>0, <2>1, <2>2, <3>2 DEF BleTypes
  <2>3. CASE HandleProcedureCompleted
    BY <2>1, <2>3
  <2> QED
    BY <2>2, <2>3 DEF LightInv, app, MachineStartsOver
<1> QED
  BY <1>1, <1>2, <1>3, <1>4 DEF LightInv

\* The stack and the server answer what they were asked for.
LEMMA LightEnvironmentStep == TypeOK /\ LightInv /\ Environment => LightInv'
<1> SUFFICES ASSUME TypeOK, LightInv, Environment PROVE LightInv'
  OBVIOUS
<1>0. QueueTypes /\ DiscoveryTypes /\ LightEvents /\ LightOnly
  BY DEF TypeOK, LightInv
<1>1. UNCHANGED <<nextState, chars_handle, strip, rowAction>>
  BY EnvironmentFrame DEF app, bleData, rows
<1>2. /\ \A id \in EventIds : Plain(id) \in Events
      /\ Lit(Plain("procedure_completed"))
      /\ Lit(Plain("connection_opened")) /\ Lit(Plain("connection_closed"))
      /\ {"procedure_completed", "connection_opened", "connection_closed"}
             \subseteq EventIds
  BY PostedEvents DEF Plain, Lit, EventIds
<1> USE DEF Environment, AdvertiserSeen, ConnectionOpens, ConnectionLost,
            ProcedureFinds, ProcedureEnds, ServerIndicates
<1>3. LightEvents'
  <2>1. CASE AdvertiserSeen
    <3>1. PICK v \in 0..1 : Post(ScanReport(v))
      BY <2>1
    <3>2. ScanReport(v) \in Events /\ Lit(ScanReport(v))
      BY PostedEvents DEF ScanReport, Lit
    <3> QED
      BY <1>0, <3>1, <3>2, LightPosted
  <2>2. CASE ConnectionOpens \/ ConnectionLost \/ ProcedureEnds
    BY <1>0, <1>2, <2>2, LightPosted, LightPostedTwo
  <2>3. CASE ProcedureFinds
    <3> DEFINE id == IF procedure.kind = "service" THEN "gatt_service"
                                                   ELSE "gatt_characteristic"
    <3>1. Found(id, procedure.char) \in Events
      BY <1>0, <2>3, FoundEvents DEF EventIds
    <3>2. Lit(Found(id, procedure.char))
      BY DEF LightInv, Found, Lit
    <3> QED
      BY <1>0, <1>2, <2>3, <3>1, <3>2, LightPostedTwo
  <2>4. CASE ServerIndicates
    <3>1. PICK c \in cccd, v \in 0..1 : Post(ValueEvent(c, v))
      BY <2>4
    <3>2. c = "light"
      BY <1>0 DEF LightOnly
    <3>3. ValueEvent(c, v) \in Events /\ Lit(ValueEvent(c, v))
      BY <3>2, PostedEvents DEF ValueEvent, Lit, Handles, Chars
    <3> QED
      BY <1>0, <3>1, <3>3, LightPosted
  <2> QED
    BY <2>1, <2>2, <2>3, <2>4
<1>4. procedure'.char # "smoke"
  BY DEF LightInv, NoProcedure
<1>5. cccd' \subseteq {"light"}
  <2>1. CASE ProcedureEnds
    <3>1. procedure \in Procedures
      BY <1>0, <2>1 DEF DiscoveryTypes
    <3>2. procedure.char = "light"
      BY <3>1 DEF Procedures, Chars, LightInv
    <3> QED
      BY <1>0, <2>1, <3>2 DEF LightOnly
  <2> QED
    BY <1>0, <2>1 DEF LightOnly, peer
<1> QED
  BY <1>0, <1>1, <1>3, <1>4, <1>5 DEF LightInv, LightOnly

\* The boot event is about no sensor.
LEMMA LightEventsInit == Starts => LightEvents
<1> SUFFICES ASSUME Starts PROVE LightEvents
  OBVIOUS
<1>1. Plain("system_boot").id = "system_boot" /\ Plain("system_boot").char = "none"
  BY DEF Plain
<1>2. events = <<Plain("system_boot")>>
  BY DEF Starts
<1> QED
  BY <1>1, <1>2 DEF LightEvents

\* Nothing is known of smoke at boot.
LEMMA LightInit == Starts /\ rowAction = "" => LightInv
<1> SUFFICES ASSUME Starts, rowAction = "" PROVE LightInv
  OBVIOUS
<1>1. chars_handle["smoke"] = "none"
  BY DEF Starts, Chars
<1>2. LightOnly /\ nextState = "Idle" /\ procedure.char = "none"
  BY DEF Starts, LightOnly, NoProcedure
<1> QED
  BY <1>1, <1>2, LightEventsInit DEF LightInv

\* No step brings smoke in.
LEMMA LightStep == TypeOK /\ ConnectionInv /\ LightInv /\ [Next]_vars => LightInv'
<1>1. ASSUME LightInv, UNCHANGED vars
      PROVE  LightInv'
  BY <1>1 DEF LightInv, LightOnly, LightEvents, vars, app, bleData, rows, peer
<1> QED
  BY <1>1, LightEventStep, LightEnvironmentStep DEF Next

\* The client subscribes to the light value alone, and the LED strip stays dark:
\* nothing that the stack, the server or a late report does brings the discovery
\* of the smoke service about.
THEOREM NothingButLight == Spec => []LightOnly
<1>1. LightInv => LightOnly
  BY DEF LightInv
<1>2. Init => LightInv
  BY LightInit DEF Init
<1> QED
  BY <1>1, <1>2, LightStep, ConnectionInvariant, PTL DEF Spec

-----------------------------------------------------------------------------
(* The readings of a connection                                            *)

\* What is at this place in the queue belongs to a connection: the firmware's, or
\* one that opens before it, and whose end is not before it.
Within(i) ==
    \/ connected /\ \A k \in Nat : k < i => ~Queued(k, "connection_closed")
    \/ \E j \in Nat : /\ j < i /\ Queued(j, "connection_opened")
                      /\ \A k \in Nat : j < k /\ k < i => ~Queued(k, "connection_closed")

\* The inductive form of NothingOutlivesConnection: a value is queued within its
\* connection, and so would be the next event while there is a link.
ReadingInv ==
    /\ NothingOutlivesConnection
    /\ \A i \in Nat : Queued(i, "characteristic_value") => Within(i)
    /\ link => Within(Len(events) + 1)

\* The boot event is queued.
LEMMA BootQueued ==
    ASSUME QueueTypes
    PROVE  Booting <=> \E i \in Nat : Queued(i, "system_boot")
BY DEF QueueTypes, Booting, Queued

\* What is within a connection stays so when the event before it is handled.
LEMMA WithinTaken ==
    ASSUME QueueTypes, NEW id, Take(id), NEW i \in Nat, i > 0, Within(i + 1),
           connected => connected' \/ id = "connection_closed",
           id = "connection_opened" => connected'
    PROVE  Within(i)'
<1>1. /\ Queued(1, id)
      /\ \A k \in Nat : \A d : Queued(k, d)' => k > 0 /\ k + 1 \in Nat /\ Queued(k + 1, d)
      /\ \A k \in Nat : \A d : Queued(k, d) /\ k # 1 => k - 1 \in Nat /\ Queued(k - 1, d)'
  <2>1. /\ Queued(1, id)
        /\ \A k \in Nat : \A d : Queued(k, d)' <=> k # 0 /\ Queued(k + 1, d)
    BY TakenShifts
  <2>2. ASSUME NEW k \in Nat, NEW d, Queued(k, d), k # 1
        PROVE  k - 1 \in Nat /\ Queued(k - 1, d)'
    <3>1. k - 1 \in Nat /\ k - 1 # 0 /\ (k - 1) + 1 = k
      BY <2>2 DEF Queued
    <3> QED
      BY <2>1, <2>2, <3>1
  <2>3. \A k \in Nat : k # 0 => k > 0
    OBVIOUS
  <2> QED
    BY <2>1, <2>2, <2>3
<1>2. CASE connected /\ \A k \in Nat : k < i + 1 => ~Queued(k, "connection_closed")
  <2>1. connected'
    BY <1>1, <1>2
  <2>2. \A k \in Nat : k < i => ~Queued(k, "connection_closed")'
    BY <1>1, <1>2
  <2> QED
    BY <2>1, <2>2 DEF Within
<1>3. ASSUME NEW j \in Nat, j < i + 1, Queued(j, "connection_opened"),
             \A k \in Nat : j < k /\ k < i + 1 => ~Queued(k, "connection_closed")
      PROVE  Within(i)'
  <2>1. CASE j = 1
    <3>1. connected'
      BY <1>1, <1>3, <2>1 DEF Queued
    <3>2. \A k \in Nat : k < i => ~Queued(k, "connection_closed")'
      BY <1>1, <1>3, <2>1
    <3> QED
      BY <3>1, <3>2 DEF Within
  <2>2. CASE j # 1
    <3>1. j - 1 \in Nat /\ j - 1 < i /\ Queued(j - 1, "connection_opened")'
      BY <1>1, <1>3, <2>2
    <3>2. \A k \in Nat : j - 1 < k /\ k < i => ~Queued(k, "connection_closed")'
      BY <1>1, <1>3
    <3> QED
      BY <3>1, <3>2 DEF Within
  <2> QED
    BY <2>1, <2>2
<1> QED
  BY <1>2, <1>3 DEF Within

\* It stays so when events are posted behind it, and goes on over events that do
\* not end the connection.
LEMMA WithinPosted ==
    ASSUME NEW i \in Nat, NEW n \in Nat, i <= n, Within(i), connected' = connected,
           \A k \in Nat : Queued(k, "connection_opened") => Queued(k, "connection_opened")',
           \A k \in Nat : k < n /\ Queued(k, "connection_closed")'
               => k < i /\ Queued(k, "connection_closed")
    PROVE  Within(n)'
<1>1. CASE connected /\ \A k \in Nat : k < i => ~Queued(k, "connection_closed")
  BY <1>1 DEF Within
<1>2. ASSUME NEW j \in Nat, j < i, Queued(j, "connection_opened"),
             \A k \in Nat : j < k /\ k < i => ~Queued(k, "connection_closed")
      PROVE  Within(n)'
  BY <1>2 DEF Within
<1> QED
  BY <1>1, <1>2 DEF Within

\* Handling an event: values are handled within their connection, and the end of
\* a connection clears the rows.
LEMMA ReadingEventStep ==
    TypeOK /\ ConnectionInv /\ ReadingInv /\ HandleEvent => ReadingInv'
<1> SUFFICES ASSUME TypeOK, ConnectionInv, ReadingInv, HandleEvent PROVE ReadingInv'
  OBVIOUS
<1>0. QueueTypes /\ Len(events) \in Nat
  BY DEF TypeOK, QueueTypes
<1> USE DEF HandleEvent
<1>1. PICK id : /\ Take(id)
                /\ connected => connected' \/ id \in {"connection_closed", "system_boot"}
                /\ id = "connection_opened" => connected'
                /\ link' = link
  <2>1. CASE HandleBoot
    BY <2>1 DEF HandleBoot
  <2>2. CASE HandleConnectionOpened
    BY <2>2 DEF HandleConnectionOpened
  <2>3. CASE HandleConnectionClosed
    BY <2>3 DEF HandleConnectionClosed
  <2>4. CASE HandleScanReport
    BY <2>4 DEF HandleScanReport, app, bleData
  <2>5. CASE HandleGattService
    BY <2>5 DEF HandleGattService
  <2>6. CASE HandleGattCharacteristic
    BY <2>6 DEF HandleGattCharacteristic
  <2>7. CASE HandleProcedureCompleted
    BY <2>7 DEF HandleProcedureCompleted
  <2>8. CASE HandleCharacteristicValue
    BY <2>8 DEF HandleCharacteristicValue, bleData
  <2> QED
    BY <2>1, <2>2, <2>3, <2>4, <2>5, <2>6, <2>7, <2>8
<1>2. connected => connected' \/ id = "connection_closed"
  BY <1>0, <1>1, TakenShifts DEF ConnectionInv, BootFirst
<1>3. \A i \in Nat : i > 0 /\ Within(i + 1) => Within(i)'
  BY <1>0, <1>1, <1>2, WithinTaken
<1>4. \A i \in Nat : Queued(i, "characteristic_value")' => Within(i)'
  <2>1. \A i \in Nat : Queued(i, "characteristic_value")'
            => i > 0 /\ i + 1 \in Nat /\ Queued(i + 1, "characteristic_value")
    BY <1>0, <1>1, TakenShifts DEF Queued
  <2> QED
    BY <1>3, <2>1 DEF ReadingInv
<1>5. link' => Within(Len(events) + 1)'
  <2>1. PICK n \in Nat : n = Len(events) /\ n > 0 /\ n = Len(events') + 1
    BY <1>0, <1>1, TakeFacts DEF QueueTypes
  <2>2. link' => Within(n)'
    BY <1>1, <1>3, <2>1 DEF ReadingInv
  <2> QED
    BY <2>1, <2>2
<1>6. NothingOutlivesConnection'
  <2>1. CASE HandleCharacteristicValue
    <3>1. Within(1)
      BY <1>0, <2>1, TakenShifts DEF HandleCharacteristicValue, ReadingInv
    <3>2. connected
      BY <3>1 DEF Within, Queued
    <3> QED
      BY <2>1, <3>2 DEF HandleCharacteristicValue, NothingOutlivesConnection, bleData
  <2>2. CASE HandleConnectionClosed
    BY <2>2 DEF HandleConnectionClosed, ClearReadings, NothingOutlivesConnection
  <2>3. CASE HandleBoot
    BY <2>3 DEF HandleBoot, NothingOutlivesConnection
  <2>4. CASE HandleScanReport \/ HandleConnectionOpened \/ HandleGattService
             \/ HandleGattCharacteristic \/ HandleProcedureCompleted
    <3>1. PICK d \in EventIds : d # "system_boot" /\ Take(d)
      BY <2>4
      DEF HandleScanReport, HandleConnectionOpened, HandleGattService,
          HandleGattCharacteristic, HandleProcedureCompleted, EventIds
    <3>2. ~Booting
      <4>1. Queued(1, d)
        BY <1>0, <3>1, TakenShifts
      <4>2. ~Queued(1, "system_boot")
        BY <3>1, <4>1 DEF Queued
      <4>3. \A i \in Nat : ~Queued(i, "system_boot")
        BY <4>2 DEF ConnectionInv, BootFirst
      <4> QED
        BY <1>0, <4>3, BootQueued, Zenon
    <3>3. UNCHANGED <<rowTempvalue, rowAction>> /\ (connected => connected')
      <4>1. CASE HandleConnectionOpened
        BY <4>1 DEF HandleConnectionOpened
      <4>2. CASE HandleProcedureCompleted
        BY <4>2 DEF HandleProcedureCompleted
      <4>3. CASE HandleScanReport \/ HandleGattService \/ HandleGattCharacteristic
        BY <4>3 DEF HandleScanReport, HandleGattService, HandleGattCharacteristic, app,
                    bleData, rows
      <4> QED
        BY <2>4, <4>1, <4>2, <4>3
    <3> QED
      BY <3>2, <3>3 DEF ReadingInv, NothingOutlivesConnection
  <2> QED
    BY <2>1, <2>2, <2>3, <2>4
<1> QED
  BY <1>4, <1>5, <1>6 DEF ReadingInv

\* What the stack posts besides opens and closes no connection, and is a value only
\* if there is a link.
LEMMA NoClosePosted ==
    ASSUME QueueTypes, StackTypes, DiscoveryTypes,
           AdvertiserSeen \/ ProcedureFinds \/ ProcedureEnds \/ ServerIndicates
    PROVE  /\ link' = link
           /\ \A i \in Nat : Queued(i, "connection_closed")' => Queued(i, "connection_closed")
           /\ ~link \/ ~ServerIndicates
                  => \A i \in Nat : Queued(i, "characteristic_value")'
                         => Queued(i, "characteristic_value")
<1>1. link' = link
  BY DEF AdvertiserSeen, ProcedureFinds, ProcedureEnds, ServerIndicates
<1>2. Plain("procedure_completed") \in Events
      /\ Plain("procedure_completed").id = "procedure_completed"
  BY PostedEvents DEF Plain, EventIds
<1>3. CASE AdvertiserSeen
  <2>1. PICK v \in 0..1 : Post(ScanReport(v))
    BY <1>3 DEF AdvertiserSeen
  <2>2. ScanReport(v) \in Events /\ ScanReport(v).id = "scan_report"
    BY PostedEvents DEF ScanReport
  <2> QED
    BY <1>1, <2>1, <2>2, PostedStays
<1>4. CASE ProcedureFinds
  <2>1. PICK id \in {"gatt_service", "gatt_characteristic"} :
            /\ Len(events) < MaxQueued - 1
            /\ events' = events \o <<Found(id, procedure.char), Plain("procedure_completed")>>
    BY <1>4 DEF ProcedureFinds
  <2>2. Found(id, procedure.char) \in Events /\ Found(id, procedure.char).id = id
    BY <1>4, FoundEvents DEF EventIds, Found
  <2>3. \A i \in Nat : \A d : Queued(i, d)' =>
            \/ Queued(i, d)
            \/ d = id
            \/ d = "procedure_completed"
    BY <1>2, <2>1, <2>2, PostedTwoStay
  <2> QED
    BY <1>1, <2>1, <2>3
<1>5. CASE ProcedureEnds
  BY <1>1, <1>2, <1>5, PostedStays DEF ProcedureEnds
<1>6. CASE ServerIndicates
  <2>1. PICK c \in cccd, v \in 0..1 : link /\ Post(ValueEvent(c, v))
    BY <1>6 DEF ServerIndicates
  <2>2. ValueEvent(c, v) \in Events /\ ValueEvent(c, v).id = "characteristic_value"
    BY PostedEvents DEF ValueEvent, StackTypes, Handles
  <2> QED
    BY <1>1, <1>6, <2>1, <2>2, PostedStays
<1> QED
  BY <1>3, <1>4, <1>5, <1>6

\* The stack posts values while there is a link.
LEMMA ReadingEnvironmentStep ==
    TypeOK /\ ConnectionInv /\ ReadingInv /\ Environment => ReadingInv'
<1> SUFFICES ASSUME TypeOK, ConnectionInv, ReadingInv, Environment PROVE ReadingInv'
  OBVIOUS
<1>0. QueueTypes /\ StackTypes /\ DiscoveryTypes /\ Len(events) \in Nat
  BY DEF TypeOK, QueueTypes
<1>1. UNCHANGED <<connected, rowTempvalue, rowAction>>
  BY EnvironmentFrame DEF app, bleData, rows
<1>2. ASSUME Booting => Booting'
      PROVE  NothingOutlivesConnection'
  BY <1>1, <1>2 DEF ReadingInv, NothingOutlivesConnection
<1>3. PICK n \in Nat : n = Len(events) + 1
  BY <1>0
<1>4. PICK m \in Nat : m = Len(events') + 1 /\ n < m
  <2>1. Len(events') \in Nat /\ Len(events) < Len(events')
    <3>1. CASE \E e \in Events : Post(e)
      BY <1>0, <3>1, PostFacts DEF QueueTypes
    <3>2. CASE \E e, f \in Events : /\ Len(events) < MaxQueued - 1
                                    /\ events' = events \o <<e, f>>
      BY <1>0, <3>2, PostTwoFacts DEF QueueTypes
    <3> QED
      BY <3>1, <3>2, EnvironmentPosts
  <2> QED
    BY <1>0, <1>3, <2>1
<1>5. \A i \in Nat : \A d : Queued(i, d) <=> i < n /\ Queued(i, d)'
  <2>1. \A i \in Nat : \A d : Queued(i, d) => i < n
    BY <1>0, <1>3 DEF Queued
  <2>2. CASE \E e \in Events : Post(e)
    BY <1>0, <1>3, <2>1, <2>2, PostedStays
  <2>3. CASE \E e, f \in Events : /\ Len(events) < MaxQueued - 1
                                  /\ events' = events \o <<e, f>>
    BY <1>0, <1>3, <2>1, <2>3, PostedTwoStay
  <2> QED
    BY <2>2, <2>3, EnvironmentPosts
<1>10. NothingOutlivesConnection'
  <2>1. QueueTypes'
    BY EnvironmentTypes DEF TypeOK
  <2>2. Booting' <=> \E i \in Nat : Queued(i, "system_boot")'
    BY <2>1 DEF QueueTypes, Booting, Queued
  <2> QED
    BY <1>0, <1>2, <1>5, <2>2, BootQueued
<1>6. \A i \in Nat : Queued(i, "characteristic_value") => Within(i)'
  <2>1. \A i \in Nat : Queued(i, "characteristic_value") => Within(i) /\ i < n
    BY <1>5 DEF ReadingInv
  <2>2. ASSUME NEW i \in Nat, i < n, Within(i)
        PROVE  Within(i)'
    BY <1>1, <1>5, <2>2, WithinPosted
  <2> QED
    BY <2>1, <2>2
<1>7. CASE ConnectionOpens
  <2>1. /\ Queued(n, "connection_opened")' /\ m = n + 1
        /\ \A i \in Nat : Queued(i, "characteristic_value")'
               => Queued(i, "characteristic_value")
    <3>1. /\ Plain("connection_opened") \in Events
          /\ Plain("connection_opened").id = "connection_opened"
          /\ Post(Plain("connection_opened"))
      BY <1>7, PostedEvents DEF ConnectionOpens, Plain, EventIds
    <3> QED
      BY <1>0, <1>3, <1>4, <3>1, PostedStays, PostFacts DEF QueueTypes
  <2>2. Within(m)'
    BY <2>1 DEF Within
  <2>3. Within(Len(events) + 1)'
    BY <1>4, <2>2
  <2> QED
    BY <1>10, <1>6, <2>1, <2>3 DEF ReadingInv
<1>8. CASE ConnectionLost
  <2>1. \A i \in Nat : Queued(i, "characteristic_value")' => Queued(i, "characteristic_value")
    <3>1. /\ Plain("connection_closed") \in Events
          /\ Plain("connection_closed").id = "connection_closed"
          /\ Plain("procedure_completed") \in Events
          /\ Plain("procedure_completed").id = "procedure_completed"
      BY PostedEvents DEF Plain, EventIds
    <3>2. CASE Post(Plain("connection_closed"))
      BY <1>0, <3>1, <3>2, PostedStays
    <3>3. CASE /\ Len(events) < MaxQueued - 1
               /\ events' = events \o <<Plain("procedure_completed"),
                                        Plain("connection_closed")>>
      BY <1>0, <3>1, <3>3, PostedTwoStay
    <3> QED
      BY <1>8, <3>2, <3>3 DEF ConnectionLost
  <2>2. ~link'
    BY <1>8 DEF ConnectionLost
  <2> QED
    BY <1>10, <1>6, <2>1, <2>2 DEF ReadingInv
<1>9. CASE AdvertiserSeen \/ ProcedureFinds \/ ProcedureEnds \/ ServerIndicates
  <2>1. /\ link' = link
        /\ \A i \in Nat : Queued(i, "connection_closed")' => Queued(i, "connection_closed")
        /\ ~link => \A i \in Nat : Queued(i, "characteristic_value")'
                        => Queued(i, "characteristic_value")
    BY <1>0, <1>9, NoClosePosted
  <2>2. ASSUME link, NEW i \in Nat, n <= i, i <= m
        PROVE  Within(i)'
    <3>1. Within(n)
      BY <1>3, <2>2 DEF ReadingInv
    <3> QED
      BY <1>1, <1>5, <2>1, <2>2, <3>1, WithinPosted
  <2>3. \A i \in Nat : Queued(i, "characteristic_value")' => Within(i)'
    <3> SUFFICES ASSUME NEW i \in Nat, Queued(i, "characteristic_value")' PROVE Within(i)'
      OBVIOUS
    <3>1. CASE Queued(i, "characteristic_value")
      BY <1>6, <3>1
    <3>2. CASE ~Queued(i, "characteristic_value")
      <4>1. i <= m
        BY <1>4 DEF Queued
      <4>2. link /\ n <= i
        BY <1>5, <2>1, <3>2
      <4> QED
        BY <2>2, <4>1, <4>2
    <3> QED
      BY <3>1, <3>2
  <2>4. link' => Within(m)'
    BY <1>4, <2>1, <2>2
  <2>5. link' => Within(Len(events) + 1)'
    BY <1>4, <2>4
  <2> QED
    BY <1>10, <2>3, <2>5 DEF ReadingInv
<1> QED
  BY <1>7, <1>8, <1>9 DEF Environment

\* Until the boot event is handled the display may show anything.
LEMMA ReadingInit == Starts => ReadingInv
<1> SUFFICES ASSUME Starts PROVE ReadingInv
  OBVIOUS
<1>1. events = <<Plain("system_boot")>> /\ Plain("system_boot").id = "system_boot"
  BY DEF Starts, Plain
<1>2. \A i \in Nat : ~Queued(i, "characteristic_value")
  BY <1>1 DEF Queued
<1>3. Booting
  BY <1>1 DEF Booting
<1> QED
  BY <1>2, <1>3 DEF Starts, ReadingInv, NothingOutlivesConnection

\* Every step keeps the invariant on readings.
LEMMA ReadingStep == TypeOK /\ ConnectionInv /\ ReadingInv /\ [Next]_vars => ReadingInv'
<1>1. ASSUME ReadingInv, UNCHANGED vars
      PROVE  ReadingInv'
  <2>1. UNCHANGED <<events, connected, link, rowTempvalue, rowAction>>
    BY <1>1 DEF vars, app, bleData, rows
  <2>2. \A i, d : Queued(i, d)' <=> Queued(i, d)
    BY <2>1 DEF Queued
  <2>3. \A i : Within(i) => Within(i)'
    BY <2>1, <2>2 DEF Within
  <2>4. Len(events') + 1 = Len(events) + 1
    BY <2>1
  <2> QED
    BY <1>1, <2>1, <2>2, <2>3, <2>4 DEF ReadingInv, NothingOutlivesConnection, Booting
<1> QED
  BY <1>1, ReadingEventStep, ReadingEnvironmentStep DEF Next

\* A reading is shown in the connection it came in and cleared at its end, however
\* many indications, ends and openings are queued behind each other
\* (handle_ble_event).
THEOREM NoReadingOutlives == Spec => []NothingOutlivesConnection
<1>1. ReadingInv => NothingOutlivesConnection
  BY DEF ReadingInv
<1>2. Init => ReadingInv
  BY ReadingInit DEF Init
<1> QED
  BY <1>1, <1>2, ReadingStep, ConnectionInvariant, PTL DEF Spec

-----------------------------------------------------------------------------
(* The procedures, while no late scan report makes two connections overlap *)

Report(i) == i \in 1..Len(events) /\ events[i] = ScanReport(1)
Ended(i)  == Queued(i, "procedure_completed")

\* No connection is open or queued, and no procedure.
Between ==
    /\ ~link /\ procedure = NoProcedure
    /\ \A i \in Nat : /\ ~Ended(i)
                      /\ ~Queued(i, "connection_opened")
                      /\ ~Queued(i, "connection_closed")

ReportsPlain ==
    \A i \in Nat : Queued(i, "scan_report") => events[i] \in {ScanReport(0), ScanReport(1)}

OneReport ==
    \A i \in Nat : Report(i) => scanning /\ \A j \in Nat : Report(j) => j = i

\* While the client scans, or is to begin with it, nothing else goes on ...
BeforeConnection ==
    scanning \/ (\E i \in Nat : Queued(i, "system_boot")) => Between /\ ~opening

\* ... nor while it connects.
DuringOpening == opening => Between

\* The first procedure of a connection is started by its first event.
OpenedAlone ==
    \A i \in Nat : Queued(i, "connection_opened")
        => /\ procedure = NoProcedure
           /\ \A j \in Nat : ~Ended(j) /\ (Queued(j, "connection_opened") => j = i)

\* Nothing happens after the end of a connection until it is handled.
ClosedEnds ==
    \A i \in Nat : Queued(i, "connection_closed")
        => /\ ~link /\ ~opening /\ procedure = NoProcedure
           /\ \A j \in Nat : j > i => /\ ~Ended(j)
                                     /\ ~Queued(j, "connection_opened")
                                     /\ ~Queued(j, "connection_closed")

\* The next procedure waits until the end of the last one is handled.
EndedOnce ==
    \A i \in Nat : Ended(i)
        => procedure = NoProcedure /\ \A j \in Nat : Ended(j) => j = i

\* The inductive invariant on procedures: one connection after the other, and in
\* each one procedure after the other.
ProcedureInv ==
    /\ ReportsPlain
    /\ OneReport
    /\ BeforeConnection
    /\ DuringOpening
    /\ OpenedAlone
    /\ ClosedEnds
    /\ EndedOnce

\* Reports move up when an event is taken.
LEMMA ReportsTaken ==
    ASSUME QueueTypes, NEW id, Take(id)
    PROVE  /\ \A i \in Nat : Report(i)' => i + 1 \in Nat /\ Report(i + 1)
           /\ ReportsPlain => ReportsPlain'
<1>1. /\ Len(events) \in Nat \ {0}
      /\ Len(events') = Len(events) - 1
      /\ \A i \in 1..Len(events') : events'[i] = events[i + 1]
  BY TakeFacts DEF QueueTypes
<1> QED
  BY <1>1 DEF Queued, Report, ReportsPlain

\* Posting something else than a report leaves the reports alone.
LEMMA ReportsPosted ==
    ASSUME QueueTypes, NEW e \in Events, Post(e)
    PROVE  /\ \A i \in Nat : Report(i)' => Report(i) \/ e = ScanReport(1)
           /\ ReportsPlain /\ e.id # "scan_report" => ReportsPlain'
           /\ ReportsPlain /\ e \in {ScanReport(0), ScanReport(1)} => ReportsPlain'
<1>1. /\ Len(events) \in Nat
      /\ Len(events') = Len(events) + 1
      /\ \A i \in 1..Len(events) : events'[i] = events[i]
      /\ events'[Len(events')] = e
  BY PostFacts DEF QueueTypes
<1>2. \A i \in 1..Len(events') : i \in 1..Len(events) \/ i = Len(events')
  BY <1>1
<1> QED
  BY <1>1, <1>2 DEF Queued, Report, ReportsPlain

\* The same of two events.
LEMMA ReportsPostedTwo ==
    ASSUME QueueTypes, NEW e \in Events, NEW f \in Events,
           Len(events) < MaxQueued - 1, events' = events \o <<e, f>>,
           e.id # "scan_report", f.id # "scan_report"
    PROVE  /\ \A i \in Nat : Report(i)' => Report(i)
           /\ ReportsPlain => ReportsPlain'
<1>1. /\ Len(events) \in Nat
      /\ Len(events') = Len(events) + 2
      /\ \A i \in 1..Len(events) : events'[i] = events[i]
      /\ events'[Len(events) + 1] = e
      /\ events'[Len(events) + 2] = f
  BY PostTwoFacts DEF QueueTypes
<1>2. \A i \in 1..Len(events') :
          i \in 1..Len(events) \/ i = Len(events) + 1 \/ i = Len(events) + 2
  BY <1>1
<1>3. ScanReport(1).id = "scan_report"
  BY DEF ScanReport
<1> QED
  BY <1>1, <1>2, <1>3 DEF Queued, Report, ReportsPlain

\* Reports that were queued, and no others, stay one.
LEMMA ReportsStay ==
    ASSUME OneReport, scanning', \A i \in Nat : Report(i)' => Report(i)
    PROVE  OneReport'
BY DEF OneReport

\* Taking an event that changes nothing else keeps the invariant.
LEMMA ProcedureTaken ==
    ASSUME QueueTypes, ProcedureInv, NEW id, Take(id),
           UNCHANGED <<scanning, opening, link, procedure>>
    PROVE  ProcedureInv'
<1> USE TakenShifts
<1>1. \A i \in Nat : \A d : Queued(i, d)' => i + 1 \in Nat /\ Queued(i + 1, d)
  OBVIOUS
<1>2. ReportsPlain' /\ OneReport'
  BY ReportsTaken DEF ProcedureInv, OneReport
<1>3. Between => Between'
  BY <1>1 DEF Between, Ended
<1>4. BeforeConnection' /\ DuringOpening'
  BY <1>1, <1>3 DEF ProcedureInv, BeforeConnection, DuringOpening
<1>5. OpenedAlone'
  BY <1>1 DEF ProcedureInv, OpenedAlone, Ended
<1>6. ClosedEnds'
  <2> SUFFICES ASSUME NEW i \in Nat, Queued(i, "connection_closed")'
               PROVE  /\ ~link /\ ~opening /\ procedure = NoProcedure
                      /\ \A j \in Nat : j > i => /\ ~Ended(j)'
                                                /\ ~Queued(j, "connection_opened")'
                                                /\ ~Queued(j, "connection_closed")'
    BY DEF ClosedEnds
  <2>1. /\ ~link /\ ~opening /\ procedure = NoProcedure
        /\ \A j \in Nat : j > i + 1 => /\ ~Ended(j)
                                      /\ ~Queued(j, "connection_opened")
                                      /\ ~Queued(j, "connection_closed")
    BY <1>1 DEF ProcedureInv, ClosedEnds
  <2> QED
    BY <1>1, <2>1 DEF Ended
<1>7. EndedOnce'
  BY <1>1 DEF ProcedureInv, EndedOnce, Ended
<1> QED
  BY <1>2, <1>4, <1>5, <1>6, <1>7 DEF ProcedureInv

\* A procedure is started on the event that opens the connection or that ends the
\* last procedure.
LEMMA ProcedureStarted ==
    ASSUME QueueTypes, ProcedureInv, link,
           NEW id \in {"connection_opened", "procedure_completed"}, Take(id),
           UNCHANGED <<scanning, opening, link>>
    PROVE  ProcedureInv'
<1> USE TakenShifts
<1>1. \A i \in Nat : \A d : Queued(i, d)' => i # 0 /\ i + 1 \in Nat /\ Queued(i + 1, d)
  OBVIOUS
<1>2. ReportsPlain' /\ OneReport'
  BY ReportsTaken DEF ProcedureInv, OneReport
<1>3. /\ ~scanning /\ ~opening
      /\ \A i \in Nat : ~Queued(i, "system_boot") /\ ~Queued(i, "connection_closed")
  BY DEF ProcedureInv, BeforeConnection, DuringOpening, Between, ClosedEnds
<1>4. \A i \in Nat : ~Queued(i, "system_boot")' /\ ~Queued(i, "connection_closed")'
  BY <1>1, <1>3
<1>5. BeforeConnection' /\ DuringOpening' /\ ClosedEnds'
  BY <1>3, <1>4 DEF BeforeConnection, DuringOpening, ClosedEnds
<1>6. Queued(1, id)
  OBVIOUS
<1>7. \A i \in Nat : ~Ended(i)' /\ ~Queued(i, "connection_opened")'
  <2>1. CASE id = "connection_opened"
    <3>1. \A j \in Nat : ~Ended(j) /\ (Queued(j, "connection_opened") => j = 1)
      BY <1>6, <2>1 DEF ProcedureInv, OpenedAlone
    <3> QED
      BY <1>1, <3>1 DEF Ended
  <2>2. CASE id = "procedure_completed"
    <3>1. Ended(1)
      BY <1>6, <2>2 DEF Ended
    <3>2. \A j \in Nat : (Ended(j) => j = 1) /\ ~Queued(j, "connection_opened")
      BY <3>1 DEF ProcedureInv, EndedOnce, OpenedAlone
    <3> QED
      BY <1>1, <3>2 DEF Ended
  <2> QED
    BY <2>1, <2>2
<1>8. OpenedAlone' /\ EndedOnce'
  BY <1>7 DEF OpenedAlone, EndedOnce
<1> QED
  BY <1>2, <1>5, <1>8 DEF ProcedureInv

\* The machine's part in an event: a procedure is started, or none is.
LEMMA ProcedureMachine ==
    ASSUME QueueTypes, ProcedureInv,
           NEW on \in {"connection_opened", "procedure_completed"}, Take(on),
           NEW ongoing \in BOOLEAN, Machine(on, ongoing),
           UNCHANGED <<scanning, opening, link>>
    PROVE  ProcedureInv'
<1>1. procedure' = procedure \/ link
  BY MachineFacts DEF CanStart
<1> QED
  BY <1>1, ProcedureTaken, ProcedureStarted

\* Scanning begins, at boot or after a connection.
LEMMA ScannerStarted ==
    ASSUME QueueTypes, ProcedureInv,
           NEW id \in {"system_boot", "connection_closed"}, Take(id),
           scanning', UNCHANGED <<opening, link, procedure>>
    PROVE  ProcedureInv'
<1> USE TakenShifts
<1>1. \A i \in Nat : \A d : Queued(i, d)' => i + 1 \in Nat /\ i + 1 > 1 /\ Queued(i + 1, d)
  OBVIOUS
<1>2. Queued(1, id)
  OBVIOUS
<1>3. /\ ~opening /\ ~link /\ procedure = NoProcedure
      /\ \A i \in Nat : ~Ended(i)' /\ ~Queued(i, "connection_opened")'
                                  /\ ~Queued(i, "connection_closed")'
  <2>1. CASE id = "system_boot"
    <3>1. Between /\ ~opening
      BY <1>2, <2>1 DEF ProcedureInv, BeforeConnection
    <3> QED
      BY <1>1, <3>1 DEF Between, Ended
  <2>2. CASE id = "connection_closed"
    <3>1. /\ ~link /\ ~opening /\ procedure = NoProcedure
          /\ \A j \in Nat : j > 1 => /\ ~Ended(j)
                                    /\ ~Queued(j, "connection_opened")
                                    /\ ~Queued(j, "connection_closed")
      BY <1>2, <2>2 DEF ProcedureInv, ClosedEnds
    <3> QED
      BY <1>1, <3>1 DEF Ended
  <2> QED
    BY <2>1, <2>2
<1>4. ReportsPlain' /\ OneReport'
  BY ReportsTaken DEF ProcedureInv, OneReport
<1> QED
  BY <1>3, <1>4 DEF ProcedureInv, BeforeConnection, DuringOpening, Between, OpenedAlone,
                    ClosedEnds, EndedOnce

\* A report of the server ends the scan and makes the client connect.
LEMMA ReportHandled ==
    ASSUME ~CallsMayFail, QueueTypes, ProcedureInv, BootFirst, HandleScanReport
    PROVE  ProcedureInv'
<1> USE TakenShifts DEF HandleScanReport
<1>1. CASE Head(events).value # 1
  BY <1>1, ProcedureTaken DEF app
<1>2. CASE Head(events).value = 1
  <2>0. Take("scan_report") /\ link' = link /\ procedure' = procedure
    OBVIOUS
  <2>1. Report(1)
    <3>1. Queued(1, "scan_report") /\ Head(events) = events[1] /\ 1 \in 1..Len(events)
      BY <2>0, TakeFacts DEF QueueTypes
    <3>2. events[1] \in {ScanReport(0), ScanReport(1)}
      BY <3>1 DEF ProcedureInv, ReportsPlain
    <3> QED
      BY <1>2, <3>1, <3>2 DEF Report, ScanReport
  <2>2. /\ scanning
        /\ \A j \in Nat : Report(j) => j = 1
    BY <2>1 DEF ProcedureInv, OneReport
  <2>3. Between /\ ~opening
    BY <2>2 DEF ProcedureInv, BeforeConnection
  <2>4. \A i \in Nat : \A d : Queued(i, d)' => i + 1 \in Nat /\ i + 1 # 1 /\ Queued(i + 1, d)
    BY <2>0
  <2>5. Between' /\ \A i \in Nat : ~Queued(i, "system_boot")'
    BY <2>0, <2>3, <2>4 DEF Between, Ended, BootFirst
  <2>6. ReportsPlain' /\ OneReport'
    <3>1. /\ ReportsPlain'
          /\ \A i \in Nat : Report(i)' => Report(i + 1) /\ i + 1 \in Nat
      BY <2>0, ReportsTaken DEF ProcedureInv
    <3>2. \A i \in Nat : Report(i)' => i = 0
      BY <2>2, <3>1
    <3>3. \A i \in Nat : Report(i)' => i # 0
      BY DEF Report
    <3> QED
      BY <3>1, <3>2, <3>3 DEF OneReport
  <2>7. ~scanning'
    BY <1>2 DEF scanner_stop
  <2> QED
    BY <2>5, <2>6, <2>7 DEF ProcedureInv, BeforeConnection, DuringOpening, Between,
                            OpenedAlone, ClosedEnds, EndedOnce
<1> QED
  BY <1>1, <1>2

\* Handling an event keeps the invariant on procedures.
LEMMA ProcedureEventStep ==
    ASSUME ~CallsMayFail, TypeOK, ConnectionInv, ProcedureInv, HandleEvent
    PROVE  ProcedureInv'
<1>0. QueueTypes /\ BleTypes /\ BootFirst
  BY DEF TypeOK, ConnectionInv
<1>1. CASE HandleBoot \/ HandleConnectionClosed
  BY <1>0, <1>1, ScannerStarted DEF HandleBoot, HandleConnectionClosed, scanner_start
<1>2. CASE HandleScanReport
  BY <1>0, <1>2, ReportHandled
<1>3. CASE HandleConnectionOpened
  BY <1>0, <1>3, ProcedureMachine DEF HandleConnectionOpened, BleTypes
<1>4. CASE HandleProcedureCompleted
  BY <1>0, <1>4, ProcedureMachine DEF HandleProcedureCompleted
<1>5. CASE HandleGattService \/ HandleGattCharacteristic \/ HandleCharacteristicValue
  BY <1>0, <1>5, ProcedureTaken
  DEF HandleGattService, HandleGattCharacteristic, HandleCharacteristicValue
<1> QED
  BY <1>1, <1>2, <1>3, <1>4, <1>5 DEF HandleEvent

\* A report or a value is posted.
LEMMA OtherPosted ==
    ASSUME QueueTypes, ProcedureInv, NEW e \in Events, Post(e), OneReport', ReportsPlain',
           e.id \in {"scan_report", "characteristic_value"},
           UNCHANGED <<scanning, opening, link, procedure>>
    PROVE  ProcedureInv'
<1>1. \A i \in Nat : \A d : d \notin {"scan_report", "characteristic_value"}
          => (Queued(i, d)' <=> Queued(i, d))
  BY PostedStays
<1> QED
  BY <1>1 DEF ProcedureInv, BeforeConnection, DuringOpening, Between, OpenedAlone,
              ClosedEnds, EndedOnce, Ended

\* The end of a procedure is posted.
LEMMA EndPosted ==
    ASSUME ProcedureInv, procedure # NoProcedure, procedure' = NoProcedure,
           NEW n \in Nat, OneReport', ReportsPlain',
           \A i \in Nat : \A d : d \in {"system_boot", "connection_opened", "connection_closed"}
               => (Queued(i, d)' <=> Queued(i, d)),
           \A i \in Nat : Ended(i)' <=> Ended(i) \/ i = n,
           UNCHANGED <<scanning, opening, link>>
    PROVE  ProcedureInv'
<1>1. /\ ~scanning /\ ~opening
      /\ \A i \in Nat : /\ ~Ended(i) /\ ~Queued(i, "system_boot")
                        /\ ~Queued(i, "connection_opened")
                        /\ ~Queued(i, "connection_closed")
  BY DEF ProcedureInv, BeforeConnection, DuringOpening, Between, OpenedAlone, ClosedEnds,
         EndedOnce
<1> QED
  BY <1>1 DEF ProcedureInv, BeforeConnection, DuringOpening, OpenedAlone, ClosedEnds,
              EndedOnce

\* The end of a connection is posted, perhaps behind that of a procedure.
LEMMA CloseQueued ==
    ASSUME ProcedureInv, opening \/ link, ~opening', ~link', procedure' = NoProcedure,
           scanning' = scanning, OneReport', ReportsPlain',
           NEW n \in Nat, NEW m \in Nat, n <= m,
           \A i \in Nat : \A d : d \in {"system_boot", "connection_opened"}
               => (Queued(i, d)' <=> Queued(i, d)),
           \A i \in Nat : Queued(i, "connection_closed")'
               <=> Queued(i, "connection_closed") \/ i = m,
           \A i \in Nat : Ended(i)' =>
               Ended(i) \/ (procedure # NoProcedure /\ i = n),
           \A i \in Nat : \A d : Queued(i, d) => i < n
    PROVE  ProcedureInv'
<1>1. /\ ~scanning
      /\ \A i \in Nat : ~Queued(i, "system_boot") /\ ~Queued(i, "connection_closed")
      /\ procedure # NoProcedure =>
             \A i \in Nat : ~Ended(i) /\ ~Queued(i, "connection_opened")
  BY DEF ProcedureInv, BeforeConnection, DuringOpening, Between, OpenedAlone, ClosedEnds,
         EndedOnce
<1>2. BeforeConnection' /\ DuringOpening'
  BY <1>1 DEF BeforeConnection, DuringOpening
<1>3. OpenedAlone'
  BY <1>1 DEF ProcedureInv, OpenedAlone
<1>4. \A i \in Nat : Queued(i, "connection_closed")' => i = m
  BY <1>1
<1>5. \A j \in Nat : j > m => ~Ended(j)' /\ ~Queued(j, "connection_opened")'
  BY DEF Ended
<1>6. ClosedEnds'
  BY <1>4, <1>5 DEF ClosedEnds
<1>7. EndedOnce'
  BY <1>1 DEF ProcedureInv, EndedOnce
<1> QED
  BY <1>2, <1>3, <1>6, <1>7 DEF ProcedureInv

\* The stack and the server take turns with the firmware.
LEMMA ProcedureEnvironmentStep ==
    ASSUME ~LateReports, TypeOK, ConnectionInv, ProcedureInv, Environment
    PROVE  ProcedureInv'
<1>0. QueueTypes /\ DiscoveryTypes /\ StackTypes
  BY DEF TypeOK
<1>1. scanning' = scanning
  BY EnvironmentFrame
<1>2. /\ \A id \in EventIds : Plain(id) \in Events /\ Plain(id).id = id
      /\ {"procedure_completed", "connection_opened", "connection_closed"}
             \subseteq EventIds
  BY PostedEvents DEF Plain, EventIds
<1>3. Len(events) \in Nat
  BY <1>0 DEF QueueTypes
<1>4. CASE AdvertiserSeen
  <2>1. PICK v \in 0..1 :
            /\ Post(ScanReport(v))
            /\ v = 1 => \A i \in 1..Len(events) : events[i] # ScanReport(1)
    BY <1>4 DEF AdvertiserSeen
  <2>2. /\ ScanReport(v) \in Events /\ ScanReport(v).id = "scan_report"
        /\ ScanReport(v) \in {ScanReport(0), ScanReport(1)}
        /\ v = 0 => ScanReport(v) # ScanReport(1)
    BY PostedEvents DEF ScanReport
  <2>3. /\ ReportsPlain'
        /\ \A i \in Nat : Report(i)' => Report(i) \/ ScanReport(v) = ScanReport(1)
    BY <1>0, <2>1, <2>2, ReportsPosted DEF ProcedureInv
  <2>4. scanning' /\ UNCHANGED <<opening, link, procedure>>
    BY <1>1, <1>4 DEF AdvertiserSeen
  <2>5. OneReport'
    <3>1. CASE v = 0
      BY <2>2, <2>3, <2>4, <3>1, ReportsStay DEF ProcedureInv
    <3>2. CASE v = 1
      <4>1. \A i \in 1..Len(events) : events[i] # ScanReport(1) /\ events'[i] = events[i]
        BY <1>0, <2>1, <2>2, <3>2, PostFacts DEF QueueTypes
      <4>2. Len(events') = Len(events) + 1
        BY <1>0, <2>1, <2>2, PostFacts DEF QueueTypes
      <4>3. \A i \in Nat : Report(i)' => i = Len(events) + 1
        BY <1>3, <4>1, <4>2 DEF Report
      <4> QED
        BY <2>4, <4>3 DEF OneReport
    <3> QED
      BY <3>1, <3>2
  <2> QED
    BY <1>0, <1>1, <2>1, <2>2, <2>3, <2>4, <2>5, OtherPosted
<1>5. CASE ServerIndicates
  <2>1. PICK c \in cccd, v \in 0..1 : Post(ValueEvent(c, v))
    BY <1>5 DEF ServerIndicates
  <2>2. /\ ValueEvent(c, v) \in Events
        /\ ValueEvent(c, v).id = "characteristic_value"
        /\ ValueEvent(c, v) # ScanReport(1)
    BY <1>0, PostedEvents DEF ValueEvent, ScanReport, StackTypes, Handles
  <2>3. ReportsPlain' /\ OneReport'
    BY <1>0, <1>1, <2>1, <2>2, ReportsPosted DEF ProcedureInv, OneReport
  <2> QED
    BY <1>0, <1>1, <1>5, <2>1, <2>2, <2>3, OtherPosted DEF ServerIndicates
<1>6. CASE ConnectionOpens
  <2>1. Post(Plain("connection_opened")) /\ opening /\ ~opening' /\ procedure' = procedure
    BY <1>6 DEF ConnectionOpens
  <2>2. Between /\ ~scanning /\ \A i \in Nat : ~Queued(i, "system_boot")
    BY <2>1 DEF ProcedureInv, BeforeConnection, DuringOpening
  <2>3. /\ \A i \in Nat : \A d : d # "connection_opened" => (Queued(i, d)' <=> Queued(i, d))
        /\ \A i \in Nat : Queued(i, "connection_opened")' => i = Len(events) + 1
    BY <1>0, <1>2, <2>1, <2>2, PostedStays DEF Between
  <2>4. ReportsPlain' /\ OneReport'
    <3>1. Plain("connection_opened") # ScanReport(1)
      BY DEF Plain, ScanReport
    <3> QED
      BY <1>0, <1>1, <1>2, <2>1, <3>1, ReportsPosted DEF ProcedureInv, OneReport
  <2> QED
    BY <1>1, <2>1, <2>2, <2>3, <2>4
    DEF ProcedureInv, BeforeConnection, DuringOpening, Between, OpenedAlone, ClosedEnds,
        EndedOnce, Ended
<1>7. CASE ConnectionLost
  <2>1. (opening \/ link) /\ ~opening' /\ ~link' /\ procedure' = NoProcedure
    BY <1>7 DEF ConnectionLost
  <2>2. \A i \in Nat : \A d : Queued(i, d) => i < Len(events) + 1
    BY <1>3 DEF Queued
  <2>3. Plain("connection_closed") # ScanReport(1)
    BY DEF Plain, ScanReport
  <2>4. CASE Post(Plain("connection_closed"))
    <3>1. /\ \A i \in Nat : \A d : d # "connection_closed" => (Queued(i, d)' <=> Queued(i, d))
          /\ \A i \in Nat : Queued(i, "connection_closed")'
                 <=> Queued(i, "connection_closed") \/ i = Len(events) + 1
      BY <1>0, <1>2, <2>4, PostedStays
    <3>2. ReportsPlain' /\ OneReport'
      BY <1>0, <1>1, <1>2, <2>3, <2>4, ReportsPosted DEF ProcedureInv, OneReport
    <3>3. \A i \in Nat : Ended(i)' => Ended(i)
      BY <3>1 DEF Ended
    <3>4. PICK n \in Nat : n = Len(events) + 1
      BY <1>3
    <3>5. /\ \A i \in Nat : \A d : d \in {"system_boot", "connection_opened"}
                 => (Queued(i, d)' <=> Queued(i, d))
          /\ \A i \in Nat : Queued(i, "connection_closed")'
                 <=> Queued(i, "connection_closed") \/ i = n
          /\ \A i \in Nat : Ended(i)' => Ended(i) \/ (procedure # NoProcedure /\ i = n)
      BY <3>1, <3>3, <3>4
    <3>6. n <= n
      OBVIOUS
    <3> QED
      BY <1>1, <2>1, <2>2, <3>2, <3>4, <3>5, <3>6, CloseQueued
  <2>5. CASE /\ procedure # NoProcedure
             /\ Len(events) < MaxQueued - 1
             /\ events' = events \o <<Plain("procedure_completed"),
                                      Plain("connection_closed")>>
    <3>1. \A i \in Nat : \A d : Queued(i, d)' <=>
              \/ Queued(i, d)
              \/ i = Len(events) + 1 /\ d = "procedure_completed"
              \/ i = Len(events) + 2 /\ d = "connection_closed"
      BY <1>0, <1>2, <2>5, PostedTwoStay
    <3>2. ReportsPlain' /\ OneReport'
      BY <1>0, <1>1, <1>2, <2>5, ReportsPostedTwo DEF ProcedureInv, OneReport
    <3>3. PICK n \in Nat : n = Len(events) + 1
      BY <1>3
    <3>4. PICK m \in Nat : m = n + 1
      OBVIOUS
    <3>5. /\ \A i \in Nat : \A d : d \in {"system_boot", "connection_opened"}
                 => (Queued(i, d)' <=> Queued(i, d))
          /\ \A i \in Nat : Queued(i, "connection_closed")'
                 <=> Queued(i, "connection_closed") \/ i = m
          /\ \A i \in Nat : Ended(i)' => Ended(i) \/ (procedure # NoProcedure /\ i = n)
      BY <1>3, <2>5, <3>1, <3>3, <3>4 DEF Ended
    <3>6. n <= m
      BY <3>4
    <3> QED
      BY <1>1, <2>1, <2>2, <3>2, <3>3, <3>5, <3>6, CloseQueued
  <2> QED
    BY <1>7, <2>4, <2>5 DEF ConnectionLost
<1>8. CASE ProcedureFinds
  <2> DEFINE id == IF procedure.kind = "service" THEN "gatt_service"
                                                 ELSE "gatt_characteristic"
  <2>1. /\ procedure \in Procedures
        /\ Found(id, procedure.char) \in Events
        /\ Found(id, procedure.char).id = id
    BY <1>0, <1>8, FoundEvents DEF EventIds, Found
  <2>2. /\ Len(events) < MaxQueued - 1 /\ procedure' = NoProcedure
        /\ events' = events \o <<Found(id, procedure.char), Plain("procedure_completed")>>
        /\ UNCHANGED <<scanning, opening, link>>
    BY <1>1, <1>8 DEF ProcedureFinds
  <2>3. procedure # NoProcedure
    BY <2>1 DEF Procedures, NoProcedure
  <2>4. \A i \in Nat : \A d : Queued(i, d)' <=>
            \/ Queued(i, d)
            \/ i = Len(events) + 1 /\ d = id
            \/ i = Len(events) + 2 /\ d = "procedure_completed"
    BY <1>0, <1>2, <2>1, <2>2, PostedTwoStay
  <2>5. ReportsPlain' /\ OneReport'
    BY <1>0, <1>1, <1>2, <2>1, <2>2, ReportsPostedTwo DEF ProcedureInv, OneReport
  <2>6. PICK n \in Nat : n = Len(events) + 2
    BY <1>3
  <2>7. /\ \A i \in Nat : \A d : d \in {"system_boot", "connection_opened", "connection_closed"}
               => (Queued(i, d)' <=> Queued(i, d))
        /\ \A i \in Nat : Ended(i)' <=> Ended(i) \/ i = n
    BY <2>4, <2>6 DEF Ended
  <2> HIDE DEF id
  <2> QED
    BY <2>2, <2>3, <2>5, <2>7, EndPosted
<1>9. CASE ProcedureEnds
  <2>1. /\ procedure # NoProcedure /\ procedure' = NoProcedure
        /\ Post(Plain("procedure_completed")) /\ UNCHANGED <<scanning, opening, link>>
    BY <1>1, <1>9 DEF ProcedureEnds
  <2>2. Plain("procedure_completed") # ScanReport(1)
    BY DEF Plain, ScanReport
  <2>3. ReportsPlain' /\ OneReport'
    BY <1>0, <1>1, <1>2, <2>1, <2>2, ReportsPosted DEF ProcedureInv, OneReport
  <2>4. \A i \in Nat : \A d : Queued(i, d)' <=>
            Queued(i, d) \/ (i = Len(events) + 1 /\ d = "procedure_completed")
    BY <1>0, <1>2, <2>1, PostedStays
  <2>5. PICK n \in Nat : n = Len(events) + 1
    BY <1>3
  <2>6. /\ \A i \in Nat : \A d : d \in {"system_boot", "connection_opened", "connection_closed"}
               => (Queued(i, d)' <=> Queued(i, d))
        /\ \A i \in Nat : Ended(i)' <=> Ended(i) \/ i = n
    BY <2>4, <2>5 DEF Ended
  <2> QED
    BY <2>1, <2>3, <2>6, EndPosted
<1> QED
  BY <1>4, <1>5, <1>6, <1>7, <1>8, <1>9 DEF Environment

\* Where the boot event and the first link leave room for nothing else.
LEMMA ProcedureInit == Starts => ProcedureInv
<1> SUFFICES ASSUME Starts PROVE ProcedureInv
  OBVIOUS
<1>1. /\ events = <<Plain("system_boot")>> /\ Plain("system_boot").id = "system_boot"
      /\ ~scanning /\ ~opening /\ ~link /\ procedure = NoProcedure
  BY DEF Starts, Plain
<1>2. \A i \in Nat : \A d : Queued(i, d) => d = "system_boot"
  BY <1>1 DEF Queued
<1>3. \A i \in Nat : ~Report(i)
  BY <1>1 DEF Report, ScanReport
<1> QED
  BY <1>1, <1>2, <1>3
  DEF ProcedureInv, ReportsPlain, OneReport, BeforeConnection, DuringOpening, Between,
      OpenedAlone, ClosedEnds, EndedOnce, Ended

\* Every step keeps the invariant on procedures.
LEMMA ProcedureStep ==
    ~CallsMayFail /\ ~LateReports /\ TypeOK /\ ConnectionInv /\ ProcedureInv /\ [Next]_vars
        => ProcedureInv'
<1>1. ASSUME ProcedureInv, UNCHANGED vars
      PROVE  ProcedureInv'
  <2>1. UNCHANGED <<events, scanning, opening, link, procedure>>
    BY <1>1 DEF vars
  <2> QED
    BY <1>1, <2>1
    DEF ProcedureInv, ReportsPlain, OneReport, BeforeConnection, DuringOpening, Between,
        OpenedAlone, ClosedEnds, EndedOnce, Ended, Report, Queued
<1> QED
  BY <1>1, ProcedureEventStep, ProcedureEnvironmentStep DEF Next

\* A connection opens only when the end of the last one has been handled, if the
\* scanner stops when it is told to (handle_ble_event) and one report of the server
\* at most is queued: what DiscoveryCompletes asks for.
THEOREM ConnectionsApart ==
    ~CallsMayFail /\ ~LateReports => (Spec => []~Overlapping)
<1> SUFFICES ASSUME ~CallsMayFail, ~LateReports PROVE Spec => []~Overlapping
  OBVIOUS
<1>1. TypeOK /\ ConnectionInv /\ ProcedureInv /\ [Next]_vars => ProcedureInv'
  BY ProcedureStep
<1>2. Init => ProcedureInv
  BY ProcedureInit DEF Init
<1>3. ASSUME TypeOK, ProcedureInv
      PROVE  ~Overlapping
  <2> SUFFICES ASSUME NEW i \in 1..Len(events), NEW j \in 1..Len(events), i < j,
                      events[i].id = "connection_closed",
                      events[j].id = "connection_opened"
               PROVE  FALSE
    BY DEF Overlapping
  <2>1. i \in Nat /\ j \in Nat
    BY <1>3 DEF TypeOK, QueueTypes
  <2> QED
    BY <1>3, <2>1 DEF ProcedureInv, ClosedEnds, Queued
<1> QED
  BY <1>1, <1>2, <1>3, ConnectionInvariant, PTL DEF Spec

-----------------------------------------------------------------------------
(* A discovery that is answered                                            *)

\* A result about the light sensor is queued here.
Result(i, id) == Queued(i, id) /\ events[i].char = "light"

\* A procedure about the light sensor runs, or its end is queued ...
Underway(kind) ==
    procedure = [kind |-> kind, char |-> "light"] \/ \E i \in Nat : Ended(i)

\* ... and then what it was to find is known, or will be by then.
Known(handle, id) ==
    \A i \in Nat : Ended(i)
        => handle["light"] # "none" \/ \E j \in Nat : j < i /\ Result(j, id)

\* Where the discovery stands in a connection in which the server has answered so
\* far: the connection's opening is still to be handled, a step of the discovery is
\* under way, or the subscription is asked for or made.
OnCourse ==
    \/ \E i \in Nat : Queued(i, "connection_opened")
    \/ /\ connected
       /\ \/ /\ nextState = "light_Getservice"
             /\ Underway("service")
             /\ Known(service_handle, "gatt_service")
          \/ /\ nextState = "light_Getchars"
             /\ Underway("chars")
             /\ Known(chars_handle, "gatt_characteristic")
          \/ /\ nextState = "smoke_discover"
             /\ procedure = [kind |-> "notify", char |-> "light"] \/ "light" \in cccd

\* Results move up, and stay where they are.
LEMMA ResultsTaken ==
    ASSUME QueueTypes, NEW id, Take(id)
    PROVE  \A i \in Nat : \A d : Result(i, d) /\ i # 1 => i - 1 \in Nat /\ Result(i - 1, d)'
<1>1. /\ Len(events) \in Nat \ {0}
      /\ Len(events') = Len(events) - 1
      /\ \A i \in 1..Len(events') : events'[i] = events[i + 1]
  BY TakeFacts DEF QueueTypes
<1> QED
  BY <1>1 DEF Result, Queued

LEMMA ResultsPosted ==
    ASSUME QueueTypes, Environment, TypeOK
    PROVE  \A i \in Nat : \A d : Result(i, d) => Result(i, d)'
<1>1. Len(events) \in Nat
  BY DEF QueueTypes
<1>2. CASE \E e \in Events : Post(e)
  BY <1>1, <1>2, PostFacts DEF QueueTypes, Result, Queued
<1>3. CASE \E e, f \in Events : /\ Len(events) < MaxQueued - 1
                                /\ events' = events \o <<e, f>>
  BY <1>1, <1>3, PostTwoFacts DEF QueueTypes, Result, Queued
<1> QED
  BY <1>2, <1>3, EnvironmentPosts

\* The rows of the table that an answered discovery goes through.
LEMMA CourseTransitions ==
    \A t \in Transitions :
        /\ t.from = "Idle" => t.call = [kind |-> "service", char |-> "light"]
                              /\ t.to = "light_Getservice"
        /\ t.from = "light_Getservice" => t.call = [kind |-> "chars", char |-> "light"]
                                          /\ t.to = "light_Getchars"
        /\ t.from = "light_Getchars" => t.call = [kind |-> "notify", char |-> "light"]
                                        /\ t.to = "smoke_discover"
        /\ t.from = "smoke_discover" => t.on = "connection_opened"
BY DEF Transitions, Transition

\* Each of them is taken on its event.
LEMMA CourseEnabled ==
    /\ nextState = "Idle" => Enabled("connection_opened") # {}
    /\ nextState \in {"light_Getservice", "light_Getchars"}
           => Enabled("procedure_completed") # {}
<1>1. Transition("Idle", "connection_opened", "service", "light", "light_Getservice")
          \in Transitions
  BY DEF Transitions
<1>2. Transition("light_Getservice", "procedure_completed", "chars", "light",
                 "light_Getchars") \in Transitions
  BY DEF Transitions
<1>3. Transition("light_Getchars", "procedure_completed", "notify", "light",
                 "smoke_discover") \in Transitions
  BY DEF Transitions
<1> QED
  BY <1>1, <1>2, <1>3 DEF Enabled, Transition

\* The machine makes a call that the stack can carry out, and it is.
LEMMA CallMade ==
    ASSUME ~CallsMayFail, NEW on, NEW ongoing, Machine(on, ongoing), Enabled(on) # {},
           NEW p, CanStart(p), p.kind # "none", NEW to,
           \A t \in Enabled(on) : t.call = p /\ t.to = to
    PROVE  procedure' = p /\ nextState' = to
BY DEF Machine, Call

\* An event is handled that neither opens a connection nor ends a procedure.
LEMMA OnCourseTaken ==
    ASSUME QueueTypes, OnCourse,
           NEW id, id \notin {"connection_opened", "procedure_completed"}, Take(id),
           UNCHANGED <<connected, nextState, procedure, cccd>>,
           service_handle["light"] # "none" => service_handle'["light"] # "none",
           Result(1, "gatt_service") => service_handle'["light"] # "none",
           chars_handle["light"] # "none" => chars_handle'["light"] # "none",
           Result(1, "gatt_characteristic") => chars_handle'["light"] # "none"
    PROVE  OnCourse'
<1>1. \A i \in Nat : \A d : Queued(i, d)' => i + 1 \in Nat /\ Queued(i + 1, d)
  BY TakenShifts
<1>2. \A i \in Nat : \A d : Queued(i, d) /\ d # id => i - 1 \in Nat /\ Queued(i - 1, d)'
  BY TakenShifts
<1>3. \A i \in Nat : Ended(i) => i - 1 \in Nat /\ Ended(i - 1)'
  BY <1>2 DEF Ended
<1>4. \A i \in Nat : Ended(i)' => i + 1 \in Nat /\ Ended(i + 1)
  BY <1>1 DEF Ended
<1>5. \A kind : Underway(kind) => Underway(kind)'
  BY <1>3 DEF Underway
<1>6. ASSUME NEW i \in Nat, NEW j \in Nat, j < i + 1, NEW d, Result(j, d)
      PROVE  Result(1, d) \/ \E k \in Nat : k < i /\ Result(k, d)'
  BY <1>6, ResultsTaken
<1>7. Known(service_handle, "gatt_service") => Known(service_handle, "gatt_service")'
  BY <1>4, <1>6 DEF Known
<1>8. Known(chars_handle, "gatt_characteristic")
          => Known(chars_handle, "gatt_characteristic")'
  BY <1>4, <1>6 DEF Known
<1> QED
  BY <1>2, <1>5, <1>7, <1>8 DEF OnCourse

\* The opening of a connection is handled: the service is asked for.
LEMMA OnCourseOpened ==
    ASSUME ~CallsMayFail, TypeOK, ConnectionInv, ProcedureInv, link,
           HandleConnectionOpened
    PROVE  OnCourse'
<1>0. QueueTypes /\ ConnectionsInQueue
  BY DEF TypeOK, ConnectionInv, ConnectionsInQueue
<1>1. /\ Take("connection_opened") /\ connected' /\ link' = link
      /\ Machine("connection_opened", gatt_procedure_ongoing)
  BY DEF HandleConnectionOpened
<1>2. nextState = "Idle"
  BY <1>0, <1>1, OpenedTaken DEF ConnectionInv, MachineFollowsConnection
<1>3. Queued(1, "connection_opened")
  BY <1>0, <1>1, TakenShifts
<1>4. procedure = NoProcedure /\ \A i \in Nat : ~Ended(i)
  BY <1>3 DEF ProcedureInv, OpenedAlone
<1>5. CanStart([kind |-> "service", char |-> "light"])
  BY <1>4 DEF CanStart
<1>6. /\ procedure' = [kind |-> "service", char |-> "light"]
      /\ nextState' = "light_Getservice"
  <2>1. \A t \in Enabled("connection_opened") :
            /\ t.call = [kind |-> "service", char |-> "light"]
            /\ t.to = "light_Getservice"
    BY <1>2, CourseTransitions DEF Enabled
  <2> QED
    BY <1>1, <1>2, <1>5, <2>1, CourseEnabled, CallMade
<1>7. \A i \in Nat : ~Ended(i)'
  BY <1>0, <1>1, <1>4, TakenShifts DEF Ended
<1> QED
  BY <1>1, <1>6, <1>7 DEF OnCourse, Underway, Known

\* The end of a procedure is handled: the next one is asked for, with the handle
\* that the last one found.
LEMMA OnCourseCompleted ==
    ASSUME ~CallsMayFail, TypeOK, ConnectionInv, ProcedureInv, link, OnCourse,
           HandleProcedureCompleted
    PROVE  OnCourse'
<1>0. QueueTypes
  BY DEF TypeOK
<1>1. /\ Take("procedure_completed") /\ Machine("procedure_completed", FALSE)
      /\ UNCHANGED <<connected, service_handle, chars_handle, cccd, link>>
  BY DEF HandleProcedureCompleted, peer
<1>2. Ended(1)
  BY <1>0, <1>1, TakenShifts DEF Ended
<1>3. /\ procedure = NoProcedure
      /\ \A i \in Nat : (Ended(i) => i = 1) /\ ~Queued(i, "connection_opened")
  BY <1>2 DEF ProcedureInv, EndedOnce, OpenedAlone
<1>4. \A i \in Nat : ~Ended(i)'
  <2>1. \A i \in Nat : Ended(i)' => i # 0 /\ i + 1 \in Nat /\ Ended(i + 1)
    BY <1>0, <1>1, TakenShifts DEF Ended
  <2> QED
    BY <1>3, <2>1
<1>5. \A j \in Nat : \A d : j < 1 => ~Result(j, d)
  BY DEF Result, Queued
<1>6. CASE nextState = "light_Getservice" /\ Known(service_handle, "gatt_service")
  <2>1. CanStart([kind |-> "chars", char |-> "light"])
    BY <1>2, <1>3, <1>5, <1>6 DEF CanStart, Known
  <2>2. \A t \in Enabled("procedure_completed") :
            t.call = [kind |-> "chars", char |-> "light"] /\ t.to = "light_Getchars"
    BY <1>6, CourseTransitions DEF Enabled
  <2>3. /\ procedure' = [kind |-> "chars", char |-> "light"]
        /\ nextState' = "light_Getchars"
    BY <1>1, <1>6, <2>1, <2>2, CourseEnabled, CallMade
  <2> QED
    BY <1>1, <1>3, <1>4, <2>3 DEF OnCourse, Underway, Known
<1>7. CASE nextState = "light_Getchars" /\ Known(chars_handle, "gatt_characteristic")
  <2>1. CanStart([kind |-> "notify", char |-> "light"])
    BY <1>2, <1>3, <1>5, <1>7 DEF CanStart, Known
  <2>2. \A t \in Enabled("procedure_completed") :
            t.call = [kind |-> "notify", char |-> "light"] /\ t.to = "smoke_discover"
    BY <1>7, CourseTransitions DEF Enabled
  <2>3. /\ procedure' = [kind |-> "notify", char |-> "light"]
        /\ nextState' = "smoke_discover"
    BY <1>1, <1>7, <2>1, <2>2, CourseEnabled, CallMade
  <2> QED
    BY <1>1, <1>3, <2>3 DEF OnCourse
<1>8. CASE nextState = "smoke_discover" /\ "light" \in cccd
  <2>1. Enabled("procedure_completed") = {}
    BY <1>8, CourseTransitions DEF Enabled
  <2> QED
    BY <1>1, <1>3, <1>8, <2>1 DEF Machine, OnCourse
<1> QED
  BY <1>3, <1>6, <1>7, <1>8 DEF OnCourse, NoProcedure

\* Whichever event is handled while there is a link, the discovery stays on course.
LEMMA OnCourseEvent ==
    ASSUME ~CallsMayFail, TypeOK, ConnectionInv, ProcedureInv, link, OnCourse, HandleEvent
    PROVE  OnCourse'
<1>0. QueueTypes /\ BleTypes
  BY DEF TypeOK
<1>1. ~HandleBoot /\ ~HandleConnectionClosed
  <2>1. \A i \in Nat : ~Queued(i, "system_boot") /\ ~Queued(i, "connection_closed")
    BY DEF ProcedureInv, BeforeConnection, Between, ClosedEnds
  <2> QED
    BY <1>0, <2>1, TakenShifts DEF HandleBoot, HandleConnectionClosed
<1>2. CASE HandleScanReport \/ HandleCharacteristicValue
  <2>1. /\ \E id \in {"scan_report", "characteristic_value"} :
               Take(id) /\ Queued(1, id)
        /\ UNCHANGED <<connected, nextState, procedure, cccd, service_handle, chars_handle>>
    BY <1>0, <1>2, TakenShifts
    DEF HandleScanReport, HandleCharacteristicValue, app, bleData, peer
  <2>2. ~Result(1, "gatt_service") /\ ~Result(1, "gatt_characteristic")
    BY <2>1 DEF Result, Queued
  <2> QED
    BY <1>0, <2>1, <2>2, OnCourseTaken
<1>3. CASE HandleGattService
  <2>1. /\ Take("gatt_service") /\ Head(events) = events[1]
        /\ Head(events).char \in Handles
        /\ service_handle' = [service_handle EXCEPT ![Head(events).char] = Head(events).char]
        /\ UNCHANGED <<connected, nextState, procedure, cccd, chars_handle>>
    BY <1>0, <1>3, TakeFacts, HeadIsEvent DEF HandleGattService, peer, QueueTypes
  <2>2. ~Result(1, "gatt_characteristic")
    BY <1>0, <2>1, TakenShifts DEF Result, Queued
  <2>3. /\ service_handle["light"] # "none" => service_handle'["light"] # "none"
        /\ Result(1, "gatt_service") => service_handle'["light"] # "none"
    BY <1>0, <2>1 DEF BleTypes, Chars, Result
  <2> QED
    BY <1>0, <2>1, <2>2, <2>3, OnCourseTaken
<1>4. CASE HandleGattCharacteristic
  <2>1. /\ Take("gatt_characteristic") /\ Head(events) = events[1]
        /\ Head(events).char \in Handles
        /\ chars_handle' = [chars_handle EXCEPT ![Head(events).char] = Head(events).char]
        /\ UNCHANGED <<connected, nextState, procedure, cccd, service_handle>>
    BY <1>0, <1>4, TakeFacts, HeadIsEvent DEF HandleGattCharacteristic, peer, QueueTypes
  <2>2. ~Result(1, "gatt_service")
    BY <1>0, <2>1, TakenShifts DEF Result, Queued
  <2>3. /\ chars_handle["light"] # "none" => chars_handle'["light"] # "none"
        /\ Result(1, "gatt_characteristic") => chars_handle'["light"] # "none"
    BY <1>0, <2>1 DEF BleTypes, Chars, Result
  <2> QED
    BY <1>0, <2>1, <2>2, <2>3, OnCourseTaken
<1> QED
  BY <1>1, <1>2, <1>3, <1>4, OnCourseOpened, OnCourseCompleted DEF HandleEvent

\* A connection opens.
LEMMA OnCourseOpens == QueueTypes /\ ConnectionOpens => OnCourse'
<1> SUFFICES ASSUME QueueTypes, ConnectionOpens PROVE OnCourse'
  OBVIOUS
<1>1. /\ Plain("connection_opened") \in Events
      /\ Plain("connection_opened").id = "connection_opened"
      /\ Post(Plain("connection_opened"))
  BY PostedEvents DEF ConnectionOpens, Plain, EventIds
<1>2. PICK n \in Nat : n = Len(events) + 1
  BY DEF QueueTypes
<1>3. Queued(n, "connection_opened")'
  BY <1>1, <1>2, PostedStays
<1> QED
  BY <1>3 DEF OnCourse

\* An answered step of the stack: something is found, the subscription is made, or
\* nothing is that concerns the discovery.
LEMMA OnCourseAnswered ==
    ASSUME TypeOK, ProcedureInv, OnCourse,
           \/ AdvertiserSeen \/ ServerIndicates \/ ProcedureFinds
           \/ /\ ProcedureEnds
              /\ procedure.kind = "notify"
              /\ cccd' = cccd \cup {procedure.char}
    PROVE  OnCourse'
<1>0. QueueTypes /\ StackTypes /\ DiscoveryTypes /\ Len(events) \in Nat
  BY DEF TypeOK, QueueTypes
<1>1. Environment
  BY DEF Environment
<1>2. UNCHANGED <<connected, nextState, service_handle, chars_handle>>
  BY <1>1, EnvironmentFrame DEF app, bleData
<1>3. \A i \in Nat : \A d : Result(i, d) => Result(i, d)'
  BY <1>0, <1>1, ResultsPosted
<1>4. \A i \in Nat : \A d : Queued(i, d) => Queued(i, d)'
  <2>1. CASE \E e \in Events : Post(e)
    BY <1>0, <2>1, PostedStays
  <2>2. CASE \E e, f \in Events : /\ Len(events) < MaxQueued - 1
                                  /\ events' = events \o <<e, f>>
    BY <1>0, <2>2, PostedTwoStay
  <2> QED
    BY <1>1, <2>1, <2>2, EnvironmentPosts
<1>5. CASE \E i \in Nat : Queued(i, "connection_opened")
  BY <1>4, <1>5 DEF OnCourse
<1>6. CASE AdvertiserSeen \/ ServerIndicates
  <2>1. UNCHANGED <<procedure, cccd>>
    BY <1>6 DEF AdvertiserSeen, ServerIndicates, peer
  <2>2. \A i \in Nat : Ended(i)' => Ended(i)
    <3>1. PICK e \in Events : Post(e) /\ e.id # "procedure_completed"
      <4>1. CASE AdvertiserSeen
        BY <4>1, PostedEvents DEF AdvertiserSeen, ScanReport
      <4>2. CASE ServerIndicates
        <5>1. PICK c \in cccd, v \in 0..1 : Post(ValueEvent(c, v))
          BY <4>2 DEF ServerIndicates
        <5>2. ValueEvent(c, v) \in Events
          BY <1>0, <5>1, PostedEvents DEF StackTypes, Handles
        <5>3. ValueEvent(c, v).id # "procedure_completed"
          BY DEF ValueEvent
        <5> QED
          BY <5>1, <5>2, <5>3
      <4> QED
        BY <1>6, <4>1, <4>2
    <3> QED
      BY <1>0, <3>1, PostedStays DEF Ended
  <2>3. \A i \in Nat : Ended(i) => Ended(i)'
    BY <1>4 DEF Ended
  <2> QED
    BY <1>2, <1>3, <1>4, <2>1, <2>2, <2>3 DEF OnCourse, Underway, Known
<1>7. CASE ProcedureFinds
  <2>1. /\ procedure.kind \in {"service", "chars"} /\ procedure # NoProcedure
        /\ cccd' = cccd
    BY <1>7 DEF ProcedureFinds, NoProcedure, peer
  <2>2. \A i \in Nat : ~Ended(i)
    BY <2>1 DEF ProcedureInv, EndedOnce
  <2>3. PICK id : id = IF procedure.kind = "service" THEN "gatt_service"
                                                      ELSE "gatt_characteristic"
    OBVIOUS
  <2>4. /\ Len(events) < MaxQueued - 1
        /\ events' = events \o <<Found(id, procedure.char), Plain("procedure_completed")>>
        /\ Found(id, procedure.char) \in Events /\ Found(id, procedure.char).id = id
        /\ Found(id, procedure.char).char = procedure.char
    BY <1>0, <1>7, <2>3, FoundEvents DEF ProcedureFinds, EventIds, Found
  <2>5. /\ Plain("procedure_completed") \in Events
        /\ Plain("procedure_completed").id = "procedure_completed"
    BY PostedEvents DEF Plain, EventIds
  <2>6. PICK n \in Nat : n = Len(events) + 1
    BY <1>0
  <2>7. /\ events'[n] = Found(id, procedure.char)
        /\ Len(events') = n + 1
    BY <1>0, <2>4, <2>5, <2>6, PostTwoFacts DEF QueueTypes
  <2>8. /\ Ended(n + 1)'
        /\ \A i \in Nat : Ended(i)' => i = n + 1
    <3>1. /\ Found(id, procedure.char).id # "procedure_completed"
          /\ Len(events) + 2 = n + 1 /\ n + 1 \in Nat
      BY <1>0, <2>4, <2>6, <2>3
    <3>2. \A i \in Nat : \A d : Queued(i, d)' <=>
              \/ Queued(i, d)
              \/ i = Len(events) + 1 /\ d = Found(id, procedure.char).id
              \/ i = Len(events) + 2 /\ d = Plain("procedure_completed").id
      BY <1>0, <2>4, <2>5, PostedTwoStay
    <3> QED
      BY <2>2, <2>5, <3>1, <3>2 DEF Ended
  <2>9. procedure.char = "light" => Result(n, id)'
    <3>1. n \in 1..Len(events')
      BY <1>0, <2>6, <2>7
    <3> QED
      BY <2>4, <2>7, <3>1 DEF Result, Queued
  <2>10. n \in Nat /\ n + 1 \in Nat /\ n < n + 1
    BY <2>6
  <2>11. CASE nextState = "light_Getservice" /\ Underway("service") /\ connected
    <3>1. procedure.char = "light" /\ procedure.kind = "service"
      BY <2>2, <2>11 DEF Underway
    <3>2. id = "gatt_service"
      BY <2>3, <3>1
    <3>3. Underway("service")'
      BY <2>8, <2>10 DEF Underway
    <3>4. Result(n, "gatt_service")'
      BY <2>9, <3>1, <3>2
    <3>5. Known(service_handle, "gatt_service")'
      BY <2>8, <2>10, <3>4 DEF Known
    <3> QED
      BY <1>2, <2>11, <3>3, <3>5 DEF OnCourse
  <2>12. CASE nextState = "light_Getchars" /\ Underway("chars") /\ connected
    <3>1. procedure.char = "light" /\ procedure.kind = "chars"
      BY <2>2, <2>12 DEF Underway
    <3>2. id = "gatt_characteristic"
      BY <2>3, <3>1
    <3>3. Underway("chars")'
      BY <2>8, <2>10 DEF Underway
    <3>4. Result(n, "gatt_characteristic")'
      BY <2>9, <3>1, <3>2
    <3>5. Known(chars_handle, "gatt_characteristic")'
      BY <2>8, <2>10, <3>4 DEF Known
    <3> QED
      BY <1>2, <2>12, <3>3, <3>5 DEF OnCourse
  <2>13. CASE nextState = "smoke_discover" /\ "light" \in cccd /\ connected
    BY <1>2, <2>1, <2>13 DEF OnCourse
  <2> QED
    BY <1>5, <2>1, <2>11, <2>12, <2>13 DEF OnCourse
<1>8. CASE /\ ProcedureEnds
           /\ procedure.kind = "notify"
           /\ cccd' = cccd \cup {procedure.char}
  <2>1. \A i \in Nat : ~Ended(i)
    BY <1>8 DEF ProcedureEnds, ProcedureInv, EndedOnce
  <2>2. /\ ~Underway("service") /\ ~Underway("chars")
    BY <1>8, <2>1 DEF Underway
  <2> QED
    BY <1>2, <1>5, <1>8, <2>2 DEF OnCourse
<1> QED
  BY <1>6, <1>7, <1>8

\* With nothing left to be done the client has what it came for.
LEMMA CourseDone ==
    OnCourse /\ events = <<>> /\ procedure = NoProcedure
        => connected /\ nextState = "smoke_discover" /\ "light" \in cccd
<1>1. events = <<>> => \A i \in Nat : \A d : ~Queued(i, d)
  <2>1. events = <<>> => Len(events) = 0
    OBVIOUS
  <2> QED
    BY <2>1 DEF Queued
<1> QED
  BY <1>1 DEF OnCourse, Underway, Ended, NoProcedure

-----------------------------------------------------------------------------
(* What the other node has to do with it                                   *)

\* handle_ble_event changes neither the link nor the subscription.
LEMMA LinkHandled == HandleEvent => UNCHANGED <<link, cccd>>
BY DEF HandleEvent, HandleBoot, HandleScanReport, HandleConnectionOpened,
       HandleConnectionClosed, HandleGattService, HandleGattCharacteristic,
       HandleProcedureCompleted, HandleCharacteristicValue, peer

\* Without a link there is no procedure and no subscription.
LinkOwns == ~link => procedure = NoProcedure /\ cccd = {}

LEMMA LinkOwnsInit == Starts => LinkOwns
BY DEF Starts, LinkOwns

\* They go with the link, and a procedure is only started on one.
LEMMA LinkOwnsStep == LinkOwns /\ [Next]_vars => LinkOwns'
<1> SUFFICES ASSUME LinkOwns, [Next]_vars PROVE LinkOwns'
  OBVIOUS
<1>1. CASE HandleEvent
  <2>1. UNCHANGED procedure \/ link
    <3>1. \A on, ongoing : Machine(on, ongoing) => UNCHANGED procedure \/ link
      BY DEF Machine, Call, CanStart
    <3> QED
      BY <1>1, <3>1
      DEF HandleEvent, HandleBoot, HandleScanReport, HandleConnectionOpened,
          HandleConnectionClosed, HandleGattService, HandleGattCharacteristic,
          HandleProcedureCompleted, HandleCharacteristicValue
  <2> QED
    BY <1>1, <2>1, LinkHandled DEF LinkOwns
<1>2. CASE Environment
  BY <1>2 DEF Environment, AdvertiserSeen, ConnectionOpens, ConnectionLost, ProcedureFinds,
              ProcedureEnds, ServerIndicates, peer, LinkOwns
<1>3. CASE UNCHANGED vars
  BY <1>3 DEF vars, peer, LinkOwns
<1> QED
  BY <1>1, <1>2, <1>3 DEF Next

\* What the client subscribes to it has found: a value it is sent is recognised.
HandleInv ==
    /\ chars_handle["light"] \in {"none", "light"}
    /\ cccd # {} \/ procedure.kind = "notify" => chars_handle["light"] = "light"

LEMMA HandleInit == Starts => HandleInv
BY DEF Starts, HandleInv, NoProcedure, Chars

\* Handles are only ever set, to what was found.
LEMMA HandleStep ==
    TypeOK /\ ConnectionInv /\ LightInv /\ HandleInv /\ [Next]_vars => HandleInv'
<1> SUFFICES ASSUME TypeOK, ConnectionInv, LightInv, HandleInv, [Next]_vars PROVE HandleInv'
  OBVIOUS
<1>0. chars_handle \in [Chars -> Handles]
  BY DEF TypeOK, BleTypes
<1>1. CASE HandleEvent
  <2>1. chars_handle'["light"] \in {chars_handle["light"], "light"}
    <3>1. UNCHANGED chars_handle
          \/ \E c : chars_handle' = [chars_handle EXCEPT ![c] = c]
      BY <1>1
      DEF HandleEvent, HandleBoot, HandleScanReport, HandleConnectionOpened,
          HandleConnectionClosed, HandleGattService, HandleGattCharacteristic,
          HandleProcedureCompleted, HandleCharacteristicValue, app, bleData
    <3> QED
      BY <1>0, <3>1 DEF Chars
  <2>2. \/ UNCHANGED procedure
        \/ procedure'.kind # "notify"
        \/ chars_handle[procedure'.char] # "none"
    <3>1. ASSUME NEW on, NEW ongoing, Machine(on, ongoing)
          PROVE  \/ UNCHANGED procedure
                 \/ procedure'.kind # "notify"
                 \/ chars_handle[procedure'.char] # "none"
      BY <3>1 DEF Machine, Call, CanStart
    <3> QED
      BY <1>1, <3>1
      DEF HandleEvent, HandleBoot, HandleScanReport, HandleConnectionOpened,
          HandleConnectionClosed, HandleGattService, HandleGattCharacteristic,
          HandleProcedureCompleted, HandleCharacteristicValue
  <2>3. LightInv' /\ DiscoveryTypes'
    BY <1>1, TypeStep, LightEventStep DEF Next, TypeOK
  <2>4. procedure'.kind = "notify" => procedure'.char = "light"
    BY <2>3 DEF LightInv, DiscoveryTypes, Procedures, NoProcedure, Chars
  <2> QED
    BY <1>1, <2>1, <2>2, <2>4, LinkHandled DEF HandleInv
<1>2. CASE Environment
  <2>1. UNCHANGED chars_handle
    BY <1>2, EnvironmentFrame DEF app, bleData
  <2> QED
    BY <1>2, <2>1
    DEF Environment, AdvertiserSeen, ConnectionOpens, ConnectionLost, ProcedureFinds,
        ProcedureEnds, ServerIndicates, peer, HandleInv, NoProcedure
<1>3. CASE UNCHANGED vars
  BY <1>3 DEF vars, app, bleData, peer, HandleInv
<1> QED
  BY <1>1, <1>2, <1>3 DEF Next

\* One that is set stays so while events are handled.
LEMMA HandleGrows ==
    TypeOK /\ HandleEvent /\ chars_handle["light"] = "light" => chars_handle'["light"] = "light"
<1> SUFFICES ASSUME TypeOK, HandleEvent, chars_handle["light"] = "light"
             PROVE  chars_handle'["light"] = "light"
  OBVIOUS
<1>1. UNCHANGED chars_handle \/ \E c : chars_handle' = [chars_handle EXCEPT ![c] = c]
  BY DEF HandleEvent, HandleBoot, HandleScanReport, HandleConnectionOpened,
         HandleConnectionClosed, HandleGattService, HandleGattCharacteristic,
         HandleProcedureCompleted, HandleCharacteristicValue, app, bleData
<1>2. chars_handle \in [Chars -> Handles]
  BY DEF TypeOK, BleTypes
<1> QED
  BY <1>1, <1>2 DEF Chars

\* No value is queued, or one, of the light sensor.
NoValue == \A i \in Nat : ~Queued(i, "characteristic_value")

OneValue(v) ==
    \E i \in Nat : /\ Queued(i, "characteristic_value")
                   /\ events[i] = ValueEvent("light", v)
                   /\ \A j \in Nat : Queued(j, "characteristic_value") => j = i

\* Taking another event moves it up.
LEMMA OneTaken ==
    ASSUME QueueTypes, NEW id, Take(id), id # "characteristic_value", NEW v, OneValue(v)
    PROVE  OneValue(v)'
<1>1. PICK i \in Nat : /\ Queued(i, "characteristic_value")
                       /\ events[i] = ValueEvent("light", v)
                       /\ \A j \in Nat : Queued(j, "characteristic_value") => j = i
  BY DEF OneValue
<1>2. i > 1 /\ i - 1 \in Nat /\ Queued(i - 1, "characteristic_value")'
  BY <1>1, TakenShifts
<1>3. events'[i - 1] = events[i]
  <2>1. \A k \in 1..Len(events') : events'[k] = events[k + 1]
    BY TakeFacts DEF QueueTypes
  <2>2. i - 1 \in 1..Len(events')
    BY <1>2 DEF Queued
  <2>3. (i - 1) + 1 = i
    OBVIOUS
  <2> QED
    BY <2>1, <2>2, <2>3
<1>4. ASSUME NEW j \in Nat, Queued(j, "characteristic_value")' PROVE j = i - 1
  <2>1. j + 1 \in Nat /\ Queued(j + 1, "characteristic_value")
    BY <1>4, TakenShifts
  <2>2. j + 1 = i
    BY <1>1, <2>1
  <2> QED
    BY <2>2
<1> QED
  BY <1>1, <1>2, <1>3, <1>4 DEF OneValue

\* What is posted for the scanner and for procedures is no value.
LEMMA NoValuePosted ==
    ASSUME QueueTypes, StackTypes, DiscoveryTypes,
           AdvertiserSeen \/ ProcedureFinds \/ ProcedureEnds
    PROVE  /\ \A i \in Nat : Queued(i, "characteristic_value")'
                  <=> Queued(i, "characteristic_value")
           /\ \A i \in 1..Len(events) : events'[i] = events[i]
<1>1. ASSUME NEW e \in Events, Post(e), e.id # "characteristic_value"
      PROVE  /\ \A i \in Nat : Queued(i, "characteristic_value")'
                    <=> Queued(i, "characteristic_value")
             /\ \A i \in 1..Len(events) : events'[i] = events[i]
  BY <1>1, PostedStays, PostFacts DEF QueueTypes
<1>2. CASE AdvertiserSeen
  <2>1. PICK v \in 0..1 : Post(ScanReport(v))
    BY <1>2 DEF AdvertiserSeen
  <2>2. ScanReport(v) \in Events /\ ScanReport(v).id # "characteristic_value"
    BY PostedEvents DEF ScanReport
  <2> QED
    BY <1>1, <2>1, <2>2
<1>3. CASE ProcedureEnds
  <2>1. /\ Plain("procedure_completed") \in Events
        /\ Plain("procedure_completed").id # "characteristic_value"
    BY PostedEvents DEF Plain, EventIds
  <2> QED
    BY <1>1, <1>3, <2>1 DEF ProcedureEnds
<1>4. CASE ProcedureFinds
  <2>1. PICK id \in {"gatt_service", "gatt_characteristic"} :
             /\ Len(events) < MaxQueued - 1
             /\ events' = events \o <<Found(id, procedure.char),
                                      Plain("procedure_completed")>>
    BY <1>4 DEF ProcedureFinds
  <2>2. procedure.char \in Handles
    BY DEF DiscoveryTypes, Procedures, NoProcedure, Handles, Chars
  <2>3. Found(id, procedure.char) \in Events /\ Plain("procedure_completed") \in Events
    BY <2>2, PostedEvents DEF EventIds
  <2>4. /\ Found(id, procedure.char).id # "characteristic_value"
        /\ Plain("procedure_completed").id # "characteristic_value"
    BY DEF Found, Plain
  <2>5. \A i \in Nat : Queued(i, "characteristic_value")'
            <=> Queued(i, "characteristic_value")
    BY <2>1, <2>3, <2>4, PostedTwoStay
  <2>6. \A i \in 1..Len(events) : events'[i] = events[i]
    BY <2>1, <2>3, PostTwoFacts DEF QueueTypes
  <2> QED
    BY <2>5, <2>6
<1> QED
  BY <1>2, <1>3, <1>4

\* Events of a connection other than its end leave a value queued and the reading
\* on the display, or show the value that is queued and confirm it.
LEMMA ValueHandled ==
    ASSUME TypeOK, ~CallsMayFail, HandleEvent, link,
           \A i \in Nat : ~Queued(i, "system_boot") /\ ~Queued(i, "connection_closed")
    PROVE  /\ NoValue => NoValue' /\ UNCHANGED <<rowTempvalue, unconfirmed>>
           /\ \A v : OneValue(v) /\ chars_handle["light"] = "light" =>
                  \/ OneValue(v)' /\ UNCHANGED <<rowTempvalue, unconfirmed>>
                  \/ NoValue' /\ rowTempvalue' = BuzzerText(v) /\ ~unconfirmed'
<1>0. QueueTypes
  BY DEF TypeOK
<1>1. ~HandleBoot /\ ~HandleConnectionClosed
  BY <1>0, TakenShifts DEF HandleBoot, HandleConnectionClosed
<1>2. CASE ~HandleCharacteristicValue
  <2>0. \/ Take("scan_report")
        \/ Take("connection_opened")
        \/ Take("gatt_service")
        \/ Take("gatt_characteristic")
        \/ Take("procedure_completed")
    BY <1>1, <1>2
    DEF HandleEvent, HandleScanReport, HandleConnectionOpened,
        HandleGattService, HandleGattCharacteristic, HandleProcedureCompleted
  <2>1. PICK id : Take(id) /\ id # "characteristic_value"
    BY <2>0
  <2>2. UNCHANGED <<rowTempvalue, unconfirmed>>
    BY <1>1, <1>2
    DEF HandleEvent, HandleScanReport, HandleConnectionOpened,
        HandleGattService, HandleGattCharacteristic, HandleProcedureCompleted,
        app, rows, peer
  <2>3. NoValue => NoValue'
    BY <1>0, <2>1, TakenShifts DEF NoValue
  <2>4. ASSUME NEW v, OneValue(v) PROVE OneValue(v)'
    BY <1>0, <2>1, <2>4, OneTaken
  <2> QED
    BY <2>2, <2>3, <2>4
<1>3. CASE HandleCharacteristicValue
  <2>1. Take("characteristic_value") /\ Queued(1, "characteristic_value")
    BY <1>0, <1>3, TakenShifts DEF HandleCharacteristicValue
  <2>2. ~NoValue
    BY <2>1 DEF NoValue
  <2>3. ASSUME NEW v, OneValue(v), chars_handle["light"] = "light"
        PROVE  NoValue' /\ rowTempvalue' = BuzzerText(v) /\ ~unconfirmed'
    <3>1. PICK i \in Nat : /\ events[i] = ValueEvent("light", v)
                           /\ \A j \in Nat : Queued(j, "characteristic_value") => j = i
      BY <2>3 DEF OneValue
    <3>2. i = 1
      BY <2>1, <3>1
    <3>3. Head(events) = ValueEvent("light", v)
      BY <1>0, <2>1, <3>1, <3>2, TakeFacts DEF QueueTypes
    <3>4. rowTempvalue' = BuzzerText(v)
      <4>1. Head(events).char = "light" /\ Head(events).value = v
        BY <3>3 DEF ValueEvent
      <4> QED
        BY <1>3, <2>3, <4>1 DEF HandleCharacteristicValue
    <3>6. ~unconfirmed'
      <4>1. Confirm(Head(events).char)
        BY <1>3 DEF HandleCharacteristicValue
      <4> QED
        BY <4>1 DEF Confirm
    <3>5. ASSUME NEW j \in Nat, Queued(j, "characteristic_value")' PROVE FALSE
      <4>1. j # 0 /\ j + 1 \in Nat /\ Queued(j + 1, "characteristic_value")
        BY <1>0, <2>1, <3>5, TakenShifts
      <4> QED
        BY <3>1, <3>2, <4>1
    <3> QED
      BY <3>4, <3>5, <3>6 DEF NoValue
  <2> QED
    BY <2>2, <2>3
<1> QED
  BY <1>2, <1>3

\* Reports, results and ends of procedures come behind a value that is queued.
LEMMA ValueKept ==
    ASSUME TypeOK, AdvertiserSeen \/ ProcedureFinds \/ ProcedureEnds
    PROVE  /\ NoValue => NoValue'
           /\ \A v : OneValue(v) => OneValue(v)'
           /\ UNCHANGED <<rowTempvalue, unconfirmed, chars_handle>>
<1>1. QueueTypes /\ StackTypes /\ DiscoveryTypes
  BY DEF TypeOK
<1>2. UNCHANGED <<rowTempvalue, unconfirmed, chars_handle>>
  BY EnvironmentFrame
  DEF Environment, AdvertiserSeen, ProcedureFinds, ProcedureEnds, app, rows, bleData, peer
<1>3. \A i \in Nat : Queued(i, "characteristic_value")'
          <=> Queued(i, "characteristic_value")
  BY <1>1, NoValuePosted
<1>4. \A i \in 1..Len(events) : events'[i] = events[i]
  BY <1>1, NoValuePosted
<1> QED
  BY <1>2, <1>3, <1>4 DEF NoValue, OneValue, Queued

\* A value that arrives is the only one.
LEMMA ValueArrives ==
    ASSUME TypeOK, NoValue, NEW v \in 0..1, Post(ValueEvent("light", v))
    PROVE  OneValue(v)'
<1>1. /\ ValueEvent("light", v) \in Events
      /\ ValueEvent("light", v).id = "characteristic_value"
  BY PostedEvents DEF ValueEvent, Handles, Chars
<1>2. QueueTypes /\ Len(events) \in Nat
  BY DEF TypeOK, QueueTypes
<1>3. \A i \in Nat : Queued(i, "characteristic_value")' <=> i = Len(events) + 1
  BY <1>1, <1>2, PostedStays DEF NoValue
<1>4. events'[Len(events) + 1] = ValueEvent("light", v)
  BY <1>1, <1>2, PostFacts DEF QueueTypes
<1>5. Len(events) + 1 \in Nat
  BY <1>2
<1> QED
  BY <1>3, <1>4, <1>5 DEF OneValue

\* A connection opens with no value queued and no reading on the display.
LEMMA OpensWithoutReading ==
    ConnectionInv /\ ReadingInv /\ ProcedureInv /\ TypeOK /\ ConnectionOpens
        => NoValue' /\ rowTempvalue' = ""
<1> SUFFICES ASSUME ConnectionInv, ReadingInv, ProcedureInv, TypeOK, ConnectionOpens
             PROVE  NoValue' /\ rowTempvalue' = ""
  OBVIOUS
<1>1. Between /\ ~link
  BY DEF ConnectionOpens, ProcedureInv, DuringOpening, Between
<1>0. ~Booting
  <2>1. \A i \in Nat : ~Queued(i, "system_boot")
    BY DEF ConnectionOpens, ProcedureInv, BeforeConnection
  <2> QED
    BY <2>1, BootQueued DEF TypeOK
<1>2. ~connected
  BY <1>1 DEF ConnectionInv, EndsQueued, Between
<1>3. \A i \in Nat : ~Queued(i, "characteristic_value")
  BY <1>1, <1>2 DEF ReadingInv, Within, Between
<1>4. Post(Plain("connection_opened")) /\ rowTempvalue' = rowTempvalue
  BY DEF ConnectionOpens, app, rows
<1>5. /\ Plain("connection_opened") \in Events
      /\ Plain("connection_opened").id # "characteristic_value"
  BY PostedEvents DEF Plain, EventIds
<1>6. \A i \in Nat : ~Queued(i, "characteristic_value")'
  BY <1>3, <1>4, <1>5, PostedStays DEF TypeOK
<1> QED
  BY <1>0, <1>2, <1>4, <1>6 DEF NoValue, ReadingInv, NothingOutlivesConnection
=============================================================================

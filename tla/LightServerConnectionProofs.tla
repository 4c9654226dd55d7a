-------------------- MODULE LightServerConnectionProofs --------------------
(***************************************************************************)
(* What the sensor node knows of its connection and its subscriber, while  *)
(* the events that tell it are queued, and what the buzzer owes to the     *)
(* boot event coming before all others: for queues of any length.          *)
(***************************************************************************)
EXTENDS LightServerProofs

-----------------------------------------------------------------------------
(* The connection                                                          *)

FirstOpens == events # <<>> /\ events[1].id = "connection_opened"

\* The firmware has, or is about to take up, a connection that it has not seen
\* the end of.
Serving == connected \/ FirstOpens

\* The boot event is the first one, alone, and nothing happens before it.
BootFirst ==
    \A i \in 1..Len(events) : events[i].id = "system_boot"
        => Len(events) = 1 /\ ~link

\* A connection opens when all that came before has been handled.
OpenedFirst ==
    \A i \in 1..Len(events) : events[i].id = "connection_opened"
        => i = 1 /\ ~connected

\* Nothing comes behind the end of a connection, and the next one waits for it
\* to be handled.
ClosedLast ==
    \A i \in 1..Len(events) : events[i].id = "connection_closed"
        => i = Len(events) /\ ~link

\* What else there is belongs to a connection.
OthersWithin ==
    \A i \in 1..Len(events) :
        events[i].id \in {"client_config", "confirmation", "indication_timeout"}
            => Serving

AdvertisingIdle == advertising => ~link /\ ~connected /\ events = <<>>
LinkServed      == link => Serving
EndQueued       == Serving /\ ~link => /\ events # <<>>
                                        /\ events[Len(events)].id = "connection_closed"
LinkOwns        == ~link => cccd = {} /\ outstanding = NoIndication /\ ~barred

\* The inductive invariant on the queue of events: it holds the end of a
\* connection at most, or its beginning first, and what belongs to it between.
QueueInv ==
    /\ BootFirst
    /\ OpenedFirst
    /\ ClosedLast
    /\ OthersWithin
    /\ AdvertisingIdle
    /\ LinkServed
    /\ EndQueued
    /\ LinkOwns

\* At boot one event is queued and there is no connection.
LEMMA QueueInit == Starts => QueueInv
<1> SUFFICES ASSUME Starts PROVE QueueInv
  OBVIOUS
<1>1. /\ events = <<Plain("system_boot")>>
      /\ ~connected /\ ~link /\ ~advertising
      /\ cccd = {} /\ outstanding = NoIndication /\ ~barred
  BY DEF Starts
<1>2. Len(events) = 1 /\ events[1].id = "system_boot"
  BY <1>1 DEF Plain
<1>3. BootFirst /\ OpenedFirst /\ ClosedLast /\ OthersWithin
  BY <1>1, <1>2 DEF BootFirst, OpenedFirst, ClosedLast, OthersWithin
<1>4. ~Serving
  BY <1>1, <1>2 DEF Serving, FirstOpens
<1> QED
  BY <1>1, <1>3, <1>4
  DEF QueueInv, AdvertisingIdle, LinkServed, EndQueued, LinkOwns

\* The queue is empty and there is no connection.
LEMMA QueueEmptied ==
    ASSUME events' = <<>>, ~connected', ~link', LinkOwns'
    PROVE  QueueInv'
BY DEF QueueInv, BootFirst, OpenedFirst, ClosedLast, OthersWithin, AdvertisingIdle,
       LinkServed, EndQueued, Serving, FirstOpens

\* Nothing happens to the queue or to the connection.
LEMMA QueueKept ==
    ASSUME QueueInv, UNCHANGED <<events, connected, link, advertising>>, LinkOwns'
    PROVE  QueueInv'
BY DEF QueueInv, BootFirst, OpenedFirst, ClosedLast, OthersWithin, AdvertisingIdle,
       LinkServed, EndQueued, Serving, FirstOpens

\* The boot and the end of a connection are handled with nothing behind them.
LEMMA LastTaken ==
    ASSUME TypeOK, QueueInv, NEW id \in {"system_boot", "connection_closed"}, Take(id)
    PROVE  events' = <<>> /\ ~link
<1>1. events \in Seq(Events)
  BY DEF TypeOK, QueueTypes
<1>2. /\ Len(events) \in Nat \ {0}
      /\ events[1].id = id
      /\ events' \in Seq(Events)
      /\ Len(events') = Len(events) - 1
  BY <1>1, TakeFacts
<1>3. 1 \in 1..Len(events)
  BY <1>2
<1>4. Len(events) = 1 /\ ~link
  BY <1>2, <1>3 DEF QueueInv, BootFirst, ClosedLast
<1>5. Len(events') = 0
  BY <1>2, <1>4
<1> QED
  BY <1>2, <1>4, <1>5

\* An event within a connection is handled.
LEMMA WithinTaken ==
    ASSUME TypeOK, QueueInv,
           NEW id \in {"client_config", "confirmation", "indication_timeout"}, Take(id),
           UNCHANGED <<connected, link, advertising>>, LinkOwns'
    PROVE  QueueInv' /\ connected
<1>1. events \in Seq(Events)
  BY DEF TypeOK, QueueTypes
<1>2. /\ Len(events) \in Nat \ {0}
      /\ events[1].id = id
      /\ Len(events') = Len(events) - 1
      /\ \A i \in 1..Len(events') : events'[i] = events[i + 1]
  BY <1>1, TakeFacts
<1>3. connected
  BY <1>2 DEF QueueInv, OthersWithin, Serving, FirstOpens
<1>4. /\ \A i \in 1..Len(events') : i + 1 \in 1..Len(events) /\ i + 1 # 1
      /\ Len(events) # 1 => Len(events') \in 1..Len(events')
  BY <1>2
<1>5. BootFirst' /\ OpenedFirst' /\ ClosedLast' /\ OthersWithin'
  BY <1>2, <1>3, <1>4
  DEF QueueInv, BootFirst, OpenedFirst, ClosedLast, OthersWithin, Serving
<1>6. AdvertisingIdle' /\ LinkServed'
  BY <1>3 DEF QueueInv, AdvertisingIdle, LinkServed, Serving
<1>7. EndQueued'
  BY <1>2, <1>3, <1>4 DEF QueueInv, EndQueued, Serving
<1> QED
  BY <1>3, <1>5, <1>6, <1>7 DEF QueueInv

\* An event within a connection is posted.
LEMMA WithinPosted ==
    ASSUME TypeOK, QueueInv, link, NEW e \in Events, Post(e),
           e.id \in {"client_config", "confirmation", "indication_timeout"},
           UNCHANGED <<connected, link, advertising>>
    PROVE  QueueInv'
<1>1. events \in Seq(Events) /\ Len(events) \in Nat
  BY DEF TypeOK, QueueTypes
<1>2. /\ Len(events') = Len(events) + 1
      /\ \A i \in 1..Len(events) : events'[i] = events[i]
      /\ events'[Len(events')] = e
  BY <1>1, PostFacts
<1>3. \A i \in 1..Len(events') : i \in 1..Len(events) \/ i = Len(events')
  BY <1>1, <1>2
<1>4. Serving'
  BY <1>1, <1>2 DEF QueueInv, LinkServed, Serving, FirstOpens
<1>5. BootFirst' /\ OpenedFirst' /\ ClosedLast' /\ OthersWithin'
  BY <1>2, <1>3, <1>4
  DEF QueueInv, BootFirst, OpenedFirst, ClosedLast, OthersWithin
<1> QED
  BY <1>4, <1>5 DEF QueueInv, AdvertisingIdle, LinkServed, EndQueued, LinkOwns

\* Every step keeps the queued events the tail of one connection's story.
LEMMA QueueStep == TypeOK /\ QueueInv /\ [Next]_vars => QueueInv'
<1> SUFFICES ASSUME TypeOK, QueueInv, [Next]_vars PROVE QueueInv'
  OBVIOUS
<1>0. events \in Seq(Events) /\ Len(events) \in Nat
  BY DEF TypeOK, QueueTypes
<1>1. CASE HandleBoot
  <2>1. Take("system_boot")
    BY <1>1 DEF HandleBoot
  <2>2. events' = <<>> /\ ~link
    BY <2>1, LastTaken
  <2> QED
    BY <1>1, <2>2, QueueEmptied DEF HandleBoot, ClearBleData, QueueInv, LinkOwns
<1>2. CASE HandleConnectionOpened
  <2>1. /\ Len(events) \in Nat \ {0}
        /\ events[1].id = "connection_opened"
        /\ Len(events') = Len(events) - 1
        /\ \A i \in 1..Len(events') : events'[i] = events[i + 1]
    BY <1>0, <1>2, TakeFacts DEF HandleConnectionOpened
  <2>2. connected' /\ ~advertising' /\ UNCHANGED <<link, cccd, outstanding, barred>>
    BY <1>2 DEF HandleConnectionOpened
  <2>3. /\ \A i \in 1..Len(events') : i + 1 \in 1..Len(events) /\ i + 1 # 1
        /\ Len(events) # 1 => Len(events') \in 1..Len(events')
    BY <2>1
  <2>4. BootFirst' /\ OpenedFirst' /\ ClosedLast' /\ OthersWithin'
    BY <2>1, <2>2, <2>3
    DEF QueueInv, BootFirst, OpenedFirst, ClosedLast, OthersWithin, Serving
  <2>5. Serving
    BY <2>1 DEF Serving, FirstOpens
  <2>6. EndQueued'
    BY <2>1, <2>2, <2>3, <2>5 DEF QueueInv, EndQueued
  <2> QED
    BY <2>2, <2>4, <2>6 DEF QueueInv, AdvertisingIdle, LinkServed, LinkOwns, Serving
<1>3. CASE HandleConnectionClosed
  <2>1. Take("connection_closed")
    BY <1>3 DEF HandleConnectionClosed
  <2>2. events' = <<>> /\ ~link
    BY <2>1, LastTaken
  <2> QED
    BY <1>3, <2>2, QueueEmptied
    DEF HandleConnectionClosed, ClearBleData, QueueInv, LinkOwns
<1>4. CASE HandleClientConfig \/ HandleConfirmation \/ HandleIndicationTimeout
  <2>1. PICK id \in {"client_config", "confirmation", "indication_timeout"} : Take(id)
    BY <1>4 DEF HandleClientConfig, HandleConfirmation, HandleIndicationTimeout
  <2>2. UNCHANGED <<connected, stack>>
    BY <1>4 DEF HandleClientConfig, HandleConfirmation, HandleIndicationTimeout
  <2> QED
    BY <2>1, <2>2, WithinTaken DEF QueueInv, LinkOwns, stack
<1>5. CASE HandleSignal \/ AdcIrq \/ LetimerUnderflow \/ LetimerComp1
  BY <1>5, SignalFrame, QueueKept DEF QueueInv, LinkOwns
<1>6. CASE ClientConnects
  <2>1. /\ events = <<>> /\ ~connected
        /\ link' /\ ~advertising' /\ connected' = connected
    BY <1>6 DEF ClientConnects, app, bleData, QueueInv, AdvertisingIdle
  <2>2. Len(events') = 1 /\ events'[1].id = "connection_opened"
    BY <1>6, <2>1 DEF ClientConnects, Post, Plain
  <2>3. Serving'
    BY <2>2 DEF Serving, FirstOpens
  <2>4. BootFirst' /\ OpenedFirst' /\ ClosedLast' /\ OthersWithin'
    BY <2>1, <2>2, <2>3 DEF BootFirst, OpenedFirst, ClosedLast, OthersWithin
  <2> QED
    BY <2>1, <2>3, <2>4
    DEF QueueInv, AdvertisingIdle, LinkServed, EndQueued, LinkOwns
<1>7. CASE LinkDrops
  <2>1. /\ link /\ ~link' /\ UNCHANGED <<connected, advertising>>
        /\ cccd' = {} /\ outstanding' = NoIndication /\ ~barred'
        /\ Post(Plain("connection_closed"))
    BY <1>7 DEF LinkDrops, app, bleData
  <2>2. /\ Len(events') = Len(events) + 1
        /\ \A i \in 1..Len(events) : events'[i] = events[i]
        /\ events'[Len(events')].id = "connection_closed"
    BY <1>0, <2>1, PostFacts, PostedEvents DEF Plain, EventIds
  <2>3. \A i \in 1..Len(events') : i \in 1..Len(events) \/ i = Len(events')
    BY <1>0, <2>2
  <2>4. Serving => Serving'
    BY <1>0, <2>1, <2>2 DEF Serving, FirstOpens
  <2>5. BootFirst' /\ OpenedFirst' /\ ClosedLast' /\ OthersWithin'
    BY <2>1, <2>2, <2>3, <2>4
    DEF QueueInv, BootFirst, OpenedFirst, ClosedLast, OthersWithin
  <2>6. events' # <<>>
    BY <1>0, <2>2
  <2> QED
    BY <2>1, <2>2, <2>5, <2>6
    DEF QueueInv, AdvertisingIdle, LinkServed, EndQueued, LinkOwns
<1>8. ASSUME NEW c \in Chars, ClientConfigures(c)
      PROVE  QueueInv'
  <2>1. PICK e \in Events : e.id = "client_config" /\ Post(e)
    BY <1>8, PostedEvents DEF ClientConfigures, ClientConfig
  <2> QED
    BY <1>8, <2>1, WithinPosted DEF ClientConfigures, app, bleData
<1>9. CASE ClientConfirms
  <2>1. outstanding.char \in Chars
    BY <1>9 DEF ClientConfirms, TypeOK, StackTypes, Indications
  <2>2. PICK e \in Events : e.id = "confirmation" /\ Post(e)
    BY <1>9, <2>1, PostedEvents DEF ClientConfirms, Confirmation
  <2>3. link
    BY <1>9 DEF ClientConfirms, QueueInv, LinkOwns
  <2> QED
    BY <1>9, <2>2, <2>3, WithinPosted DEF ClientConfirms, app, bleData
<1>10. CASE IndicationTimesOut
  <2>1. PICK e \in Events : e.id = "indication_timeout" /\ Post(e)
    BY <1>10, PostedEvents DEF IndicationTimesOut, Plain, EventIds
  <2>2. link
    BY <1>10 DEF IndicationTimesOut, QueueInv, LinkOwns
  <2> QED
    BY <1>10, <2>1, <2>2, WithinPosted DEF IndicationTimesOut, app, bleData
<1>11. CASE UNCHANGED vars
  BY <1>11, QueueKept DEF vars, bleData, stack, QueueInv, LinkOwns
<1> QED
  BY <1>1, <1>2, <1>3, <1>4, <1>5, <1>6, <1>7, <1>8, <1>9, <1>10, <1>11
  DEF Next, HandleEvent, Environment

\* The queue tells how connected and the link differ.
LEMMA QueueTellsConnection == TypeOK /\ QueueInv => ConnectedFollowsLink
<1> SUFFICES ASSUME TypeOK, QueueInv PROVE ConnectedFollowsLink
  OBVIOUS
<1>0. Len(events) \in Nat
  BY DEF TypeOK, QueueTypes
<1> DEFINE about == {i \in 1..Len(events) :
                events[i].id \in {"connection_opened", "connection_closed"}}
<1>1. ASSUME about = {} PROVE connected = link
  <2>1. /\ events # <<>> => 1 \in 1..Len(events)
        /\ events # <<>> => Len(events) \in 1..Len(events)
    BY <1>0 DEF TypeOK, QueueTypes
  <2>2. ~FirstOpens
    BY <1>1, <2>1 DEF FirstOpens
  <2>3. connected <=> link
    BY <1>1, <2>1, <2>2 DEF QueueInv, LinkServed, EndQueued, Serving
  <2> QED
    BY <2>3 DEF TypeOK, BleTypes, StackTypes
<1>2. ASSUME NEW i \in about, NEW j \in about, i < j
      PROVE  events[i].id = "connection_opened" /\ events[j].id = "connection_closed"
  BY <1>0, <1>2 DEF QueueInv, OpenedFirst, ClosedLast
<1> QED
  BY <1>1, <1>2 DEF ConnectedFollowsLink, QueueInv, AdvertisingIdle

\* connected and the advertiser follow the link, one event behind at most: what
\* handle_ble_event makes of connection_opened and connection_closed, however
\* many events of whatever kind are queued when the link comes and goes.
THEOREM ConnectionFollowed == Spec => []ConnectedFollowsLink
<1>1. Init => QueueInv
  BY QueueInit DEF Init
<1> QED
  BY <1>1, QueueTellsConnection, QueueStep, TypeCorrect, PTL DEF Spec

-----------------------------------------------------------------------------
(* Booting                                                                 *)

\* While the boot event waits there is no connection yet.
LEMMA BootUnconnected ==
    ASSUME TypeOK, QueueInv, Booting
    PROVE  ~connected
<1>1. events \in Seq(Events)
  BY DEF TypeOK, QueueTypes
<1>2. PICK i \in 1..Len(events) : events[i].id = "system_boot"
  BY DEF Booting
<1>3. Len(events) = 1 /\ ~link
  BY <1>2 DEF QueueInv, BootFirst
<1>4. events[1].id = "system_boot"
  BY <1>2, <1>3
<1> QED
  BY <1>3, <1>4 DEF QueueInv, EndQueued, Serving

\* It waits to be handled, and nothing but a reset makes it wait again.
LEMMA BootingStays ==
    TypeOK /\ [Next]_vars
        => (Booting' => Booting) /\ (Booting => Booting' \/ HandleEvent)
<1> SUFFICES ASSUME TypeOK, [Next]_vars
             PROVE  (Booting' => Booting) /\ (Booting => Booting' \/ HandleEvent)
  OBVIOUS
<1>0. events \in Seq(Events) /\ Len(events) \in Nat
  BY DEF TypeOK, QueueTypes
<1>1. CASE HandleEvent
  <2>1. PICK id : Take(id)
    BY <1>1 DEF HandleEvent, HandleBoot, HandleConnectionOpened, HandleConnectionClosed,
                HandleClientConfig, HandleConfirmation, HandleIndicationTimeout
  <2>2. /\ Len(events) \in Nat \ {0}
        /\ Len(events') = Len(events) - 1
        /\ \A i \in 1..Len(events') : events'[i] = events[i + 1]
    BY <1>0, <2>1, TakeFacts
  <2>3. \A i \in 1..Len(events') : i + 1 \in 1..Len(events)
    BY <2>2
  <2> QED
    BY <1>1, <2>2, <2>3 DEF Booting
<1>2. CASE Environment
  <2>1. ClientConfirms => outstanding.char \in Chars
    BY DEF ClientConfirms, TypeOK, StackTypes, Indications
  <2>2. PICK e \in Events : Post(e) /\ e.id # "system_boot"
    BY <1>2, <2>1, PostedEvents
    DEF Environment, ClientConnects, LinkDrops, ClientConfigures, ClientConfirms,
        IndicationTimesOut, Plain, ClientConfig, Confirmation, EventIds
  <2>3. /\ Len(events') = Len(events) + 1
        /\ \A i \in 1..Len(events) : events'[i] = events[i]
        /\ events'[Len(events')] = e
    BY <1>0, <2>2, PostFacts
  <2>4. /\ \A i \in 1..Len(events') : i \in 1..Len(events) \/ i = Len(events')
        /\ \A i \in 1..Len(events) : i \in 1..Len(events')
    BY <1>0, <2>3
  <2> QED
    BY <2>2, <2>3, <2>4 DEF Booting
<1>3. CASE HandleSignal \/ AdcIrq \/ LetimerUnderflow \/ LetimerComp1
  BY <1>3, SignalFrame DEF Booting
<1>4. CASE UNCHANGED vars
  BY <1>4 DEF vars, Booting
<1> QED
  BY <1>1, <1>2, <1>3, <1>4 DEF Next

-----------------------------------------------------------------------------
(* What ends with a connection                                             *)

\* A program that starts has no connection to remember.
LEMMA NothingInit == Starts => IndicationsEndWithConnection
<1> SUFFICES ASSUME Starts PROVE IndicationsEndWithConnection
  OBVIOUS
<1>1. events = <<Plain("system_boot")>> /\ ~light_indication /\ ~indication_in_flight
  BY DEF Starts
<1>2. Len(events) = 1 /\ events[1].id = "system_boot" /\ 1 \in 1..1
  BY <1>1 DEF Plain
<1>3. Booting
  BY <1>2 DEF Booting
<1> QED
  BY <1>1, <1>3 DEF IndicationsEndWithConnection

\* The end of a connection clears what it left, and nothing comes behind it.
LEMMA NothingStep ==
    TypeOK /\ QueueInv /\ IndicationsEndWithConnection /\ [Next]_vars
        => IndicationsEndWithConnection'
<1> SUFFICES ASSUME TypeOK, QueueInv, IndicationsEndWithConnection, [Next]_vars
             PROVE  IndicationsEndWithConnection'
  OBVIOUS
<1> USE DEF IndicationsEndWithConnection
<1>0. Booting => Booting' \/ HandleEvent
  BY BootingStays
<1>1. CASE HandleBoot
  BY <1>1 DEF HandleBoot, ClearBleData
<1>2. CASE HandleConnectionOpened
  BY <1>2 DEF HandleConnectionOpened
<1>3. CASE HandleConnectionClosed
  BY <1>3 DEF HandleConnectionClosed, ClearBleData
<1>4. CASE HandleClientConfig \/ HandleConfirmation \/ HandleIndicationTimeout
  <2>1. PICK id \in {"client_config", "confirmation", "indication_timeout"} : Take(id)
    BY <1>4 DEF HandleClientConfig, HandleConfirmation, HandleIndicationTimeout
  <2>2. UNCHANGED <<connected, stack>>
    BY <1>4 DEF HandleClientConfig, HandleConfirmation, HandleIndicationTimeout
  <2>3. connected
    BY <2>1, <2>2, WithinTaken DEF stack, QueueInv, LinkOwns
  <2> QED
    BY <2>2, <2>3
<1>5. ASSUME UNCHANGED <<connected, light_indication, indication_in_flight,
                         rowTempvalue, rowAction>>, ~HandleEvent
      PROVE  IndicationsEndWithConnection'
  BY <1>0, <1>5
<1>6. CASE HandleSignal \/ AdcIrq \/ LetimerUnderflow \/ LetimerComp1
  <2>1. connected' = connected /\ light_indication' = light_indication
        /\ (Booting' = Booting)
    BY <1>6, SignalFrame DEF Booting
  <2>2. CASE UNCHANGED <<indication_in_flight, rowTempvalue, rowAction>>
    BY <2>1, <2>2
  <2>3. CASE connected
    BY <2>1, <2>3
  <2> QED
    BY <1>6, <2>2, <2>3
    DEF HandleSignal, SignalIgnored, PowerLight, StartLight, ReadLight, PowerSmoke,
        StartSmoke, ReadSmoke, Advance, Subscribed, AdcIrq, LetimerUnderflow,
        LetimerComp1, bleData, rows
<1>7. CASE Environment
  <2>1. UNCHANGED <<connected, light_indication, indication_in_flight,
                    rowTempvalue, rowAction>>
    BY <1>7, EnvironmentFrame DEF app, bleData, rows
  <2> QED
    BY <1>3, <1>4, <1>5, <2>1, <1>1, <1>2 DEF HandleEvent
<1>8. CASE UNCHANGED vars
  <2>1. UNCHANGED <<connected, light_indication, indication_in_flight,
                    rowTempvalue, rowAction>>
    BY <1>8 DEF vars, bleData, rows
  <2> QED
    BY <1>1, <1>2, <1>3, <1>4, <1>5, <2>1 DEF HandleEvent
<1> QED
  BY <1>1, <1>2, <1>3, <1>4, <1>6, <1>7, <1>8 DEF Next, HandleEvent

\* A closed connection leaves no subscription, no indication in flight and
\* nothing of what it indicated on the display to the next one: what ends it is
\* handled last.
THEOREM IndicationsEnd == Spec => []IndicationsEndWithConnection
<1>1. Init => QueueInv /\ IndicationsEndWithConnection
  BY QueueInit, NothingInit DEF Init
<1> QED
  BY <1>1, NothingStep, QueueStep, TypeCorrect, PTL DEF Spec

-----------------------------------------------------------------------------
(* The buzzer                                                              *)

\* Nothing is measured before the boot event is handled.
BuzzerInv == BuzzerOnlyUntilSmokeConversion /\ (Booting => nextState = "Idle")

\* The buzzer is silent when the program starts.
LEMMA BuzzerInit == Starts => BuzzerInv
BY DEF Starts, BuzzerInv, BuzzerOnlyUntilSmokeConversion

\* A dark reading makes the buzzer sound, the next conversion silences it.
LEMMA BuzzerStep == TypeOK /\ QueueInv /\ BuzzerInv /\ [Next]_vars => BuzzerInv'
<1> SUFFICES ASSUME TypeOK, QueueInv, BuzzerInv, [Next]_vars PROVE BuzzerInv'
  OBVIOUS
<1> USE DEF BuzzerInv, BuzzerOnlyUntilSmokeConversion
<1>0. Booting' => Booting
  BY BootingStays
<1>1. ASSUME UNCHANGED <<buzzer, rowLight, nextState>>
      PROVE  BuzzerInv'
  BY <1>0, <1>1
<1>2. CASE HandleBoot
  <2>1. events \in Seq(Events)
    BY DEF TypeOK, QueueTypes
  <2>2. Len(events) \in Nat \ {0} /\ events[1].id = "system_boot"
    BY <1>2, <2>1, TakeFacts DEF HandleBoot
  <2>3. Booting
    <3>1. 1 \in 1..Len(events)
      BY <2>2
    <3> QED
      BY <2>2, <3>1 DEF Booting
  <2>4. ~buzzer /\ nextState = "Idle"
    BY <2>3
  <2> QED
    BY <1>2, <2>4 DEF HandleBoot, sampling
<1>3. CASE HandleEvent /\ ~HandleBoot
  <2>1. UNCHANGED <<buzzer, nextState>>
    BY <1>3, EventFrame DEF sampling
  <2>2. UNCHANGED rowLight
    BY <1>3 DEF HandleEvent, HandleConnectionOpened, HandleConnectionClosed,
                HandleClientConfig, HandleConfirmation, HandleIndicationTimeout,
                rows, measured
  <2> QED
    BY <1>1, <2>1, <2>2
<1>4. CASE AdcIrq \/ LetimerUnderflow \/ LetimerComp1
  BY <1>1, <1>4 DEF AdcIrq, LetimerUnderflow, LetimerComp1, sampling, rows, measured
<1>5. CASE SignalIgnored
  BY <1>1, <1>5 DEF SignalIgnored, sampling, rows, measured
<1>6. CASE HandleSignal /\ ~SignalIgnored
  <2>1. ~Booting
    BY <1>6, BootUnconnected
    DEF HandleSignal, PowerLight, StartLight, ReadLight, PowerSmoke, StartSmoke,
        ReadSmoke, Advance, Subscribed
  <2>2. CASE PowerLight \/ StartLight \/ PowerSmoke \/ StartSmoke
    BY <1>0, <2>1, <2>2
    DEF PowerLight, StartLight, PowerSmoke, StartSmoke, Advance, initADC, measured
  <2>3. CASE ReadLight
    <3>1. /\ buzzer' = (LightValue = 1)
          /\ nextState' = "smoke_Idle"
          /\ rowLight' = Millivolts(sample_light)
      BY <2>3 DEF ReadLight, ble_ambient, convert_light, Advance
    <3>2. rowLight' \in Nat
      <4>1. sample_light \in 0..4095
        BY SamplesAssumption DEF TypeOK, SamplingTypes
      <4> QED
        BY <3>1, <4>1 DEF Millivolts
    <3>3. rowLight' # Blank
      BY <3>2 DEF Blank
    <3>4. LightValue = 1 <=> rowLight' < LightThreshold
      BY <3>1 DEF LightValue
    <3> QED
      BY <1>0, <2>1, <3>1, <3>3, <3>4
  <2>4. CASE ReadSmoke
    <3>1. /\ nextState = "smoke_ADCRead" /\ nextState' = "Idle"
          /\ buzzer' = buzzer
      BY <2>4 DEF ReadSmoke, ble_smoke, Advance
    <3> QED
      BY <3>1
  <2> QED
    BY <1>6, <2>2, <2>3, <2>4 DEF HandleSignal
<1>7. CASE Environment
  BY <1>1, <1>7, EnvironmentFrame DEF app, sampling, rows, measured
<1>8. CASE UNCHANGED vars
  BY <1>1, <1>8 DEF vars, sampling, rows, measured
<1> QED
  BY <1>2, <1>3, <1>4, <1>5, <1>6, <1>7, <1>8 DEF Next

\* The buzzer sounds after a dark reading until the smoke sensor's conversion
\* configures its pin anew, and at no other time (convert_light, initADC).
THEOREM BuzzerSilenced == Spec => []BuzzerOnlyUntilSmokeConversion
<1>1. Init => QueueInv /\ BuzzerInv
  BY QueueInit, BuzzerInit DEF Init
<1>2. BuzzerInv => BuzzerOnlyUntilSmokeConversion
  BY DEF BuzzerInv
<1> QED
  BY <1>1, <1>2, BuzzerStep, QueueStep, TypeCorrect, PTL DEF Spec

-----------------------------------------------------------------------------
(* The subscription                                                        *)

\* Handling an event keeps the subscription on its way to what the client has.
LEMMA SubscriptionTaken ==
    ASSUME TypeOK, SubscriptionFollowsClient, NEW id, Take(id),
           ClientSubscribed' = ClientSubscribed,
           light_indication' = IF DecidesSubscription(events[1])
                               THEN Subscribes(events[1]) ELSE light_indication
    PROVE  SubscriptionFollowsClient'
<1>1. events \in Seq(Events)
  BY DEF TypeOK, QueueTypes
<1>2. /\ Len(events) \in Nat \ {0}
      /\ Len(events') = Len(events) - 1
      /\ \A i \in 1..Len(events') : events'[i] = events[i + 1]
  BY <1>1, TakeFacts
<1> DEFINE D  == {i \in 1..Len(events) : DecidesSubscription(events[i])}
           DN == {i \in 1..Len(events') : DecidesSubscription(events'[i])}
<1>3. \A i \in DN : i + 1 \in D /\ i \in Nat /\ events'[i] = events[i + 1]
  BY <1>2
<1>4. \A i \in D : i \in Nat /\ (i = 1 \/ i - 1 \in DN)
  BY <1>2
<1>5. /\ D = {} => light_indication = ClientSubscribed
      /\ \A i \in D : (\A j \in D : j <= i) => Subscribes(events[i]) = ClientSubscribed
  BY DEF SubscriptionFollowsClient
<1>6. ASSUME DN = {} PROVE light_indication' = ClientSubscribed'
  <2>1. \A i \in D : i = 1
    BY <1>4, <1>6
  <2>2. CASE 1 \in D
    BY <1>5, <2>1, <2>2
  <2>3. CASE 1 \notin D
    BY <1>2, <1>5, <2>1, <2>3
  <2> QED
    BY <2>2, <2>3
<1>7. ASSUME NEW i \in DN, \A j \in DN : j <= i
      PROVE  Subscribes(events'[i]) = ClientSubscribed'
  <2>1. \A j \in D : j <= i + 1
    BY <1>3, <1>4, <1>7
  <2> QED
    BY <1>3, <1>5, <2>1
<1> QED
  BY <1>6, <1>7 DEF SubscriptionFollowsClient

\* So does posting one that says what the client now has.
LEMMA SubscriptionPosted ==
    ASSUME TypeOK, SubscriptionFollowsClient, NEW e \in Events, Post(e),
           light_indication' = light_indication,
           IF DecidesSubscription(e) THEN Subscribes(e) = ClientSubscribed'
                                     ELSE ClientSubscribed' = ClientSubscribed
    PROVE  SubscriptionFollowsClient'
<1>1. events \in Seq(Events) /\ Len(events) \in Nat
  BY DEF TypeOK, QueueTypes
<1>2. /\ Len(events') = Len(events) + 1
      /\ \A i \in 1..Len(events) : events'[i] = events[i]
      /\ events'[Len(events')] = e
  BY <1>1, PostFacts
<1> DEFINE D  == {i \in 1..Len(events) : DecidesSubscription(events[i])}
           DN == {i \in 1..Len(events') : DecidesSubscription(events'[i])}
<1>3. \A i \in DN : i <= Len(events') /\ (i = Len(events') \/ i \in D)
  BY <1>1, <1>2
<1>4. \A i \in D : i \in DN /\ events'[i] = events[i]
  BY <1>1, <1>2
<1>5. DecidesSubscription(e) <=> Len(events') \in DN
  BY <1>1, <1>2
<1>6. /\ D = {} => light_indication = ClientSubscribed
      /\ \A i \in D : (\A j \in D : j <= i) => Subscribes(events[i]) = ClientSubscribed
  BY DEF SubscriptionFollowsClient
<1>7. ASSUME DN = {} PROVE light_indication' = ClientSubscribed'
  BY <1>4, <1>5, <1>6, <1>7
<1>8. ASSUME NEW i \in DN, \A j \in DN : j <= i
      PROVE  Subscribes(events'[i]) = ClientSubscribed'
  <2>1. CASE DecidesSubscription(e)
    <3>1. i = Len(events')
      BY <1>1, <1>2, <1>3, <1>5, <1>8, <2>1
    <3> QED
      BY <1>2, <2>1, <3>1
  <2>2. CASE ~DecidesSubscription(e)
    <3>1. i \in D /\ \A j \in D : j <= i
      BY <1>3, <1>4, <1>5, <1>8, <2>2
    <3> QED
      BY <1>4, <1>6, <2>2, <3>1
  <2> QED
    BY <2>1, <2>2
<1> QED
  BY <1>7, <1>8 DEF SubscriptionFollowsClient

\* What handling each event makes of light_indication.
LEMMA SubscriptionDecided ==
    ASSUME TypeOK, QueueInv, SubscriptionFollowsClient, HandleEvent
    PROVE  SubscriptionFollowsClient'
<1>1. events \in Seq(Events)
  BY DEF TypeOK, QueueTypes
<1>2. PICK id : Take(id)
  BY DEF HandleEvent, HandleBoot, HandleConnectionOpened, HandleConnectionClosed,
         HandleClientConfig, HandleConfirmation, HandleIndicationTimeout
<1>3. /\ Head(events) = events[1]
      /\ events[1].id = id
      /\ events[1] \in Events
      /\ Head(events).id = id
  BY <1>1, <1>2, TakeFacts
<1>4. ClientSubscribed' = ClientSubscribed
  BY EventFrame DEF ClientSubscribed
<1>5. CASE HandleBoot
  <2>1. id = "system_boot"
    BY <1>3, <1>5 DEF HandleBoot, Take
  <2>2. events' = <<>> /\ ~link
    BY <1>2, <2>1, LastTaken
  <2>3. ~light_indication' /\ ~ClientSubscribed'
    BY <1>4, <1>5, <2>2 DEF HandleBoot, ClearBleData, ClientSubscribed
  <2>4. light_indication' = ClientSubscribed'
    BY <1>5, <2>3 DEF HandleBoot, ClearBleData, ClientSubscribed
  <2> QED
    BY <2>2, <2>4 DEF SubscriptionFollowsClient
<1>6. CASE ~HandleBoot
  <2>1. light_indication' = IF DecidesSubscription(events[1])
                            THEN Subscribes(events[1]) ELSE light_indication
    <3> USE DEF DecidesSubscription, Subscribes, Take
    <3>1. CASE HandleConnectionOpened
      BY <1>3, <3>1 DEF HandleConnectionOpened
    <3>2. CASE HandleConnectionClosed
      BY <1>3, <3>2 DEF HandleConnectionClosed, ClearBleData
    <3>3. CASE HandleClientConfig
      BY <1>3, <3>3 DEF HandleClientConfig, Events
    <3>4. CASE HandleConfirmation
      BY <1>3, <3>4 DEF HandleConfirmation
    <3>5. CASE HandleIndicationTimeout
      BY <1>3, <3>5 DEF HandleIndicationTimeout
    <3> QED
      BY <1>6, <3>1, <3>2, <3>3, <3>4, <3>5 DEF HandleEvent
  <2> QED
    BY <1>2, <1>4, <2>1, SubscriptionTaken
<1> QED
  BY <1>5, <1>6

\* What the client, and the loss of the link, do to the subscription is posted.
LEMMA SubscriptionAnnounced ==
    ASSUME TypeOK, QueueInv, SubscriptionFollowsClient, Environment
    PROVE  SubscriptionFollowsClient'
<1>0. light_indication' = light_indication
  BY EnvironmentFrame DEF app, bleData
<1> USE DEF DecidesSubscription, Subscribes, ClientSubscribed
<1>1. CASE ClientConnects
  <2>1. /\ Post(Plain("connection_opened")) /\ Plain("connection_opened") \in Events
        /\ ~DecidesSubscription(Plain("connection_opened"))
    BY <1>1, PostedEvents DEF ClientConnects, EventIds, Plain
  <2>2. ClientSubscribed' = ClientSubscribed
    BY <1>1 DEF ClientConnects, QueueInv, LinkOwns
  <2> QED
    BY <1>0, <2>1, <2>2, SubscriptionPosted
<1>2. CASE LinkDrops
  <2>1. /\ Post(Plain("connection_closed")) /\ Plain("connection_closed") \in Events
        /\ DecidesSubscription(Plain("connection_closed"))
    BY <1>2, PostedEvents DEF LinkDrops, EventIds, Plain
  <2>2. Subscribes(Plain("connection_closed")) = ClientSubscribed'
    BY <1>2 DEF LinkDrops, Plain
  <2> QED
    BY <1>0, <2>1, <2>2, SubscriptionPosted
<1>3. ASSUME NEW c \in Chars, ClientConfigures(c)
      PROVE  SubscriptionFollowsClient'
  <2> DEFINE e == ClientConfig(c, c \notin cccd)
  <2>1. Post(e) /\ e \in Events
    BY <1>3, PostedEvents DEF ClientConfigures
  <2>2. CASE c = "light"
    <3>1. DecidesSubscription(e) /\ Subscribes(e) = ClientSubscribed'
      BY <1>3, <2>2 DEF ClientConfigures, ClientConfig
    <3> QED
      BY <1>0, <2>1, <3>1, SubscriptionPosted
  <2>3. CASE c # "light"
    <3>1. ~DecidesSubscription(e) /\ ClientSubscribed' = ClientSubscribed
      BY <1>3, <2>3 DEF ClientConfigures, ClientConfig
    <3> QED
      BY <1>0, <2>1, <3>1, SubscriptionPosted
  <2> QED
    BY <2>2, <2>3
<1>4. CASE ClientConfirms
  <2> DEFINE e == Confirmation(outstanding.char)
  <2>1. outstanding.char \in Chars
    BY <1>4 DEF ClientConfirms, TypeOK, StackTypes, Indications
  <2>2. Post(e) /\ e \in Events /\ ~DecidesSubscription(e)
    BY <1>4, <2>1, PostedEvents DEF ClientConfirms, Confirmation
  <2>3. ClientSubscribed' = ClientSubscribed
    BY <1>4 DEF ClientConfirms
  <2> QED
    BY <1>0, <2>2, <2>3, SubscriptionPosted
<1>5. CASE IndicationTimesOut
  <2>1. /\ Post(Plain("indication_timeout")) /\ Plain("indication_timeout") \in Events
        /\ DecidesSubscription(Plain("indication_timeout"))
    BY <1>5, PostedEvents DEF IndicationTimesOut, EventIds, Plain
  <2>2. Subscribes(Plain("indication_timeout")) = ClientSubscribed'
    BY <1>5 DEF IndicationTimesOut, Plain
  <2> QED
    BY <1>0, <2>1, <2>2, SubscriptionPosted
<1> QED
  BY <1>1, <1>2, <1>3, <1>4, <1>5 DEF Environment

\* Nobody is subscribed at boot.
LEMMA SubscriptionInit == Starts => SubscriptionFollowsClient
<1> SUFFICES ASSUME Starts PROVE SubscriptionFollowsClient
  OBVIOUS
<1>1. events = <<Plain("system_boot")>> /\ light_indication = FALSE /\ link = FALSE
  BY DEF Starts
<1>2. Len(events) = 1 /\ ~DecidesSubscription(events[1])
  BY <1>1 DEF Plain, DecidesSubscription
<1>3. \A i \in 1..Len(events) : ~DecidesSubscription(events[i])
  BY <1>2
<1>4. light_indication = ClientSubscribed
  BY <1>1 DEF ClientSubscribed
<1> QED
  BY <1>3, <1>4 DEF SubscriptionFollowsClient

\* What changes the subscription is queued, and what is handled decides it.
LEMMA SubscriptionStep ==
    TypeOK /\ QueueInv /\ SubscriptionFollowsClient /\ [Next]_vars
        => SubscriptionFollowsClient'
<1> SUFFICES ASSUME TypeOK, QueueInv, SubscriptionFollowsClient, [Next]_vars
             PROVE  SubscriptionFollowsClient'
  OBVIOUS
<1>1. CASE HandleEvent
  BY <1>1, SubscriptionDecided
<1>2. CASE Environment
  BY <1>2, SubscriptionAnnounced
<1>3. ASSUME UNCHANGED <<light_indication, events, link, cccd, barred>>
      PROVE  SubscriptionFollowsClient'
  BY <1>3 DEF SubscriptionFollowsClient, ClientSubscribed
<1>4. CASE HandleSignal \/ AdcIrq \/ LetimerUnderflow \/ LetimerComp1
  BY <1>3, <1>4, SignalFrame
<1>5. CASE UNCHANGED vars
  BY <1>3, <1>5 DEF vars, bleData, stack
<1> QED
  BY <1>1, <1>2, <1>4, <1>5 DEF Next

\* light_indication ends up as the client at the other end of the present
\* connection has it, in whatever order subscriptions, timeouts, disconnections
\* and connections are queued: no measuring for nobody, no deaf ear.
THEOREM SubscriptionFollowed == Spec => []SubscriptionFollowsClient
<1>1. Init => QueueInv /\ SubscriptionFollowsClient
  BY QueueInit, SubscriptionInit DEF Init
<1> QED
  BY <1>1, SubscriptionStep, QueueStep, TypeCorrect, PTL DEF Spec
=============================================================================

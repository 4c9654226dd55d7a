------------------------------ MODULE TwoNodes ------------------------------
(***************************************************************************)
(* The sensor node and the actuator node over one radio link.              *)
(*                                                                         *)
(* LightServer and DiscoveryClient each come with an environment that does *)
(* what the other node and the stacks may do at most.  Here each is the    *)
(* other's environment, and what joins them is the radio: advertisements   *)
(* are seen while the server advertises, a connection opens on both sides  *)
(* at once, is lost on each side for itself (a node notices a lost link by *)
(* its own supervision timeout), and requests, indications and             *)
(* confirmations pass while both sides have the link.  Either node may be  *)
(* reset at any time.                                                      *)
(*                                                                         *)
(* The server's variables have their names of LightServer, the client's    *)
(* those of DiscoveryClient with a c in front.                             *)
(***************************************************************************)
EXTENDS LightServer

CONSTANTS
    LateReports,   \* see DiscoveryClient
    ClientQueued,  \* bound: stack events waiting for the client's application
    MaxRestarts    \* bound: resets of the nodes

ASSUME LateReportsAssumption == LateReports \in BOOLEAN
ASSUME ClientQueuedAssumption == ClientQueued \in Nat \ {0}
ASSUME RestartsAssumption == MaxRestarts \in Nat

VARIABLES
    cConnected, cOngoing, cServiceHandle, cCharsHandle, cState, cStrip,
    cRowConnection, cRowTempvalue, cRowAction,
    cScanning, cOpening, cLink, cProcedure, cEvents, cCccd, cUnconfirmed,
    confirming,   \* a confirmation is on its way to the server
    restarts,     \* resets so far
    lastSent      \* history: the last indication the server has sent on its link

client     == <<cConnected, cOngoing, cServiceHandle, cCharsHandle, cState, cStrip,
                cRowConnection, cRowTempvalue, cRowAction, cScanning, cOpening,
                cLink, cProcedure, cEvents, cCccd, cUnconfirmed>>
systemVars == <<vars, lastSent, client, confirming, restarts>>

Client == INSTANCE DiscoveryClient WITH
    CallsMayFail <- FALSE, ServerAnswers <- FALSE, MaxQueued <- ClientQueued,
    connected <- cConnected, gatt_procedure_ongoing <- cOngoing,
    service_handle <- cServiceHandle, chars_handle <- cCharsHandle,
    nextState <- cState, strip <- cStrip, rowConnection <- cRowConnection,
    rowTempvalue <- cRowTempvalue, rowAction <- cRowAction,
    scanning <- cScanning, opening <- cOpening, link <- cLink,
    procedure <- cProcedure, events <- cEvents, cccd <- cCccd,
    unconfirmed <- cUnconfirmed

SystemInit ==
    /\ Init
    /\ Client!Init
    /\ confirming = FALSE
    /\ restarts = 0
    /\ lastSent = NoIndication

\* What the history variable makes of a step of the server.
Remember ==
    lastSent' = IF ~link' THEN NoIndication
                ELSE IF outstanding' # NoIndication THEN outstanding' ELSE lastSent

-----------------------------------------------------------------------------
(* Each node for itself                                                    *)

ServerDoes(A) == A /\ Remember /\ UNCHANGED <<client, confirming, restarts>>

ServerRuns ==
    \/ ServerDoes(HandleEvent)
    \/ ServerDoes(HandleSignal)
    \/ ServerDoes(AdcIrq)
    \/ ServerDoes(LetimerUnderflow)
    \/ ServerDoes(LetimerComp1)

\* sl_bt_gatt_send_characteristic_confirmation puts a confirmation on the air.
ClientRuns ==
    /\ Client!HandleEvent
    /\ confirming' = (confirming \/ (cUnconfirmed /\ ~cUnconfirmed'))
    /\ UNCHANGED <<vars, lastSent, restarts>>

-----------------------------------------------------------------------------
(* The radio                                                               *)

ServerSeen ==
    /\ advertising
    /\ Client!AdvertiserSeen
    /\ cEvents' = Append(cEvents, Client!ScanReport(1))
    /\ UNCHANGED <<vars, lastSent, confirming, restarts>>

Connect ==
    /\ ClientConnects
    /\ Client!ConnectionOpens
    /\ Remember
    /\ UNCHANGED <<confirming, restarts>>

ServerLosesLink ==
    /\ LinkDrops
    /\ Remember
    /\ confirming' = FALSE
    /\ UNCHANGED <<client, restarts>>

\* Also: the connection that is being opened is not.
ClientLosesLink ==
    /\ Client!ConnectionLost
    /\ confirming' = FALSE
    /\ UNCHANGED <<vars, lastSent, restarts>>

\* Both sides have the link and the server answers requests.
Answers == link /\ ~barred

ServiceFound ==
    /\ Answers
    /\ Client!ProcedureFinds
    /\ UNCHANGED <<vars, lastSent, confirming, restarts>>

\* The client's request for indications reaches the server's CCCD.
Subscription ==
    \E c \in Chars \ cccd :
        /\ Answers
        /\ cProcedure = [kind |-> "notify", char |-> c]
        /\ ClientConfigures(c)
        /\ Client!ProcedureEnds
        /\ cCccd' = cCccd \cup {c}
        /\ Remember
        /\ UNCHANGED <<confirming, restarts>>

NoAnswer ==
    /\ ~Answers
    /\ UNCHANGED <<vars, lastSent, cCccd, confirming, restarts>>
    /\ Client!ProcedureEnds

IndicationArrives ==
    /\ link
    /\ outstanding # NoIndication
    /\ ~confirming
    /\ Client!ServerIndicates
    /\ cEvents' = Append(cEvents, Client!ValueEvent(outstanding.char, outstanding.value))
    /\ UNCHANGED <<vars, lastSent, confirming, restarts>>

\* A confirmation that is late is ignored.
ConfirmationArrives ==
    /\ confirming
    /\ confirming' = FALSE
    /\ ClientConfirms \/ (outstanding = NoIndication /\ UNCHANGED vars)
    /\ Remember
    /\ UNCHANGED <<client, restarts>>

NoConfirmation ==
    /\ IndicationTimesOut
    /\ Remember
    /\ UNCHANGED <<client, confirming, restarts>>

Radio ==
    \/ ServerSeen
    \/ Connect
    \/ ServerLosesLink
    \/ ClientLosesLink
    \/ ServiceFound
    \/ Subscription
    \/ NoAnswer
    \/ IndicationArrives
    \/ ConfirmationArrives
    \/ NoConfirmation

-----------------------------------------------------------------------------
(* Resets                                                                  *)

\* All of a node's state is in RAM; the peer finds out by its own timeout.  The
\* display keeps its rows until system_boot is handled.
ServerBoots ==
    /\ connected' = FALSE
    /\ light_indication' = FALSE
    /\ smoke_indication' = FALSE
    /\ indication_in_flight' = FALSE
    /\ nextState' = "Idle"
    /\ channel' = 0
    /\ sample_light' = 0
    /\ sample_smoke' = 0
    /\ lightPower' = FALSE
    /\ smokePower' = FALSE
    /\ buzzer' = FALSE
    /\ conv' = "none"
    /\ comp1Enabled' = FALSE
    /\ signals' = {}
    /\ events' = <<Plain("system_boot")>>
    /\ advertising' = FALSE
    /\ link' = FALSE
    /\ cccd' = {}
    /\ outstanding' = NoIndication
    /\ barred' = FALSE
    /\ UNCHANGED rows

ClientBoots ==
    /\ cConnected' = FALSE
    /\ cOngoing' = FALSE
    /\ cServiceHandle' = [c \in Chars |-> "none"]
    /\ cCharsHandle' = [c \in Chars |-> "none"]
    /\ cState' = "Idle"
    /\ cStrip' = FALSE
    /\ cScanning' = FALSE
    /\ cOpening' = FALSE
    /\ cLink' = FALSE
    /\ cProcedure' = Client!NoProcedure
    /\ cEvents' = <<Client!Plain("system_boot")>>
    /\ cCccd' = {}
    /\ cUnconfirmed' = FALSE
    /\ UNCHANGED <<cRowConnection, cRowTempvalue, cRowAction>>

Reset ==
    /\ restarts < MaxRestarts
    /\ restarts' = restarts + 1
    /\ confirming' = FALSE
    /\ \/ ServerBoots /\ Remember /\ UNCHANGED client
       \/ ClientBoots /\ UNCHANGED <<vars, lastSent>>

SystemNext == ServerRuns \/ ClientRuns \/ Radio \/ Reset

SystemSpec == SystemInit /\ [][SystemNext]_systemVars

\* What a reading does when its indication is sent.
LightSent == /\ ServerDoes(ReadLight)
             /\ outstanding' # outstanding

\* Both superloops run and the server's peripherals do; the radio carries what
\* it is given and reports what is under way as ended; a node whose peer is gone
\* notices.  An attempt to connect does not fail every time, nor the sending of
\* an indication that the stack could send.  Nothing makes a link stay, or get
\* lost while both nodes have it.
SystemFairness ==
    /\ WF_systemVars(ServerDoes(HandleEvent))
    /\ WF_systemVars(ServerDoes(HandleSignal))
    /\ WF_systemVars(ServerDoes(AdcIrq))
    /\ WF_systemVars(ServerDoes(LetimerUnderflow))
    /\ WF_systemVars(ClientRuns)
    /\ WF_systemVars(ServerSeen)
    /\ WF_systemVars(ServiceFound \/ Subscription \/ NoAnswer)
    /\ WF_systemVars(IndicationArrives)
    /\ WF_systemVars(ConfirmationArrives)
    /\ WF_systemVars(~cLink /\ ServerLosesLink)
    /\ WF_systemVars(~link /\ cLink /\ ClientLosesLink)
    /\ SF_systemVars(Connect)
    /\ SF_systemVars(LightSent)

FairSystemSpec == SystemSpec /\ SystemFairness

-----------------------------------------------------------------------------
(* Properties                                                              *)

Connected == link /\ cLink

Quiet == events = <<>> /\ cEvents = <<>> /\ cProcedure = Client!NoProcedure

\* Whatever links were lost, on one side before the other, and whichever node was
\* reset in which state: once both nodes have the link and all that was queued or
\* under way is done, both think they are connected, the discovery is at its end
\* and the server knows its subscriber.  Neither firmware ever asks the other
\* again: a state in which they disagree would be for good.
Settled ==
    Connected /\ Quiet /\ ~barred =>
        /\ connected /\ light_indication
        /\ cConnected /\ cState = "smoke_discover"

\* What the sensor node promises on its own (LightServer) it keeps when it is
\* reset between any two steps, with the peer still thinking it is connected and
\* the display still showing what it did before.
ServerSurvivesResets ==
    /\ TypeOK
    /\ SubscriptionFollowsClient
    /\ ConnectedFollowsLink
    /\ IndicationsEndWithConnection
    /\ BuzzerOnlyUntilSmokeConversion

\* So does the actuator node with what it promises on its own (DiscoveryClient):
\* this server, or a reset of either node, makes it do nothing that the stack and
\* the server there do not.
ClientSurvivesResets ==
    /\ Client!TypeOK
    /\ Client!MachineFollowsConnection
    /\ Client!NeverStranded
    /\ Client!LightOnly
    /\ Client!NothingOutlivesConnection

\* With this client indication_in_flight is right except on a connection that an
\* indication timeout has made useless: no confirmation that is lost, late or
\* overtaken by a reset leaves it set on one that can still carry indications.
InFlightRightUnlessBarred ==
    indication_in_flight /\ ~barred =>
        \/ outstanding # NoIndication
        \/ \E i \in 1..Len(events) :
               events[i].id \in {"confirmation", "connection_closed"}

\* The client shows the reading that the server sent last in this connection, and
\* none before the first, except while that one is on its way: no value that is
\* queued, confirmed late or left of another connection or another life of a node
\* takes its place.
ShownIsLastSent ==
    Connected /\ ~barred /\ outstanding = NoIndication =>
        cRowTempvalue = IF lastSent = NoIndication THEN ""
                        ELSE Client!BuzzerText(lastSent.value)

\* The readings of the smoke sensor stay on the row of its own that the sensor node
\* shows them on (convert_smoke): none is sent or queued, none changes the row for
\* the action on either node, and the LED strip stays dark, also when the air is
\* clear of smoke (819) and every reading asks for light.
SmokeNeverLeaves ==
    /\ outstanding.char # "smoke" /\ rowAction = ""
    /\ \A i \in 1..Len(cEvents) : cEvents[i].char # "smoke"
    /\ cRowAction = "" /\ ~cStrip

\* After every loss of the link and every reset the nodes find each other again.
Reconnects == []<>Connected

\* On a link that stays, with no indication timed out, readings keep reaching the
\* client and being confirmed: the path from the timer over the sampling machine,
\* the subscription and the confirmation never blocks.
ReadingsArrive ==
    <>[](Connected /\ ~barred) => []<>cUnconfirmed /\ []<>~cUnconfirmed
=============================================================================

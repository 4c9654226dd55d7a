# TLA+ models of the ambient light and smoke nodes

The repository is the firmware of two Silicon Labs BG13 boards. One source tree
builds both, chosen by `DEVICE_IS_BLE_SERVER` in `src/src/ble_device_type.h`:

* the **sensor node** (BLE server) powers a light sensor and a smoke sensor in
  turn, converts each with the ADC, sounds a buzzer in the dark and indicates
  the readings to its client;
* the **actuator node** (BLE client) scans for the sensor node, discovers its
  services, subscribes, confirms the indications, shows them on its display
  and would switch an LED strip by the smoke reading.

This directory holds TLA+ modules of the two nodes and of the parts they share,
TLC configurations that check them, and theorems that TLAPS proves about them.
`PROJECT.json` maps every definition to the lines of code it stands for.

To repeat the checks: `tlc -config ServerSafety.cfg MCLightServer` and so on
(the table below names module and configuration), `tlapm LightServerProofs.tla`
and so on for the proofs.

## 1. The system

### 1.1 Components

| Component | Source | State it keeps | Operations |
|---|---|---|---|
| Sensor node: events | `ble.c` (`DEVICE_IS_BLE_SERVER` branches) | `ble_data`: `connected`, `light_indication`, `smoke_indication`, `indication_in_flight`; display rows | `handle_ble_event`, `ble_ambient`, `ble_smoke` |
| Sensor node: sampling | `scheduler.c`, `adc.c`, `gpio.c` | `nextState` of `light_state_machine`, `channel`, the two samples, power and buzzer pins | `light_state_machine`, `initADC`, `ADC0_IRQHandler`, `convert_light`, `convert_smoke` |
| Indication queue | `ble.c` (`write_queue` ... `get_queue_depth`, soft timer 1) | `my_queue`, `wptr`, `rptr`, `queue_entries` | write, read, depth, drain |
| LETIMER waits | `timers.c`, `irq.c` | LETIMER0's CNT, COMP1, IF, IEN; `rollover_count` | `timerWaitUs_irq`, `timerWaitUs_polled`, `LETIMER0_IRQHandler`, `letimerMilliseconds` |
| Actuator node | `ble.c` (client branches), `scheduler.c` | `connected`, `gatt_procedure_ongoing`, service and characteristic handles, `nextState` of `discovery_state_machine`, strip pin, rows | `handle_ble_event`, `discovery_state_machine` |
| Display | `lcd.c` | the EXTCOMIN toggle | `displayInit`, `displayPrintf`, `displayUpdate` |
| LED strip | `ws281b.c` | none | bit-banged output |
| I2C, Si7021 | `i2c.c` | transfer sequence | no live caller |
| Start-up, logging | `main.c`, `app.c`, `oscillators.c`, `log.c` | none | straight-line |
| Stack, drivers, generated code | `gecko_sdk_3.2.9`, `autogen`, `config` | - | third party |

### 1.2 How they interact

`sl_bt_on_event` (`app.c`) gives each event of the Bluetooth stack first to
`handle_ble_event`, then to the state machine of the build. The superloop runs
one event to its end before the next. Interrupts preempt it anywhere:
`LETIMER0_IRQHandler` raises the external signals UF (every 3 s) and COMP1 (end
of a wait) with `sl_bt_external_signal`, and `ADC0_IRQHandler` stores a sample,
toggles `channel` and starts a wait of its own through the same compare
register. The sampling machine moves on UF only, and only while `ble_data` says
that a client is connected and subscribed, so `ble.c` gates `scheduler.c`.
`ble_ambient` and `ble_smoke`, called from the machine, convert the sample
(which shows it on a row of the display, in mV), write the attribute, send the
indication and show what it says.

The two nodes share nothing but the radio link. The sensor node advertises, the
actuator node scans and connects; discovery and subscription are requests of
the actuator node that the sensor node's stack answers; the sensor node
indicates and waits for the confirmation. Each stack notices on its own that
the link is gone, and all a node knows is in RAM: a reset forgets it while the
peer goes on believing in the connection.

### 1.3 What is hard about it

1. **Four histories of one fact.** Link, queued events, `ble_data` and the state
   machine each have their idea of the connection. The first moves at any time,
   the second lags behind it, the third behind the second; the fourth is *not*
   reset by a disconnection on the server, and is on the client.
2. **Two counters that must agree without looking at each other.** `channel` is
   toggled by the ADC interrupt, `nextState` by the event handler. Whether a
   sample is light or smoke, and which input is converted next, rests on them
   staying in step through disconnections that freeze the machine anywhere.
3. **A shared compare register.** `timerWaitUs_irq` reads the counter, computes,
   writes COMP1, clears the flag and enables the interrupt, in four accesses
   that `ADC0_IRQHandler` may interrupt with a call of the same function.
4. **Wrap-around everywhere**: the counter's period, a 16-bit subtraction, a
   32-bit product, the pointers of a circular buffer, an unsigned counter that
   is only ever decremented.
5. **Calls that fail.** Sends are refused while an indication is unconfirmed;
   the client's machine moves on whether or not its GATT call was started.
6. **Two nodes that disagree.** One side may have lost the link, been reset or
   given up on a confirmation while the other has not; no message ever asks
   "are you still subscribed?", so a disagreement that outlives the link's next
   loss and return would be permanent.

`PROJECT.json` lists these and the rest under `hazards`, each at its line, with
the properties that cover it or the reason why none does.

### 1.4 What makes each component correct

* Sensor node: its flags follow the client's subscription and link whatever the
  order of events; nothing leaks from one connection to the next; sensors take
  turns, are read while powered and are switched off; a subscriber gets both
  readings again and again; a node without a link advertises; the buzzer sounds
  when it should.
* Queue: first in, first out, nothing overwritten or read twice.
* Waits: COMP1 is reached exactly the asked number of ticks later, is never
  signalled early, is signalled once, and is signalled at all.
* Actuator node: machine and connection agree; the discovery of a connection
  that stays gets to the subscription; a closed connection leaves no reading;
  as long as the stack carries out what it is asked, there is always a way back to
  the server.
* Both together: after any losses and resets they find each other, agree on
  connection and subscription when all queues are empty, readings flow and are
  confirmed for as long as the link stays, and the reading that the actuator node
  shows is the last one sent to it.

## 2. The models

| Module | What it models | Lines of code it stands for |
|---|---|---|
| `SensorCycle` | abstract: what the node promises about its sensors | - |
| `LightServer` | the sensor node with interrupts, stack and remote client | `handle_ble_event` (server), `light_state_machine`, `adc.c`, rows and pins |
| `MCLightServer` | readings for TLC | - |
| `BoundedFifo` | abstract: a bounded first-in first-out buffer | - |
| `IndicationQueue` | the circular buffer and its soft-timer handler | `ble.c` queue functions, soft timer 1 |
| `TimerArithmetic` | ticks, both compare values, milliseconds as operators | `timers.c`, `irq.c` |
| `TimerWait` | one call of the wait on the real constants | `timerWaitUs_irq` |
| `Letimer` | the timer, its handler and both callers, access by access | `timerWaitUs_irq`, `LETIMER0_IRQHandler`, `ADC0_IRQHandler` |
| `MCLetimer` | waits for TLC | - |
| `DiscoveryClient` | the actuator node with stack and server | `handle_ble_event` (client), `discovery_state_machine` |
| `TwoNodes` | both nodes, the radio and resets: `LightServer` extended, `DiscoveryClient` instantiated | `main`, `sl_bt_on_event`, and those of the two modules |
| `*Proofs` | theorems about the module they are named for | - |

### 2.1 Correspondence of `LightServer`

Variables carry the names of the code. `lightPower`, `smokePower`, `buzzer` are
pins, `conv` is the ADC input whose conversion is running, `comp1Enabled` the
COMP1 bit of LETIMER's IEN. `events` and `signals` are what the stack holds for
the application, `advertising`, `link`, `cccd`, `outstanding`, `barred`
what it knows itself. `rowLight` and `rowSmoke` are `DISPLAY_ROW_11` and
`DISPLAY_ROW_10`: the millivolts of the last conversion, or `Blank`. `Starts` is the
program loaded, `Init` that with an empty display.

Each `Handle...` action is one case of `handle_ble_event`, complete with the
calls it makes; `light_state_machine` ignores these events, because it looks at
external signals only. An external signal is one of `PowerLight`, `StartLight`,
`ReadLight`, `PowerSmoke`, `StartSmoke`, `ReadSmoke` (a transition with the whole
of the code under it, `ble_ambient` and the power pin included) or
`SignalIgnored`. `AdcIrq`, `LetimerUnderflow` and `LetimerComp1` are the
interrupts; `Environment` is the stack with the client.

Decisions worth knowing:

* Handlers are atomic, interrupts fall between them. No variable of this module
  that an interrupt writes is read twice by a handler. Where that does matter,
  in `timerWaitUs_irq`, `Letimer` splits the handler.
* `signals` is a set: the stack merges signals that are pending. They may
  overtake queued events; events keep their order.
* `LetimerUnderflow` needs `conv = "none"`: a conversion takes microseconds, a
  period three seconds. Without it the model would cut off conversions that
  the hardware always finishes.
* An indication can only be sent over a link, to a subscribed client, with no
  other unconfirmed and after no timeout. It may fail besides (`NotSent`).
* `light_status[1] = 0` in `ble_ambient` and `smoke_status[1] = 0` in
  `ble_smoke` write past a one-byte array. What is left of the local the row is
  chosen by is a choice (`shown`).
* Every conversion, sent or not, is shown (`adc.c:176`, `adc.c:205`), and
  `connection_closed` clears the other rows but not these two: the measurements stay
  until the next ones or the next `displayInit`. `IndicationsEndWithConnection` is
  therefore about what was *indicated*: the subscription, the flag and the rows for
  the buzzer and the action.
* `sl_bt_gatt_server_write_attribute_value` may fail, which is logged and changes
  nothing else. Nobody reads the attribute (the client only takes indications), so
  it is not a variable.
* The block for the smoke characteristic in the status event of `ble.c` is
  nested in the test for the light characteristic. It cannot run, and is not in
  the model: `HandleClientConfig` and `HandleConfirmation` do nothing for smoke.
* `sl_bt_advertiser_start` is assumed to succeed. If it failed the node would be
  unreachable until reset and `Readvertises` would be false at once.

### 2.2 Correspondence of the others

`IndicationQueue`: `write_queue` has no caller in the repository and soft timer 1
is never started. The module is the contract of the functions: any content, any
length, any time. `SoftTimer1` takes the entry out and then may or may not get it
sent, as the code does. Nothing is said of the queue being drained: only soft timer 0
is ever started (`lcd.c:320`), and the flag that holds the queue back may stay set
for good (finding 1).

`Letimer`: `Call`, `ReadCount`, `SetCompare`, `ClearFlag`, `EnableIrq` are the
register accesses of `timerWaitUs_irq` called by an event handler; `AdcIrq` is the
same call from `ADC0_IRQHandler`, which is not preempted by LETIMER (the
interrupts have the same priority), and is one step. `LetimerIrq` is the handler.
`left` and `leftCall` are history variables: the ticks left of the wait in the
register and of the wait about to be written. `Step` lets the event handler run
on only when no interrupt is pending.

`DiscoveryClient`: every event is one action for `handle_ble_event` followed by
`discovery_state_machine`. The machine is the set `Transitions`: state, event,
GATT call, next state. `Machine` raises `gatt_procedure_ongoing` and moves on
whether or not the call succeeds. The handles in `ble_data` are not cleared by a
disconnection, in the model as in the code. The connection handle is abstract: a
GATT call acts on the link there is. With `CallsMayFail` the stack may refuse any
call: starting or stopping the scanner, opening a connection, a GATT procedure, a
confirmation. The firmware logs the error and goes on: it opens a connection with
the scanner still running, and does not repeat a confirmation. With `ServerAnswers`
the server has the services and characteristics and grants the subscription;
without it a procedure may end with nothing found. `Overlapping` is a connection
that opens before the end of the last one was handled. On each value the client
also writes a constant text to its own `DISPLAY_ROW_10`, which is not modelled.

`TimerWait`: the action is `timerWaitUs_irq` up to the compare value. The test of the
range compares with `(uint16_t)Max_wait` inside a test with the untruncated
`Max_wait`, so it clamps like `Clamp`. `timerWaitUs_polled` has no live caller. It
takes a tick for a millisecond, so the 80 ms its header promises for a request of
80000 us (`timers.c:104-105`) are 80 ticks, about 9.8 ms; and it waits for the
counter to *equal* one value, which a preemption longer than a tick would miss.
Only the value it waits for is an operator (`PolledTarget`, of `TimerArithmetic`);
the loop is not modelled and nothing is claimed of it.

### 2.3 The composition

`TwoNodes` extends `LightServer` and instantiates `DiscoveryClient` as `Client`, its
variables with a `c` in front. Neither module's `Environment` is used as a whole:
each action of `Radio` joins the environment actions of the two sides that are one
event on the air.

* `Connect` is `ClientConnects` of the server and `ConnectionOpens` of the client in
  one step. `ServerLosesLink` and `ClientLosesLink` are two steps, in either order:
  in between one side has a link and the other has none. The server advertises
  again, and can be connected to, only when the client has noticed.
* `ServiceFound`, `Subscription` and `NoAnswer` end a procedure of the client: the
  first two while the server has the link and its GATT is usable, the last otherwise.
  The server has a light service, so a procedure that reaches it is answered: the
  client is instantiated with `ServerAnswers <- FALSE`, and only `NoAnswer` uses that.
* `IndicationArrives` carries the value of `outstanding` to the client; the client's
  handler confirms it, which sets `confirming`; `ConfirmationArrives` gives it to the
  server, and is ignored when the server no longer waits. Losing the link on either
  side loses a confirmation on its way. `NoConfirmation` is the server's timeout.
* `Reset` puts one node's variables where its `Starts` has them, at any time, with the
  peer unchanged. The display keeps its rows until `system_boot` is handled, where
  `displayInit` clears it.
* `lastSent` is a history variable that no guard reads: the last indication the server
  sent on the link it has (`Remember`).

The client's stack carries out the calls it can (`CallsMayFail` is FALSE): refusals
are `DiscoveryClient`'s subject. Advertisers other than the sensor node occur there
too, not here.

## 3. What is checked

| Run | Module, configuration | Checks | Size |
|---|---|---|---|
| `server_safety` | `MCLightServer`, `ServerSafety` | types, `SubscriptionFollowsClient`, `ConnectedFollowsLink`, `IndicationsEndWithConnection`, `BuzzerOnlyUntilSmokeConversion`; implements `SensorCycle` | 2,180,511 states |
| `server_liveness` | `MCLightServer`, `ServerLiveness` | `SensorsSwitchedOff`, `BothSensorsRead`, `Readvertises` | 44,757 states |
| `server_in_flight` | `MCLightServer`, `ServerInFlight` | finding 1 | violated |
| `queue_fifo` | `IndicationQueue`, `QueueFifo` | types, implements `BoundedFifo` | 33,953 states |
| `queue_lengths` | `IndicationQueue`, `QueueLengths` | finding 2 | violated |
| `timer_wait` | `TimerWait`, `TimerWait` | `TargetIsTicksAway` at all 24591 counts | 147,546 states |
| `timer_long_wait` | `TimerWait`, `TimerLongWait` | finding 3 | violated |
| `letimer_races` | `MCLetimer`, `LetimerRaces` | types, `NeverEarly`, `OneSignalPerCall`, `EveryWaitEnds` | 789,684 states |
| `letimer_milliseconds` | `MCLetimer`, `LetimerMilliseconds` | finding 4 | violated |
| `client_discovery` | `DiscoveryClient`, `ClientDiscovery` | `NeverStranded`, `DiscoveryCompletes` | 14,953 states |
| `client_failures` | `DiscoveryClient`, `ClientFailures` | types, `MachineFollowsConnection`, `LightOnly`, `NothingOutlivesConnection`, with calls refused | 50,706 states |
| `two_nodes` | `TwoNodes`, `TwoNodes` | `Settled`, `ServerSurvivesResets`, `ClientSurvivesResets`, `InFlightRightUnlessBarred`, `ShownIsLastSent`, `SmokeNeverLeaves`, `Reconnects`, `ReadingsArrive` | 591,976 states |

### 3.1 Bounds

* `MaxQueued = 3` events in `server_safety`: enough for a connection's opening, a
  change of subscription and its end to be queued at once, and for two changes
  behind an opening. The theorems of section 4 hold for every length.
  `server_liveness` uses 2 and one reading: liveness does not look at readings.
* Readings 819 (499 mV) and 1639 (1000 mV), thresholds 1000 and 500 mV: each
  side of both thresholds, one of them exactly on the light threshold.
* `QUEUE_DEPTH = 4` with lengths that are refused, accepted and zero:
  the pointers wrap in every relative position; proved for every depth.
* The real timer has 24591 ticks per period. `timer_wait` covers all of them with
  the waits the firmware uses. `letimer_races` has a period of eight ticks and
  waits of 2 and 5, so that waits start before and after the wrap and end while
  their caller is preempted; three calls let one be preempted and a third come
  after it. `NeverEarly` and `OneSignalPerCall` are proved for all constants.
* `MaxQueued = 6` on the client: reports leave room for the two events with which
  a procedure ends. Both runs have late reports. `client_failures` also has calls
  refused and a server that may lack what it is asked for: the invariants checked
  there hold whatever fails, and with the scanner still running connections follow
  each other in the queue. What is false with refusals is checked in
  `client_discovery`: the client can then be stranded (`sl_bt_connection_open` fails
  after the scanner was stopped) or stop in the middle of the discovery.
  `client_failures` has `CHECK_DEADLOCK FALSE` because the stranded client really
  stops. So do `timer_wait`, which makes one call of the wait, and the two violations
  on `TimerWait` and `Letimer`.
* `DiscoveryCompletes` is asked with a server that has the light service and grants the
  subscription, and of behaviours in which no connection overlaps another: then every
  connection that stays gets to the subscription itself, not merely to some state of the
  machine. With overlapping connections it is false, see the last item.
* `two_nodes`: one reset, which may fall on either node in any state; two events queued
  at the server, three at the client (two for the end of a procedure and one more);
  readings on both sides of the light threshold, so that one shown can differ from the
  last one sent. With two resets there are 951,578 states and the same result. The
  theorems on its invariants hold for any number of resets.
* `two_nodes` has `LateReports = FALSE`: no second report of the server is queued
  behind the one that made the client connect. With `TRUE` TLC finds `Settled`
  violated. A late report handled just after the link is lost opens the next
  connection while the first one's opening and end are still queued. The first opening
  makes the machine call the discovery, the end sends it back to `Idle`, the second
  opening makes it call the discovery again; then the end of the first call is taken
  for that of the second, the next calls are refused, and the machine stops in
  `smoke_discover`, connected, with no subscription, until the link is lost. It
  takes a report that waits for a whole connection's life; an event is handled in far
  less than the advertising interval. `PROJECT.json` has it as a hazard.
  `ShownIsLastSent` rests on the same order of events, the opening of a connection
  handled before its first reading is sent. Hence the hypothesis `~LateReports` of the
  theorems on these two; the other invariants of the run are proved without it.

### 3.2 Fairness

* Server: weak fairness of event handling and signal handling (the superloop
  always comes round), of the ADC interrupt (a started conversion completes) and
  of the underflow (LETIMER runs free). None of the client or of the link:
  `BothSensorsRead` has the client's staying subscribed as its hypothesis.
* Timer: weak fairness of ticks and of the interrupt; strong fairness of the
  event handler's accesses, which interrupts disable for a moment again and again
  but cannot starve, as serving one takes far less than the time to the next.
* Both nodes: both superloops and the server's interrupts as above; weak fairness of
  what is on the air (reports, answers, indications, confirmations) and of noticing
  that the peer has no link any more (the supervision timeout). Strong fairness of
  `Connect`, because an attempt may fail again and again but not for ever, and of
  `LightSent`, because a send that the stack could do does not fail every time. None
  of `Reset`, of losing a link that both have, of `NoConfirmation`: `Reconnects`
  holds whether or not links stay, and `ReadingsArrive` has a link that stays as its
  hypothesis.
* Client: the superloop; an attempt to connect and a GATT procedure come to an end
  (the stack has timeouts for both). The server need not show up, and nothing is
  asked of an open link: it may last for ever, or be lost at any time.

### 3.3 Findings

1. `indication_in_flight` stays set when an indication times out (`ble.c:803`)
   and when a smoke indication is confirmed, although `ble.h:88` calls it "true
   when an indication is in-flight".
2. `write_queue` accepts 2 to 4 bytes (`ble.c:146`); `ble.h:65-67` asks for 1 to 5.
3. A wait of `Max_wait`, 3 s, lasts 0.38 s: `us_wait * freq` wraps at 32 bits
   (`timers.c:173`). No present caller waits that long.
4. `letimerMilliseconds` adds ticks to milliseconds (`irq.c:60`).

Two more things the models show and hold as properties, because the repository
promises nothing else: the client never subscribes to smoke (`LightOnly`), since
`smoke_discover` waits for a connection to open while one is open; and the
buzzer is silenced by the *start of the smoke conversion*, since `initADC`
configures the buzzer's pin anew (`BuzzerOnlyUntilSmokeConversion`). The first
makes `SmokeNeverLeaves`: the sensor node powers and reads the smoke sensor in every
cycle and shows the reading on its own row 10, and it is never sent, shown on the row
for the action, or acted on.

`InFlightRightUnlessBarred` says how far finding 1 reaches with this client: it
never subscribes to smoke, so the flag is wrong only after a timeout, on a
connection that cannot carry indications any more.

## 4. What is proved

The assumptions are the named `ASSUME`s of the modules: non-empty periods and
queues, readings of 12 bits, words wide enough for two periods, and
`WaitsAssumption`: a wait takes between one tick and a period. The waits of the
firmware (3, 80 and 300 ms of 3 s) satisfy it, and TLC evaluates it on the real
constants in `timer_wait`.

* `IndicationQueueProofs`
  - `TypeCorrect`.
  - `QueueImplementsFifo`: under the mapping `fifo <- Pending`, `item <- entry`.
    Types are the whole invariant needed; the work is in `WriteIsPut` and
    `ReadIsGet`, which follow each entry to its slot before and after the step
    through `SlotOf`.
* `LightServerProofs`
  - `TypeCorrect`, with one lemma per class of actions.
  - `ServerImplementsCycle`: `SensorCycle`'s guards do not hold in `LightServer` by
    looking at the guards there, since nothing in the code compares `channel`,
    power and state. `SensorInv` is the inductive invariant that does: where
    `channel` and the conversion stand in each of the six states, which sensor has
    power, and that no underflow is pending while a conversion runs, which is why
    the machine never reads a result that is not there. It says nothing of the
    connection: that is why a disconnection cannot break it.
* `LightServerConnectionProofs`, for queues of any length
  - `QueueInv` describes what can be queued: the boot event alone; an opening
    only at the head; an end only as the last; in between only events of that
    connection; and with an end queued no link. It is needed because the three
    properties below are each about what *will* be known when the queue is empty.
  - `ConnectionFollowed`, `IndicationsEnd`, `SubscriptionFollowed` follow from it:
    the last one by an induction on steps that tracks the last queued event that
    decides the subscription.
  - `BuzzerSilenced`: the buzzer against the reading on row 11, which nothing clears but
    `system_boot`; `BuzzerInv` adds that nothing is measured before that is handled.
* `TimerArithmeticProofs`, `TimerWait`
  - `TargetTicksAway`: both branches of the computation of the compare value, with
    the wrapped 16-bit subtraction, for every period, width, count and wait.
  - `WaitsTargeted`: so every call of `timerWaitUs_irq`.
  - `PolledTargetReached`: the value `timerWaitUs_polled` compares the counter with is
    one that the counter shows, so many ticks later, or one more across the reload. It
    says nothing of the loop that looks for it, nor that ticks are milliseconds.
* `DiscoveryClientProofs`, for queues of any length
  - `TypeCorrect`; `TransitionTable` and `MachineFacts` are what the other proofs use
    of the machine.
  - `MachineFollows`: `MachineFollowsConnection` is not inductive, since two
    openings in a row would break it. `ConnectionInv` says why there are none:
    between two openings an end is queued, and before the next opening the end
    of the connection that the firmware has. It allows connections to overlap in the
    queue, so late reports are included.
  - `NotStranded`, when calls are carried out: `WayBack` adds the events that lead
    back to scanning.
  - `NothingButLight`: `LightInv` follows the absence of smoke from the machine's
    states over the procedure and the queued results to the handles and the CCCDs. The
    step that matters is that an opening is handled in `Idle` only.
  - `ConnectionsApart`, when calls are carried out and without late reports: connections
    never overlap. `ProcedureInv` says that one thing goes on at a time: scanning,
    connecting, a procedure or its end; at most one report of the server is queued and
    only while scanning. Both hypotheses are needed: a scanner that was not stopped
    reports the server again.
  - `NoReadingOutlives`: `ReadingInv` adds where in the queue values may stand: behind an
    opening, or in the connection that the firmware has, with no end in between. So
    none is handled after the rows were cleared.
  - The last sections prepare the composition. `HandleInv`: what the client subscribes
    to it has found, so it recognises a value it is sent. `OnCourse` says where the
    machine, the procedure, the queued results and the handles stand in a connection
    whose every request was answered; its lemmas say that each handler keeps it, and
    `CourseDone` that with nothing left to do it is the subscription.
* `TwoNodesProofs`
  - `NodesAsSpecified`: the composition implements each node's module, up to resets.
    It is what makes the invariants proved for each node alone worth having.
  - `ResetsSurvived` and `ClientResetsSurvived`, from the invariants of each node and
    because a reset is `Starts` with the display as it was: its peer may still have the
    link, but no node's invariant says anything about the peer beyond what its own
    environment may do.
  - `SmokeKept`: `Served` is the server's side of `LightInv`: no subscriber, no
    indication and no queued event but about light. It holds because subscriptions are
    the client's requests, and the client's procedures never get to smoke.
  - `InFlightRight`: the property is inductive together with the types and `Served`. The
    flag is cleared by a confirmation about light only, so that a confirmation or an
    end stays queued after others are taken rests on there being no other kind.
  - `SettlesInAgreement`, without late reports. `Settled` speaks of moments at which
    nothing is under way, so nothing about the step before one follows from it. The
    invariant speaks of all moments: `Agree` (on a link both have, the server knows the
    client's subscription) and `Progress` (on such a link that is not barred, the
    discovery is on course). The argument for `Progress`: while the client keeps its
    end, the server's end can be lost but not regained, since the server is connected
    to only by a client that has no link. So on a link that both have, no request has
    gone unanswered, however it came about. `Node!ProcedureInv` makes a connection
    open with nothing queued, which is what late reports break.
  - `ShownLastSent`, without late reports: `Delivery` follows one indication. The last
    one sent is on the air (outstanding, the client confirmed all before), or queued at
    the client, or shown with its confirmation on the air, or at rest: shown, confirmed
    and equal to `lastSent`. `OwnLink` (a value or a confirmation under way belongs to
    the link the client has, `lastSent` to that of the server) keeps an earlier
    connection out of it, and the client's `HandleInv` makes sure that the value, when
    handled, is shown.
* `LetimerProofs`
  - `TypeCorrect`: with `TicksFit` (the wait under way is within a period).
  - `WaitsNeverEarly`: `WaitInv` ties the history variable to the hardware: what is
    left of the wait is the distance of the counter to COMP1, or nothing when the
    counter had passed the value before it was written. `NeverEarly` then is that
    a flag let through is not stale. `TickCloser` is the arithmetic.
  - `OnceSignalled`: signals, an enabled interrupt and a call under way are each
    backed by a call (`CallsBacked`).

Model-checked only: all liveness properties (`BothSensorsRead`,
`SensorsSwitchedOff`, `Readvertises`, `EveryWaitEnds`, `DiscoveryCompletes`,
`Reconnects`, `ReadingsArrive`), which TLAPS does not prove. Every invariant that a
passing run checks is proved; `NotStranded` assumes that the stack carries out
calls, and `SettlesInAgreement` and `ShownLastSent` that reports are not late.

## 5. What is not modelled

* `lcd.c`: the rows are variables of both nodes, as texts out of small sets or, for the
  sensor node's two measurements, as millivolts. Rows with constant text or an address
  (the title, the passkey, the client's row 10) are left out. What is left of the file
  has one bit of state: `displayUpdate` complements the EXTCOMIN pin on each tick of a
  soft timer that `displayInit` starts once. `displayPrintf` bounds what it formats; no
  text of the firmware comes near the bound.
* `ws281b.c`: bits output with delays of single instructions; nothing but timing.
* `i2c.c`: no live caller, and the handler of its interrupt is commented out. The only
  calls of `timerWaitUs_polled` are commented out there; the value it compares with is
  modelled because the header offers the function, its loop and what may preempt it
  are not.
* Failures of `sl_bt_gatt_server_write_attribute_value`, and the attribute itself
  (section 2.1).
* Start-up (`main.c`, `app.c`, `oscillators.c`) is the `Starts` of the models, which a
  reset returns to; logging is left out.
* There is no bonding and no button handling in this code.
* The stack and the SDK under `gecko_sdk_3.2.9`, and the generated code, are external:
  only what the firmware relies on is stated. They are nearly all of the lines in
  `src/`, so the share of lines that the map covers stays small although the
  firmware's own modules are covered but for the above.
* `TwoNodes`: stacks that refuse calls, further advertisers, more than one client.

## 6. Plan

Done, in the order in which the behaviour matters: `LightServer` with
`SensorCycle`; `IndicationQueue` with `BoundedFifo`; `TimerArithmetic`,
`TimerWait`, `Letimer`; `DiscoveryClient`; `TwoNodes`; their proofs.

What would come next: a proof that the history variable `left` in `Letimer` refines a
one-shot wait; and an abstract specification of the pair of nodes (a link, a
subscription, readings passed on) that `TwoNodes` implements.

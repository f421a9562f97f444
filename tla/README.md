# PlantNode in TLA+

PlantNode waters a plant. A CHERIoT board reads a moisture sensor, pulses a pump
when the soil is dry, and reports over MQTT to a verifier, *Charter*, which
attests the board, draws its readings and sends it new thresholds. This directory
specifies the parts of that system whose correctness depends on the order of
things: two threads and one core, two I2C devices on one bus, a broker that
delivers at least once, a verifier that keeps sessions.

All source paths are relative to the root of the repository: the firmware is in
`src/`, Charter in `charter/`. (In `PROJECT.json` they carry the prefix `src/`.)

| Module | What it is |
| --- | --- |
| `I2cDriver` | the I2C driver: reservations, leases, batches, both locks, the futex |
| `I2cClaims` | what the driver promises: one expiring claim per device |
| `I2cDriverProofs` | theorems about `I2cDriver`, among them that it implements `I2cClaims` |
| `Irrigation` | the watering loop, its policy, the pump, the mock sensor, the mailbox |
| `IrrigationProofs` | theorems about `Irrigation` |
| `TemperatureSensor` | the AHT20 compartment: calibration on first use, the measurement |
| `Display` | the pages of the screen as calls of the LCD library, and what a call that is interrupted has drawn |
| `Readings` | a reading on its way from the sensors to report and screen, and watering, which shares the screen |
| `Conversions` | the arithmetic of both sensors, and the lengths of the texts made from a reading |
| `ConversionsProofs`, `ReadingsProofs` | theorems about the arithmetic and about readings |
| `ScreenProofs` | theorems about what two threads leave on one screen |
| `Controller` | what the node promises Charter; `Irrigation` and `Charter` both implement it |
| `Uplink` | the telemetry thread and the comms compartment, against a broker and a verifier |
| `UplinkProofs` | theorems about `Uplink` |
| `Charter` | the verifier's sessions, waterings and commands, against a node and a broker |
| `CharterProofs` | theorems about `Charter`, among them that it implements `Controller` |
| `StreamLemmas` | what sending and receiving do to a FIFO stream, for both proofs about messages |
| `MCI2cDriver`, `MCIrrigation`, `MCReadings`, `MCUplink`, `MCCharter` | small instances for TLC |

## 1. The system

### Components

**i2c_driver** (`src/drivers/i2c_driver.cc`). *State*: a table of four
reservations {active, address, owner, deadlineTick, isLease} under
`sReservationLock`; the futex word `sReservationGen`, bumped on each release and
each expiry that somebody notices; the bus lock; the lazily initialised
controller. *Operations*: `i2c_transact` runs a batch of write, read and delay
steps under one reservation; `i2c_lease_acquire` and `i2c_lease_release` keep a
device across batches; `i2c_write`, `i2c_read` and `i2c_write_read` are batches of
one or two steps. *Hard*: a claim can expire between any two lines, and the check
that it has not is made under a different lock from the transfer. *Correct if*: a
device has one claim at a time; nobody loses a live claim; a batch leaves no claim
behind; a waiter is woken; no claim outlives the ceiling of its capability.

**irrigation** (`src/irrigation.cc`), **policy_engine** (`src/policy_engine.cc`),
**pump_driver**, **moisture_sensor**. *State*: the mailbox `sLastWatering` under a
lock; the threshold `sMoistureLow` and `sLastCommandTimestamp`; the pump; the value
`sFakeMoisture` of the mock that stands in for the sensor. *Operations*: the loop
sleeps, reads, evaluates, perhaps pulses the pump for 2.5 s, and posts the time of
the reading; `policy_update_threshold` applies a command that is newer than the
last; the mock returns its value and steps it. *Hard*: irrigation has priority 3
and telemetry priority 1, and telemetry calls the mock, the threshold and the
mailbox too, so irrigation can preempt it between any two loads and stores.
*Correct if*: the threshold in force is that of the newest command, the mock never
wraps, the pump is switched off after each pulse, and the mailbox tells of
pulses that took place.

**telemetry** (`src/telemetry.cc`), **comms** (`src/comms.cc`), **crypto**
(`src/crypto.cc`). *State*: the connection handle, the count `sAckReceived`, the
one-message slot `sRaBuf`/`sRaPending`, the latch `sAttested`, the session keys
and the message counter `sMsgId`. *Operations*: connect and subscribe to two
topics, publish the key packet once, then in each cycle ask to be attested,
publish a reading once attested, and poll ten times. *Hard*: acknowledgements are
counted, not matched to packets; results of publishes are logged and forgotten;
the answer arrives on a topic that also echoes the question. *Correct if*:
connecting waits for both subscriptions, a publish that succeeds has been
acknowledged, no reading leaves before a confirmation, the key goes before the
readings, and an answer that arrives is acted upon.

**attestation**, **tpm**: mocks that hand out constants.

**temperature_sensor** (`src/drivers/temperature_sensor.cc`). *State*: a latch that
calibration has been seen to. *Operations*: `temperature_read_both` reads the
status and perhaps sends the init command on first use, then runs a batch of trigger,
wait and read, and converts two 20-bit fields. *Hard*: any transfer may fail, also
after it has reached the chip. *Correct if*: what it returns comes from a
calibrated chip and is exact to a tenth.

**display** (`src/display/display.cc`). *State*: one LCD. *Operations*: a page each
for connecting, connected, a reading, and the two notices of the pump; each clears
the screen and draws a title bar and one to three lines, each line built in a buffer of 24
characters if it holds a number. *Hard*: both threads draw and there is no lock.
*Correct if*: a notice is whole when it is shown, never lies about the pump, and no
text overruns its buffer.

**Charter** (`charter/`): a session per device, replaced by each key packet; the
last watering seen in it, from which new waterings are detected; a message
counter per session; threshold commands stamped with the second they were sent
in; and a mock verifier that answers yes to every query. Its plots, CSV log and
configuration are plain output and constants.

`audit/plantnode.rego` is a static policy on the linked image. `xmake.lua` gives
the threads their priorities.

### How they meet

- irrigation → moisture_sensor, policy_engine → pump_driver, display (calls, on the
  irrigation thread)
- telemetry → comms → MQTT; the callbacks of MQTT run inside `mqtt_run` on the
  telemetry thread, and one of them calls policy_engine
- telemetry → moisture_sensor, temperature_sensor → i2c_driver; and irrigation's
  mailbox
- comms ↔ broker ↔ Charter (messages: key, telemetry, attestation, commands, ping)
- shared between the two threads: the mock's value, the threshold, the mailbox,
  the screen; and the I2C bus, once the mock is replaced by the sensor

## 2. The models

### I2cDriver, I2cClaims

Each thread has a program counter. Where the code holds `sReservationLock` a
region is one action: `StartReserve`, then `Reserve` (its four outcomes
`ReserveFree`, `ReserveFull`, `ReserveOwn`, `ReserveBusy`), `FutexWait`,
`FutexTimeout`, `LeaseCheck` (whether this claim is a lease, and so kept), for
each step `CheckStep` (the claim is still ours), `BusLock`, `Transfer`, or
`DelayStep`; then `Finish`. `LeaseRelease` is one action. `Call` is what the
caller asked for, with the arguments the code checks, and the early returns are
the `Refusal` operators in the order of the code.

Time is relative: a claim holds `ticksLeft`, and `Tick` counts every claim down,
so the model needs no bound on the clock. A claim with none left is still in
the table until some call sweeps it, as in the code. The generation of the futex is
`fresh`, the set of threads whose snapshot still equals `sReservationGen`; a
release or expiry empties it. That abstracts only the wrap of a 32-bit counter.
A step fails or succeeds by choice: bytes on the bus are not modelled. A delay may
last any time, which includes the minimum the code guarantees.

The controller is set up by the first transfer, under the bus lock: `BusLock` sets
`sInitialized`.

`I2cClaims` has one variable, the claim of each device, and four actions: acquire,
give back, sweep, tick. The refinement maps a device to the only claim `find_locked`
can find for it.

### Irrigation

Both threads, each access to a shared variable an action of its own: the mock is
`MockLoad`, the comparison (`MockDry`, `MockWet`), and then `MockReset`, or `MockReload`
and `MockStore`; policy is `EvaluateDry`, `EvaluateWet`,
`EndPulse`; a command is `RefuseCommand`, or `ApplyThreshold` and `StampCommand`.
`MayRun` is the scheduler: a thread moves only if no more urgent one can.
Telemetry therefore never runs while irrigation is between two loads, only while
it sleeps or waits, and irrigation interrupts telemetry anywhere. Irrigation's
mailbox lock needs no variable: `irrigation_get_last_watering` is one load of a
word. Commands come in any order and any number of times, which is what QoS 1 and
a reconnecting publisher allow. `Wrap` is the conversion to `uint16_t`.

The source loads `sFakeMoisture` three times in a call: for the caller
(`moisture_sensor.cc:88`), for the comparison (`:97`) and for the step (`:103`). Nothing
lies between the last two, so a compiler may load once for both; `MockReload` allows
either.

The scanner of the command's text is abstracted to its outcome. Times are seconds
of the real clock; `synced` says that SNTP has set it, before which
`gettimeofday` fails.

### Uplink

The telemetry thread with everything it calls in comms, and the two callbacks.
`up` and `down` are the packets on the TCP connection in order. `Faults` names
what may go wrong in a run: a refused connection, a rejected subscription, a call
that fails on a live connection, a lost connection, no session key, a failed
sensor, a message that `publish_callback` cannot claim or finds too long (`Unclaimed`, its
early returns). `sAckReceived` is counted from the last publish on, since the code only
ever compares it with its value there; `comms_connect` sets it to 0 itself, and a
mutant leaves that out. A packet that was under way when its wait was given up is
marked late. The broker acknowledges what arrives, and copies a query to the node,
before or after its acknowledgement; the verifier answers; others speak on the
topic (`Noise`). The wait for acknowledgements has no end of its own because in the code it
has none: `wait_for_ack` overwrites its time-out at `comms.cc:210`. `heard` is the
history of the slot: what has reached the callback since `Drain` last emptied it, kept
or not.

Threshold commands, the other topic, belong to `Irrigation`.

### Readings, TemperatureSensor, Display, Conversions

`TemperatureSensor` follows `temperature_read_both` from transfer to transfer: `ReadStatus`,
`SendInit`, `Settle`, `Measure`. Each transfer succeeds or fails; a failed init
command may have reached the chip all the same. The answer to a measurement is any
of `Buffers`, whatever the chip's state: that it is calibrated is what the property
is about.

`Display` defines each page as the sequence of LCD calls the code makes for it, and a
screen as what was last drawn on each of its `Areas`, which may be as small as pixels. A call
covers a set of areas (`Box`, `TitleBar`); boxes may overlap, as those of rows 46 and 48 do.
`Draw` is not a call but one area of it, in any order, or the return of a call that has none
left (`CallReturns`): a thread may be preempted anywhere inside `clean`, `fill_rect` or
`draw_str`, and goes on later where it was. A text stands for its label and covers the same
areas whatever its numbers, whose lengths are in `Conversions`. The title bar and the
node's name on it are one call. Drawing does not block, and the LCD object is there from
the start: its first construction, on the thread that draws first, is left out.

The LCD library is not in the repository. What happens when it is interrupted in the middle
of a transfer, and the other thread sets a window of its own on the same controller, is outside
the model: it is assumed that the rest of the interrupted call still goes where it belongs. Without
that, nothing can be said of a screen that two threads draw on.

`Readings` puts both threads around them. Telemetry shows how connecting goes, takes a
reading, publishes and shows it; irrigation shows a notice before and after each pulse.
A call to the display returns before its caller goes on (`Goes`). Priorities are as in
`Irrigation`: irrigation preempts telemetry between any two areas, so also inside a call, and never the
other way round. What the mock, the clock and the mailbox give is chosen freely here and worked
out in `Irrigation`; so is whether the soil is dry.

`Conversions` has no state: `parse_measurement`, the word and the percentage of the soil
sensor, and how many characters `append_uint`, `append_decimal` and the writers of
`crypto_encrypt` produce. Shifts by constants are products and quotients.

### Controller

Two modules model the node: `Irrigation` its threads, `Charter` its restarts and its
place on the network. `Controller` says what the second may rely on of the
first: of the commands only a newer one takes effect; a pulse has a time no earlier
than the last; what is in the mailbox is replaced by the time of the last pulse; a
restart forgets all of it. Both modules implement it, which composes
them: what holds in `Charter` of any node that behaves like a `Controller` is about the
node of `Irrigation`. In `Irrigation` the last pulse is the greatest of `pulses`, and the
mailbox may lag behind it; in `Charter` pulse and post are one step.

### Charter

The verifier's two threads: the MQTT client's runs `on_connect` and `on_message`
(`KeyMessage`, `UnreadMessage`, `TelemetryMessage`), the window's runs
`send_threshold_update` (`StampCommand`, `PublishCommand`). The node is reduced to
what a session needs of it: a `Reboot` that starts every compartment's statics again, the
key packet, a report with the last watering, and the fate of a command
(`DropCommand` under another key, `StaleCommand`, `TakeCommand`). A key is the
number of the boot that made it; only that key decrypts what it has encrypted.
The broker keeps the last key packet and sends it on every subscription. Both ends
restart, Charter's connection comes and goes, and the broker repeats commands.

Charter's restart takes at least a second, so that two runs of it never stamp
commands with the same second. The clock does not go back. Connecting and
subscribing is one action; a report that falls between the subscriptions is lost as
if the connection came later. The message counters only enter the encryption and
are left out, as are the queues to the plots, of which `announced` is the one for waterings.

## 3. The runs

| Run | Question | Answer |
| --- | --- | --- |
| `i2c_leases` | do two threads keep the table straight, with leases and expiry? | yes: seven invariants and action properties, and `I2cClaims` is implemented |
| `i2c_batches` | with the shipped capabilities and a table that fills up, does every waiter wake and every batch end? | yes |
| `i2c_foreign` | does the check before a transfer keep others out? | no: the claim runs out while the thread waits for the bus lock |
| `i2c_lockout` | does the expiry of a lease wake its waiter? | no: only a further call notices it |
| `irrigation` | watering against telemetry: threshold, mock, mailbox, pump | right under every preemption and delivery, and `Controller` is implemented |
| `readings` | is a reading calibrated, exact and within its buffers, and are the notices of watering whole and true? | yes; without a lock, the end of telemetry's page, perhaps from the middle of a call, may lie over a notice |
| `uplink_hard` | acknowledgements, gate, key and slot under every fault | right, as far as a failed publish and a full slot allow |
| `uplink_live` | the connection may be lost: does a node that keeps it report again and again, and does every wait end? | yes |
| `uplink_reject` | does a connect that succeeds mean both topics are subscribed? | no: a rejection is counted too |
| `uplink_late_ack` | does a publish that returns 0 mean it was acknowledged? | no: after an abandoned wait, a late one is taken for it |
| `charter` | restarts at both ends: do sessions meet, are waterings announced once and truly, are stale commands warned about? | yes, and `Controller` is implemented across restarts |
| `charter_change` | is every change of the last watering announced? | no: a reconnection brings the key packet back, and with it a new baseline |

Each property of a passing run has a mutant of the code, next to the definition
it replaces, that breaks it.

### Bounds

- *I2C*: two threads and two devices, one leasable; two slots, as many as devices
  (the source has four slots for two devices; `TableNeverFull` is proved for any
  table at least as large as the devices), and in `i2c_batches` one slot, so that a
  caller finds the table full. Batches: the sensor's write, delay and
  read; a write with a delay of no length; one with no buffer; an empty one. One tick is 10 ms, so that a lease of
  20 ms spans two ticks and can expire within any batch. Threads are symmetric
  in the safety run only. At this commit only telemetry reaches the driver, through
  the temperature sensor, because irrigation reads the mock. The driver is written for
  more: it locks, queues and leases. Two threads are what the board will have there
  once `moisture_read_raw` replaces the mock; the proofs are for any number.
- *Irrigation*: the constants of the source, except that the mock resets to 480 instead
  of 900, which leaves seven steps of its cycle out; the way from 480 down past 300, and
  what preemption can make of it, is all there, and the proof is for any reset. Four commands: an older one, two of
  one later second, one whose threshold does not fit. The clock stops at 1 but time
  goes on: what matters is before and after SNTP, equal and different.
- *Readings*: answers of the chip with each byte at its least and greatest, and the byte the two fields
  share at values that differ in either half; a busy answer; two ordinary ones. The least and
  greatest time, and a dry and a wet soil. Six areas of the screen: the title bar; row 30; row 46 alone;
  what rows 46 and 48 share; what rows 62 and 64 share; row 64 alone. So a box of two areas
  can be left half drawn, and a line can lie over half of another. The theorems of `ConversionsProofs` and
  `ReadingsProofs` are for every answer.
- *Uplink*: two packets under way in each direction, which is one acknowledgement
  and one message, or two late ones; two polls per cycle instead of ten, one that finds
  something and one that does not. In `uplink_live` three packets, so that echo and
  answer can wait together.
- *Charter*: two boots, two seconds, two messages each way. Two boots give an old
  and a new key; two seconds give equal and later times; two messages let a repeated
  command fall behind a newer one, and a report of the old key behind the new key's packet.

### Fairness

- *I2C* (`FairSpec`): time passes, a thread inside the driver goes on, and a
  transfer terminates. Strong fairness on taking the bus lock, which may be free
  only now and then: it is held for one transfer at a time and inherits priority,
  so a waiter gets it sooner or later. Callers make further calls or not; nothing is
  assumed of them. `i2c_lockout` is refuted under the same assumptions.
- *Irrigation*: time passes and the most urgent thread runs. Nothing is assumed of
  telemetry; it may stop in the middle of anything.
- *Readings*, *Charter*: safety only, no fairness.
- *Uplink*: the thread runs, `mqtt_run` delivers what has arrived, broker and
  verifier answer. Strong fairness where a step is possible only now and then:
  `mqtt_run` is called at intervals, and the bounds on the queues come and go. A broker
  that holds the connection and never answers is thereby assumed away: `wait_for_ack`
  would wait for it for ever, and `EveryWaitEnds` says nothing about it.
  `KeepsReporting` is claimed only while the connection lasts, because a node never
  connects again after it has lost it, and with no other fault, because nothing in the
  code repeats a failed subscription. `EveryWaitEnds` holds after a loss too:
  `mqtt_run` fails on a dead connection, and that is the only way out of a wait whose
  acknowledgement is lost.

## 4. The proofs

TLC's runs are small; the proofs hold for any constants that satisfy the
assumptions named in the modules.

**I2cDriverProofs**, for any finite set of threads and devices, any capabilities,
any batches. The invariant adds to the properties of the run what they rest on:
a device has at most one claim; the claim of a batch belongs to a thread that is in a batch
on that device, and `weHoldLease` is right about it; a sleeper, or a thread
about to sleep on a fresh snapshot, has another's claim to wait for. That last is
inductive only together with the facts that every disappearance of a claim empties
`fresh` and wakes everybody. From it follow `OneClaim`, `BatchReturnsClaim`,
`NoLostWakeUp`, `CeilingKept`, `NeverFull`, the action properties `NotStolen`
and `NotExtended`, and `Refinement`: every step of the driver is a step of
`I2cClaims` or leaves its claims alone. `NeverFull` counts: with one claim per device and
no more devices than slots, a device without a claim leaves a slot free.

**IrrigationProofs**, for any constants of the mock that satisfy
`MockAssumption` and any commands. `MoistureInRange` is not inductive: a call
that is preempted between comparison, load and store steps a value that the other thread has
moved since. `MockAhead` bounds what a call that is about to step has seen and what is
in the static, by thread (`SteppedRange`): irrigation, which nobody preempts, steps a
value that is not low; it can leave telemetry one step below that, and no further, because
its next call finds the value low and resets it. Hence `LowestMoisture`, two steps below
the threshold. `NewestCommandInForce` excepts the moment between the two stores of a
command; `StampingNewest` says what holds in it. `ReportsRealWaterings` rests on
`PostedPulsesReal`, which follows the time of a pulse from the reading to the
mailbox. `Implements` is the refinement of `Controller`. It needs more: that the last
pulse is the *latest* of `pulses`, which `PulsesInOrder` gives (no pulse is later
than the reading under way, no reading later than the clock, and none but 0 before
the clock is set), and that a command under way is newer than the last one.

**ConversionsProofs**, for every answer of the chip and every reading: the two fields
together are the forty bits (`SplitsWord`), the products fit an `int32_t`
(`ProductsFit`), the results round down, fit their fields (`RoundsDown`) and keep the
order (`Monotone`); the soil sensor's percentage is one (`PercentInRange`); no number
needs more digits than `tmp` holds (`DigitsFit`), and no reading more characters than
the lines and the report have (`TextsFit`).

**ReadingsProofs**, for any answers, soil values and times. `TypeOK` rests on
`RoundsDown`, since a reading must fit the fields of `SensorReading`. `ReadingCalibrated` rests on
`SensorSafe`: past the status the chip is calibrated, and so it is whenever the latch is set.
`BuffersFit` follows from `TypeOK` by `TextsFit`. `ConversionExact` speaks of the sum of
twenty bits at their weights, in whatever order `MapThenSumSet` takes them. A sum that does
not depend on the order exists (`AddsExists`, adding one bit at a time) and is the one that
`Bits` chooses (`BitsIs`, by the number of bits); half a byte adds its value at its weight
(`HalfSum`), so that the sums are the numbers that `parse_measurement` makes
(`BitsTemperature`, `BitsHumidity`), and `RoundsDown` does the rest. Both inductions use
`AllNumbers`, which states induction for a set of numbers and so needs no operator as a
parameter.

**ScreenProofs**, for the same constants and any areas and boxes. What is on the screen in the
middle of a page says little: the proof looks ahead. `Drawn(s, q)` is what the calls `q` make
of the screen `s`; the fold over a page is first turned into its calls one by one
(`FirstDrawn`, by induction), so that one area drawn, in whatever order, leaves
`Drawn(screen, todo[t])` as it was (`DrawKeeps`). `NoticeAhead`:
from the moment irrigation starts a notice, what is on the screen and what irrigation has
yet to draw make the notice, whatever telemetry had drawn, because the first call cleans the
screen (`CleanFirst`). `PageLeft`: what telemetry has yet to draw is the end of one of its
pages, which may begin in the middle of a call (`EndIs`, `EndDrawn`). `MixedAhead`: when irrigation has nothing to draw, what telemetry has yet to draw will
make a page, or the end of a page over a notice. `Turns`, on which all of this rests, is what
strict priorities give: telemetry takes no step while irrigation is anywhere but in one of
its two waits, where it has nothing to draw. From these follow `WholeNotice` and
`OnlyNoticesMixed`. `TrueNotice` needs that no call of telemetry draws what a notice is known
by, its colour or its second line (`PagesCalm`), and that a notice is whole when the pump is
switched on or irrigation goes back to sleep.

**UplinkProofs**, for any faults, any noise on the topic, any number of polls and queues
of any length. The code compares counts; the proof follows the packets. While the
node subscribes, each subscription it has sent is in exactly one place, on its way, as
an acknowledgement on its way back, or counted, so that the count is 2 only when both
have been answered (`Subscribing`, for `BothAwaited`). It starts from empty streams,
which `GiveUp` leaves behind (`Streams`). As long as no publish has failed, a wait starts
with nothing under way but its own packet, so that the one acknowledgement that can
arrive is its own (`Counting`, for `CountTrue`). A confirmation in the slot has been
received, and `sAttested` is set by nothing else (`Gate`, for `Gated`). Once the session is
ready, the key packet is at the broker, or failed, or is before every report in the FIFO
stream (`KeyFirst`, for `KeyGoesFirst`). `AnswerTaken` rests on the slot: one in use
holds something heard since it was last drained, and nothing has been heard while it is free, so
that where only confirmations have been heard, it holds one.

**CharterProofs**, for any number of boots and seconds and queues of any length; the one
assumption beyond the bounds is that `None` is neither a number nor a session. The invariant
has a layer for each question. `Times`: no pulse and no stamp is later than the clock, which
gives `Implements`. `InOrder`: a command about which the operator has not been warned is
newer than everything before it, whether taken, queued or about to be published, and
copies come behind their originals, for `WarnedBeforeDropped`. `Sessions`: the last key
packet that Charter has had, or will have, is the one the broker keeps, for
`SessionRetained`. `Waterings`: reports under one key are in order, what the session saw comes before those still on their way, and a pulse is reported
under the key of one boot only, for `AnnouncedReal` and `Once`. `Remembers`: without a
rejoin since the last report read, the session has seen it, so that only a rejoin between
two reports lets a watering between them go unannounced, for `OnlyAfterRejoin`.

Every invariant and action property of the passing runs is the statement of a theorem.
Only what rests on fairness is not proved, but checked by TLC: `EventuallyWakes`,
`BatchEnds`, `PumpEventuallyOff`, `KeepsReporting`, `EveryWaitEnds`.

## 5. Where code and comments disagree

Five runs find a violation, each of one property that a comment, a header or a
name states; `PROJECT.json` quotes them. More were met while modelling and
have no run of their own:

- `i2c_driver.h:35,63` call `maxLeaseMs` a hard ceiling, but `i2c_driver.cc:366`
  does not clamp when it is 0 (`ClaimWithinCeiling` excepts that case);
- `comms.cc:205` gives `wait_for_ack` a time-out that `:210` overwrites;
- `telemetry.cc:186` only logs a failed publish of the key packet, so readings
  follow that nobody can decrypt (`KeyBeforeTelemetry` excepts that case);
- `charter/attestation.py:41` says the answer carries the device's id so that the
  device can match it; `telemetry.cc:129` does not (`TelemetryGated` accepts
  another node's confirmation for that reason);
- `irrigation.h:12` and `plantnode_types.h:19` say that 0 means never watered, but a
  pulse before SNTP has set the clock leaves 0 too (`irrigation.cc:54`), as does a
  restart of the node;
- `moisture_sensor.cc:93` says the mock resets only after a low reading has been read;
  `:97` loads the value again, so that a preempted call resets a low value which
  the other thread has stored and nobody has read, and the pulse is skipped. `:103` loads
  once more, so that a call can step a value the other thread has made low already: the
  value leaves its cycle, to two steps below the threshold at most (`MoistureInRange`);
- `comms.h:62` and `comms.cc:90` say that the slot holds the most recent message; `:173-177`
  keeps the one that is in it and drops the newer. A confirmation behind a refusal that has not
  been drained is lost (`AnswerCounts` excepts that case);
- `display_data.h` promises the latest readings on the screen; a reading that a pulse
  interrupts is drawn over the notice from where it had got to, without what was drawn before
  (`MixedOnlyWithNotice` says what is left);
- `moisture_sensor.h:26` says the mock starts around 900; it starts at 310.

## 6. Not modelled, and what could follow

Not modelled: the mocks *attestation* and *tpm* (constants); Charter's user
interface and log, `uart.cc`, `local_ip.h` (input and output, constants); the
audit policy (static); bytes on the I2C bus and on the wire, and the scanner of a
command's text, of which only the outcome matters; `comms_disconnect`,
`temperature_read_celsius_x10` and the pump's getter (no caller, and no state of
their own); fonts, columns and the construction of the LCD object.

A single composition of `Irrigation`, `Uplink` and `Charter` would be out of TLC's
reach; `Controller` joins the first and the last, and `Uplink` meets them only in
the order of key and reports, which `KeyBeforeTelemetry` states and `Charter` takes
over (a key packet is published before any report, or not at all).

What could follow: the counters of messages and the length checks of `crypto.cc`, once
some behaviour depends on them; and, as a proof where TLC cannot go, that `Uplink` gives
`Charter` the order of packets it assumes.

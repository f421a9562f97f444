------------------------------ MODULE Readings ------------------------------
(***************************************************************************)
(* A reading on its way from the sensors to the broker and the screen, and *)
(* the watering thread that shares the screen with it.  telemetry shows    *)
(* how connecting goes, then measures, publishes and shows what it read;   *)
(* irrigation shows a notice before and after each pulse of the pump.      *)
(* Priorities are strict: irrigation preempts telemetry between its LCD    *)
(* calls and inside them, and telemetry runs only while irrigation is      *)
(* blocked.                                                                *)
(*                                                                         *)
(* What the mock gives each thread, and the mailbox, are in Irrigation;    *)
(* what becomes of a published reading is in Uplink.  Here the values are  *)
(* chosen, for what the conversions and the buffers do with them.          *)
(***************************************************************************)
EXTENDS TemperatureSensor, Display, FiniteSetsExt

CONSTANTS
  Moistures,   \* what moisture_read_raw_mock may give
  Times        \* what gettimeofday and the mailbox may give

ASSUME ReadingsAssumption == Moistures \subseteq U16 /\ Times \subseteq Nat

VARIABLES
  pc,
  reading,    \* telemetry_loop's local, zero out of its scope
  sPumpState,
  timedOut    \* irrigation's current sleep has run out

\* Mutant: both threads have the same priority.
Priority_Equal == [t \in Threads |-> 1]

Priority == [t \in Threads |-> IF t = "irrigation" THEN 3 ELSE 1]

vars == <<sensorVars, displayVars, pc, reading, sPumpState, timedOut>>

NoReading == [temperatureCx10 |-> 0, humidityRx10 |-> 0, moistureRaw |-> 0,
              timestamp |-> 0, lastWatering |-> 0]

Init ==
  /\ SensorInit
  /\ DisplayInit
  /\ pc = [t \in Threads |-> IF t = "irrigation" THEN "sleep" ELSE "boot"]
  /\ reading = NoReading
  /\ sPumpState = FALSE
  /\ timedOut = FALSE

\* irrigation blocks in thread_sleep and thread_millisecond_wait.
Runnable(t) == t = "irrigation" /\ pc[t] \in {"sleep", "pulse"} => timedOut

MayRun(t) ==
  /\ Runnable(t)
  /\ \A u \in Threads : Runnable(u) => Priority[u] <= Priority[t]

\* A call to the display compartment has returned before its caller goes on.
Goes(t, from, to) ==
  /\ pc[t] = from
  /\ todo[t] = <<>>
  /\ MayRun(t)
  /\ pc' = [pc EXCEPT ![t] = to]

\* The next area of the page a thread is drawing.
DrawNext(t) ==
  /\ MayRun(t)
  /\ Draw(t)
  /\ UNCHANGED <<sensorVars, pc, reading, sPumpState, timedOut>>

-----------------------------------------------------------------------------
(* comms_connect and its retry in telemetry_loop *)

Connecting ==
  /\ Goes("telemetry", "boot", "network")
  /\ Show("telemetry", display_connecting_network)
  /\ UNCHANGED <<sensorVars, reading, sPumpState, timedOut>>

ConnectFails ==
  /\ Goes("telemetry", "network", "boot")
  /\ UNCHANGED <<sensorVars, displayVars, reading, sPumpState, timedOut>>

Connected ==
  /\ Goes("telemetry", "network", "idle")
  /\ Show("telemetry", display_connected_network)
  /\ UNCHANGED <<sensorVars, reading, sPumpState, timedOut>>

-----------------------------------------------------------------------------
(* One turn of telemetry_loop, once attested *)

StartReading ==
  /\ Goes("telemetry", "idle", "sensor")
  /\ StartRead
  /\ UNCHANGED <<displayVars, reading, sPumpState, timedOut>>

Sense ==
  /\ Goes("telemetry", "sensor", "sensor")
  /\ SensorStep
  /\ UNCHANGED <<displayVars, reading, sPumpState, timedOut>>

\* The tick is skipped, and the screen keeps what it had.
SkipReading ==
  /\ ret # "OK"
  /\ Goes("telemetry", "sensor", "idle")
  /\ Returned
  /\ UNCHANGED <<displayVars, reading, sPumpState, timedOut>>

TakeReading(moisture, now, watering) ==
  /\ at = "done" /\ ret = "OK"
  /\ Goes("telemetry", "sensor", "publish")
  /\ reading' = [temperatureCx10 |-> CelsiusX10(RawTemperature(buf)),
                 humidityRx10    |-> HumidityX10(RawHumidity(buf)),
                 moistureRaw     |-> moisture,
                 timestamp       |-> now,
                 lastWatering    |-> watering]
  /\ Returned
  /\ UNCHANGED <<displayVars, sPumpState, timedOut>>

\* Shown whether or not it could be published.
Publish ==
  /\ Goes("telemetry", "publish", "idle")
  /\ Show("telemetry", display_sensor_readings(TRUE))
  /\ reading' = NoReading
  /\ UNCHANGED <<sensorVars, sPumpState, timedOut>>

-----------------------------------------------------------------------------
(* irrigation_loop and policy_evaluate *)

WakeUp ==
  /\ Goes("irrigation", "sleep", "evaluate")
  /\ UNCHANGED <<sensorVars, displayVars, reading, sPumpState, timedOut>>

EvaluateDry ==
  /\ Goes("irrigation", "evaluate", "switch")
  /\ Show("irrigation", display_pump_activation(TRUE))
  /\ UNCHANGED <<sensorVars, reading, sPumpState, timedOut>>

EvaluateWet ==
  /\ Goes("irrigation", "evaluate", "sleep")
  /\ timedOut' = FALSE
  /\ UNCHANGED <<sensorVars, displayVars, reading, sPumpState>>

PumpOn ==
  /\ Goes("irrigation", "switch", "pulse")
  /\ sPumpState' = TRUE
  /\ timedOut' = FALSE
  /\ UNCHANGED <<sensorVars, displayVars, reading>>

EndPulse ==
  /\ Goes("irrigation", "pulse", "mailbox")
  /\ sPumpState' = FALSE
  /\ Show("irrigation", display_pump_activation(FALSE))
  /\ UNCHANGED <<sensorVars, reading, timedOut>>

Mailbox ==
  /\ Goes("irrigation", "mailbox", "sleep")
  /\ timedOut' = FALSE
  /\ UNCHANGED <<sensorVars, displayVars, reading, sPumpState>>

Tick ==
  /\ timedOut' = TRUE
  /\ UNCHANGED <<sensorVars, displayVars, pc, reading, sPumpState>>

Next ==
  \/ Connecting \/ ConnectFails \/ Connected
  \/ StartReading \/ Sense \/ SkipReading \/ Publish
  \/ \E m \in Moistures, now, w \in Times : TakeReading(m, now, w)
  \/ WakeUp \/ EvaluateDry \/ EvaluateWet \/ PumpOn \/ EndPulse \/ Mailbox
  \/ \E t \in Threads : DrawNext(t)
  \/ Tick

Spec == Init /\ [][Next]_vars

-----------------------------------------------------------------------------
(* Properties *)

\* Every variable has its type: in particular a converted measurement fits the
\* fields of SensorReading.
TypeOK ==
  /\ screen \in Screens
  /\ todo \in [Threads -> Seq(LcdCall)]
  /\ pc \in [Threads -> {"sleep", "evaluate", "switch", "pulse", "mailbox",
                         "boot", "network", "idle", "sensor", "publish"}]
  /\ sInitialized \in BOOLEAN /\ calibrated \in BOOLEAN
  /\ at \in Ats /\ ret \in Codes /\ buf \in Buffers \cup {<<>>}
  /\ reading \in SensorReading
  /\ sPumpState \in BOOLEAN /\ timedOut \in BOOLEAN

\* However far telemetry had got with a page, the notice is the whole screen when
\* display_pump_activation returns to policy_evaluate.
NoticeWhole ==
  todo["irrigation"] = <<>> =>
    /\ pc["irrigation"] = "switch"  => screen = Shown(display_pump_activation(TRUE))
    /\ pc["irrigation"] = "mailbox" => screen = Shown(display_pump_activation(FALSE))

\* Some of it is on the screen.
OnScreen(ink) == \E x \in Areas : screen[x] = ink

\* No bit of the screen says that the pump is watering after a pulse, nor that it has
\* finished while the pump is on, also where a page of telemetry lies over it.
NoticeTrue ==
  /\ OnScreen("Red") \/ OnScreen("watering...") =>
       pc["irrigation"] \in {"switch", "pulse", "mailbox"}
  /\ OnScreen("Green") \/ OnScreen("finished!") => ~sPumpState

\* What is left of a page in the middle of its k-th call.
Rest(page, k, left) == [SubSeq(page, k, Len(page)) EXCEPT ![1].areas = left]

\* What the lack of a lock does, given that an interrupted call goes on where it was:
\* when both threads have drawn, the screen is one page, or one notice with the end
\* of a page of telemetry over it, which may begin in the middle of a call.
MixedOnlyWithNotice ==
  (\A t \in Threads : todo[t] = <<>>) =>
     \/ screen = BlankScreen
     \/ \E p \in Pages : screen = Shown(p)
     \/ \E a \in BOOLEAN, p \in Pages : \E k \in 1 .. Len(p) :
          \E left \in SUBSET p[k].areas :
            screen = FoldLeft(Paint, Shown(display_pump_activation(a)), Rest(p, k, left))

\* A reading is never taken from a chip that is not calibrated, whichever transfers
\* failed in this call or an earlier one.
ReadingCalibrated == at = "done" /\ ret = "OK" => calibrated

\* Bit i of the forty, 39 the first of the second byte.
Bit(b, i) == (b[6 - (i \div 8)] \div 2^(i % 8)) % 2
Bits(b, low, high) == MapThenSumSet(LAMBDA i : Bit(b, i) * 2^(i - low), low .. high)

\* The fields the driver reports are the two 20-bit fields of the answer, rounded
\* down to a tenth: no bit is shared, lost or moved by the shifts and masks.
ConversionExact ==
  at = "done" /\ ret = "OK" =>
    LET rawH == Bits(buf, 20, 39)
        rawT == Bits(buf, 0, 19)
        c    == CelsiusX10(RawTemperature(buf))
        h    == HumidityX10(RawHumidity(buf))
    IN  /\ rawT * 2000 - (c + 500) * 2^20 \in 0 .. 2^20 - 1
        /\ rawH * 1000 - h * 2^20 \in 0 .. 2^20 - 1

\* Whatever the chip answers, the text of a reading fits line[24] of the display and
\* the plaintext crypto_encrypt builds fits its buffer of 128 bytes.
BuffersFit ==
  pc["telemetry"] = "publish" =>
    /\ \A n \in LineLengths(reading) : n <= LineSize
    /\ ReportLength(reading) <= PlainSize

=============================================================================

----------------------------- MODULE Irrigation -----------------------------
(***************************************************************************)
(* The watering loop: irrigation_loop reads the mock moisture sensor,      *)
(* policy_evaluate pulses the pump, and the time of the pulse is left in a *)
(* mailbox.  The telemetry thread shares three things with it: it reads    *)
(* (and so moves) the same mock sensor, it replaces the threshold when a   *)
(* command arrives, and it reads the mailbox for its reports.              *)
(*                                                                         *)
(* The board has one core and strict priorities: irrigation preempts       *)
(* telemetry between any two of its steps, telemetry runs only while       *)
(* irrigation is blocked.  One clock step stands for two seconds or so:    *)
(* a timer that was set before it has run out after it.  A local variable  *)
(* goes back to its initial value where its scope ends.                    *)
(***************************************************************************)
EXTENDS Integers, FiniteSets

CONSTANTS
  KFakeMoistureReset, KFakeMoistureStep, KFakeMoistureLow,
  FirstMoisture,   \* initial value of sFakeMoisture
  DefaultLow,      \* initial value of sMoistureLow
  Commands,        \* threshold commands that can reach the node
  U16Max,          \* UINT16_MAX
  MaxTime          \* the clock stops counting here

\* uint16_t, and a conversion to it.  A uint32_t is only compared: Nat stands for it.
U16     == 0 .. U16Max
Wrap(n) == n % (U16Max + 1)

ASSUME IrrigationAssumption ==
  /\ U16Max \in Nat
  /\ KFakeMoistureReset \in U16 /\ KFakeMoistureStep \in U16
  /\ KFakeMoistureLow \in U16 /\ FirstMoisture \in U16 /\ DefaultLow \in U16
  /\ Commands \subseteq [timestamp : Nat, threshold : Nat]
  /\ MaxTime \in Nat \ {0}

\* The lowest value of the mock: a step from just the threshold, and one more.
LowestMoisture == KFakeMoistureLow - 2 * KFakeMoistureStep

\* That is not below zero.
ASSUME MockAssumption ==
  /\ LowestMoisture >= 0
  /\ KFakeMoistureLow <= KFakeMoistureReset
  /\ FirstMoisture \in LowestMoisture .. KFakeMoistureReset

Threads  == {"irrigation", "telemetry"}

\* Mutant: both threads have the same priority.
Priority_Equal == [t \in Threads |-> 1]

Priority == [t \in Threads |-> IF t = "irrigation" THEN 3 ELSE 1]

VARIABLES
  sFakeMoisture,          \* moisture_sensor
  sMoistureLow,           \* policy_engine
  sLastCommandTimestamp,  \* policy_engine
  sPumpState,             \* pump_driver
  sLastWatering,          \* irrigation's mailbox
  pc,         \* where each thread is
  raw,        \* what moisture_read_raw_mock handed to each thread
  seen,       \* what a call that is about to step the mock has loaded last
  timestamp,  \* irrigation_loop's local
  outcome,    \* what policy_evaluate returned
  timedOut,   \* irrigation's current sleep has run out
  command,    \* the command policy_update_threshold is applying
  clock, synced,
  \* history
  delivered,  \* commands that have reached policy_update_threshold
  pulses,     \* the timestamps of finished pump pulses
  reported    \* the mailbox value telemetry read last

mockVars    == <<sFakeMoisture, raw, seen>>
policyVars  == <<sMoistureLow, sLastCommandTimestamp, command, delivered>>
wateringVars == <<sPumpState, sLastWatering, timestamp, outcome, pulses>>
timeVars    == <<timedOut, clock, synced>>
vars == <<mockVars, policyVars, wateringVars, timeVars, pc, reported>>

NoCommand == [timestamp |-> 0, threshold |-> 0]

Init ==
  /\ sFakeMoisture = FirstMoisture
  /\ sMoistureLow = DefaultLow
  /\ sLastCommandTimestamp = 0
  /\ sPumpState = FALSE
  /\ sLastWatering = 0
  /\ pc = [t \in Threads |-> IF t = "irrigation" THEN "sleep" ELSE "connect"]
  /\ raw = [t \in Threads |-> 0]
  /\ seen = [t \in Threads |-> 0]
  /\ timestamp = 0
  /\ outcome = "NoAction"
  /\ timedOut = FALSE
  /\ command = NoCommand
  /\ clock = 0
  /\ synced = FALSE
  /\ delivered = {}
  /\ pulses = {}
  /\ reported = 0

-----------------------------------------------------------------------------
(* Scheduling *)

\* irrigation blocks in thread_sleep and thread_millisecond_wait.
Runnable(t) == t = "irrigation" /\ pc[t] \in {"sleep", "pulse"} => timedOut

MayRun(t) ==
  /\ Runnable(t)
  /\ \A u \in Threads : Runnable(u) => Priority[u] <= Priority[t]

\* At `from', allowed to run, and going to `to'.
Goes(t, from, to) ==
  /\ pc[t] = from
  /\ MayRun(t)
  /\ pc' = [pc EXCEPT ![t] = to]

\* Mutant: the failure of gettimeofday is not looked at.
Time_Unchecked == IF synced THEN clock ELSE -1

Time == IF synced THEN clock ELSE 0

-----------------------------------------------------------------------------
(* moisture_read_raw_mock, called by both threads *)

\* *rawOut = sFakeMoisture
MockLoad(t) ==
  /\ Goes(t, "load", "compare")
  /\ raw' = [raw EXCEPT ![t] = sFakeMoisture]
  /\ UNCHANGED <<sFakeMoisture, seen, reported, policyVars, wateringVars, timeVars>>

\* The static is loaded again for the comparison: a log call lies between.
MockDry(t) ==
  /\ sFakeMoisture < KFakeMoistureLow
  /\ Goes(t, "compare", "reset")
  /\ UNCHANGED <<mockVars, reported, policyVars, wateringVars, timeVars>>

MockWet(t) ==
  /\ sFakeMoisture >= KFakeMoistureLow
  /\ Goes(t, "compare", "step")
  /\ seen' = [seen EXCEPT ![t] = sFakeMoisture]
  /\ UNCHANGED <<sFakeMoisture, raw, reported, policyVars, wateringVars, timeVars>>

\* Where a thread goes on after its call.
AfterMock(t) == IF t = "irrigation" THEN "clock" ELSE "report"

MockReset(t) ==
  /\ Goes(t, "reset", AfterMock(t))
  /\ sFakeMoisture' = KFakeMoistureReset
  /\ UNCHANGED <<raw, seen, reported, policyVars, wateringVars, timeVars>>

\* sFakeMoisture -= KFakeMoistureStep loads the static once more; as nothing lies
\* between, the compiler may also use what was compared.
MockReload(t) ==
  /\ Goes(t, "step", "store")
  /\ \E v \in {seen[t], sFakeMoisture} : seen' = [seen EXCEPT ![t] = v]
  /\ UNCHANGED <<sFakeMoisture, raw, reported, policyVars, wateringVars, timeVars>>

MockStore(t) ==
  /\ Goes(t, "store", AfterMock(t))
  /\ sFakeMoisture' = Wrap(seen[t] - KFakeMoistureStep)
  /\ seen' = [seen EXCEPT ![t] = 0]
  /\ UNCHANGED <<raw, reported, policyVars, wateringVars, timeVars>>

-----------------------------------------------------------------------------
(* irrigation_loop *)

WakeUp ==
  /\ Goes("irrigation", "sleep", "load")
  /\ UNCHANGED <<mockVars, policyVars, wateringVars, timeVars, reported>>

\* gettimeofday fails until the clock has been set, and 0 stands for that.
TakeTime ==
  /\ Goes("irrigation", "clock", "evaluate")
  /\ timestamp' = Time
  /\ UNCHANGED <<mockVars, policyVars, sPumpState, sLastWatering, outcome, pulses,
                 timeVars, reported>>

\* policy_evaluate up to its wait: compare, and switch the pump on.
EvaluateDry ==
  /\ raw["irrigation"] < sMoistureLow
  /\ Goes("irrigation", "evaluate", "pulse")
  /\ sPumpState' = TRUE
  /\ timedOut' = FALSE
  /\ UNCHANGED <<mockVars, policyVars, sLastWatering, timestamp, outcome, pulses,
                 clock, synced, reported>>

EvaluateWet ==
  /\ raw["irrigation"] >= sMoistureLow
  /\ Goes("irrigation", "evaluate", "mailbox")
  /\ outcome' = "NoAction"
  /\ UNCHANGED <<mockVars, policyVars, sPumpState, sLastWatering, timestamp, pulses,
                 timeVars, reported>>

\* Mutant: the LED is left on.
PumpOff_Forgotten == sPumpState' = sPumpState

PumpOff == sPumpState' = FALSE

\* policy_evaluate after its wait.
EndPulse ==
  /\ Goes("irrigation", "pulse", "mailbox")
  /\ PumpOff
  /\ outcome' = "PumpActivation"
  /\ pulses' = pulses \cup {timestamp}
  /\ UNCHANGED <<mockVars, policyVars, sLastWatering, timestamp, timeVars, reported>>

\* Mutant: the outcome is not looked at.
Posts_Always == TRUE

Posts == outcome = "PumpActivation"

\* Post the time of the reading that led to a pulse, and sleep.
Mailbox ==
  /\ Goes("irrigation", "mailbox", "sleep")
  /\ sLastWatering' = IF Posts THEN timestamp ELSE sLastWatering
  /\ timedOut' = FALSE
  /\ raw' = [raw EXCEPT !["irrigation"] = 0]
  /\ timestamp' = 0
  /\ outcome' = "NoAction"
  /\ UNCHANGED <<sFakeMoisture, seen, policyVars, sPumpState, pulses,
                 clock, synced, reported>>

-----------------------------------------------------------------------------
(* The telemetry thread, as far as watering sees it *)

\* comms_connect gets the time from SNTP before anything else.
Connect ==
  /\ Goes("telemetry", "connect", "idle")
  /\ synced' = TRUE
  /\ UNCHANGED <<mockVars, policyVars, wateringVars, timedOut, clock, reported>>

StartReading ==
  /\ Goes("telemetry", "idle", "load")
  /\ UNCHANGED <<mockVars, policyVars, wateringVars, timeVars, reported>>

\* irrigation_get_last_watering
Report ==
  /\ Goes("telemetry", "report", "idle")
  /\ reported' = sLastWatering
  /\ raw' = [raw EXCEPT !["telemetry"] = 0]
  /\ UNCHANGED <<sFakeMoisture, seen, policyVars, wateringVars, timeVars>>

\* Mutants: a command is never stale; one of the same second is not.
Stale_Never(c) == FALSE
Stale_Strict(c) == c.timestamp < sLastCommandTimestamp

Malformed(c) == c.threshold > U16Max
Stale(c)     == c.timestamp <= sLastCommandTimestamp

\* policy_update_threshold, from the MQTT callback on the telemetry thread.  The
\* broker may repeat a command and deliver commands out of order.
RefuseCommand(c) ==
  /\ Malformed(c) \/ Stale(c)
  /\ Goes("telemetry", "idle", "idle")
  /\ delivered' = delivered \cup {c}
  /\ UNCHANGED <<sMoistureLow, sLastCommandTimestamp, command,
                 mockVars, wateringVars, timeVars, reported>>

ApplyThreshold(c) ==
  /\ ~Malformed(c) /\ ~Stale(c)
  /\ Goes("telemetry", "idle", "stamp")
  /\ sMoistureLow' = Wrap(c.threshold)
  /\ command' = c
  /\ delivered' = delivered \cup {c}
  /\ UNCHANGED <<sLastCommandTimestamp, mockVars, wateringVars, timeVars, reported>>

StampCommand ==
  /\ Goes("telemetry", "stamp", "idle")
  /\ sLastCommandTimestamp' = command.timestamp
  /\ command' = NoCommand
  /\ UNCHANGED <<sMoistureLow, delivered,
                 mockVars, wateringVars, timeVars, reported>>

-----------------------------------------------------------------------------
Tick ==
  /\ clock' = IF clock < MaxTime THEN clock + 1 ELSE clock
  /\ timedOut' = TRUE
  /\ UNCHANGED <<synced, pc, mockVars, policyVars, wateringVars, reported>>

Mock(t) ==
  \/ MockLoad(t) \/ MockDry(t) \/ MockWet(t)
  \/ MockReset(t) \/ MockReload(t) \/ MockStore(t)

IrrigationStep ==
  \/ WakeUp \/ Mock("irrigation") \/ TakeTime
  \/ EvaluateDry \/ EvaluateWet \/ EndPulse \/ Mailbox

TelemetryStep ==
  \/ Connect \/ StartReading \/ Mock("telemetry") \/ Report \/ StampCommand
  \/ \E c \in Commands : RefuseCommand(c) \/ ApplyThreshold(c)

Next == IrrigationStep \/ TelemetryStep \/ Tick

Spec == Init /\ [][Next]_vars

\* Time passes, and the most urgent thread runs when it can.  Nothing is assumed
\* of telemetry.
FairSpec == Spec /\ WF_vars(Tick) /\ WF_vars(IrrigationStep)

-----------------------------------------------------------------------------
(* Properties *)

PCs == {"sleep", "load", "compare", "reset", "step", "store", "clock", "evaluate",
        "pulse", "mailbox", "connect", "idle", "report", "stamp"}

\* Every variable has its type: in particular a stored moisture value or threshold
\* fits the uint16_t it is stored in.
TypeOK ==
  /\ sFakeMoisture \in U16 /\ sMoistureLow \in U16
  /\ sLastCommandTimestamp \in Nat /\ sLastWatering \in 0 .. MaxTime
  /\ sPumpState \in BOOLEAN /\ synced \in BOOLEAN
  /\ timedOut \in BOOLEAN
  /\ pc \in [Threads -> PCs]
  /\ raw \in [Threads -> U16] /\ seen \in [Threads -> U16]
  /\ timestamp \in 0 .. MaxTime /\ clock \in 0 .. MaxTime
  /\ outcome \in {"NoAction", "PumpActivation"}
  /\ command \in Commands \cup {NoCommand}
  /\ delivered \subseteq Commands
  /\ pulses \subseteq 0 .. MaxTime /\ reported \in 0 .. MaxTime

\* moisture_read_raw_mock is called by two threads without a lock, and telemetry can
\* lose the processor between comparing the static and stepping it: it then steps a
\* value irrigation has already taken below the threshold.  That happens once at most
\* before the next reset, because irrigation is not interrupted in its own call, so
\* that the uint16_t never wraps to a value that is always wet.
MoistureInRange == sFakeMoisture \in LowestMoisture .. KFakeMoistureReset

\* policy_update_threshold under any order and repetition of the commands: the
\* threshold in force is that of a command with the latest timestamp delivered so
\* far, or the default.
NewestCommandInForce ==
  pc["telemetry"] # "stamp" =>
    /\ \A c \in delivered : ~Malformed(c) => c.timestamp <= sLastCommandTimestamp
    /\ \/ sLastCommandTimestamp = 0 /\ sMoistureLow = DefaultLow
       \/ \E c \in delivered : /\ c.timestamp = sLastCommandTimestamp
                               /\ c.threshold = sMoistureLow

\* Whatever telemetry reads between two steps of the loop, a watering it reports is
\* one the pump has finished, and its time is that of the reading behind it.
ReportsRealWaterings == reported \in pulses \cup {0}

\* Two commands of one second never both take effect: the threshold changes only
\* for a timestamp later than every earlier one's.
ThresholdMovesForward ==
  [][sMoistureLow' # sMoistureLow => \A c \in delivered :
       ~Malformed(c) => c.timestamp < command'.timestamp]_vars

\* policy_evaluate switches the pump off again, however telemetry runs and whatever
\* threshold arrives during the pulse.
PumpEventuallyOff == sPumpState ~> ~sPumpState

\* The times of the pulses only grow, so that the last pulse is the latest.
LastPulse == CHOOSE m \in pulses \cup {0} : \A p \in pulses : p <= m

C == INSTANCE Controller WITH boots <- 1, newest <- sLastCommandTimestamp,
                              last <- LastPulse, mailbox <- sLastWatering

\* The node seen from outside: the timestamp of the command in force only grows, and
\* what is in the mailbox is always replaced by the time of the latest pulse, though
\* the clock may be set, and a command applied, while the pump runs.
ImplementsController == C!Spec

=============================================================================

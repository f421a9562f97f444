-------------------------- MODULE TemperatureSensor --------------------------
(***************************************************************************)
(* The temperature_sensor compartment and the AHT20 behind it.  The first  *)
(* call reads the status of the chip and, if it is not calibrated, sends   *)
(* the init command and waits; a latch remembers that this has been done.  *)
(* Every call then runs one batch: trigger, wait, read six bytes.  Only    *)
(* telemetry calls it.  Any transfer may fail, and a failed write may      *)
(* still have reached the chip.                                            *)
(***************************************************************************)
EXTENDS Conversions

CONSTANT
  Buffers   \* what the chip may answer to a measurement

ASSUME BuffersAssumption == Buffers \subseteq [1 .. 6 -> Byte]

VARIABLES
  sInitialized,
  calibrated,   \* the chip's calibration bit
  at,           \* where temperature_read_both is, or "idle"
  ret,          \* what it returns
  buf           \* the six bytes, <<>> before they are read

sensorVars == <<sInitialized, calibrated, at, ret, buf>>

Codes == {"OK", "EIO", "EBUSY"}
Ats   == {"idle", "status", "init", "settle", "measure", "done"}

SensorInit ==
  /\ sInitialized = FALSE /\ calibrated \in BOOLEAN
  /\ at = "idle" /\ ret = "OK" /\ buf = <<>>

StartRead ==
  /\ at = "idle"
  /\ at' = IF sInitialized THEN "measure" ELSE "status"
  /\ ret' = "OK" /\ buf' = <<>>
  /\ UNCHANGED <<sInitialized, calibrated>>

\* An error on the bus ends the call.
Fails(from) ==
  /\ at = from
  /\ at' = "done" /\ ret' = "EIO"
  /\ UNCHANGED <<sInitialized, buf>>

\* ensure_calibrated: the status byte.
ReadStatus ==
  \/ /\ at = "status"
     /\ at' = IF calibrated THEN "measure" ELSE "init"
     /\ sInitialized' = calibrated
     /\ UNCHANGED <<calibrated, ret, buf>>
  \/ Fails("status") /\ UNCHANGED calibrated

\* Mutant: what i2c_write returns is not looked at.
InitFails_Ignored == at = "init" /\ at' = "settle" /\ UNCHANGED <<sInitialized, ret, buf>>

InitFails == Fails("init")

\* ensure_calibrated: the init command.
SendInit ==
  \/ /\ at = "init"
     /\ at' = "settle"
     /\ calibrated' = TRUE
     /\ UNCHANGED <<sInitialized, ret, buf>>
  \/ InitFails /\ calibrated' \in {calibrated, TRUE}

\* thread_millisecond_wait, and the end of ensure_calibrated.
Settle ==
  /\ at = "settle"
  /\ at' = "measure"
  /\ sInitialized' = TRUE
  /\ UNCHANGED <<calibrated, ret, buf>>

\* do_measurement: the batch, and its status byte.
Measure ==
  \/ \E b \in Buffers :
       /\ at = "measure"
       /\ at' = "done"
       /\ buf' = b
       /\ ret' = IF Busy(b) THEN "EBUSY" ELSE "OK"
       /\ UNCHANGED <<sInitialized, calibrated>>
  \/ Fails("measure") /\ UNCHANGED calibrated

\* The caller has its answer: the locals are gone.
Returned ==
  /\ at = "done"
  /\ at' = "idle" /\ ret' = "OK" /\ buf' = <<>>
  /\ UNCHANGED <<sInitialized, calibrated>>

SensorStep == ReadStatus \/ SendInit \/ Settle \/ Measure

=============================================================================

-------------------------- MODULE IrrigationProofs --------------------------
(***************************************************************************)
(* Irrigation for every sensor calibration the assumptions allow, every    *)
(* set of commands and every clock.  The invariant says what a thread in   *)
(* the middle of something may still do: step the mock from a value that   *)
(* irrigation has lowered or from a stale one, post the time of a finished *)
(* pulse, or stamp a command whose threshold is already in force.  The     *)
(* priorities are needed for the mock alone: telemetry does not move while *)
(* irrigation is between its comparison and its store.                     *)
(***************************************************************************)
EXTENDS Irrigation, TLAPS

\* Irrigation steps the mock from what it has compared; telemetry at worst from a
\* value irrigation has taken one step below the threshold since.
SteppedRange(t) ==
  (IF t = "irrigation" THEN KFakeMoistureLow ELSE KFakeMoistureLow - KFakeMoistureStep)
    .. KFakeMoistureReset

MockAhead ==
  \A t \in Threads :
    /\ pc[t] = "step"  => seen[t] \in SteppedRange(t) /\ sFakeMoisture \in SteppedRange(t)
    /\ pc[t] = "store" => seen[t] \in SteppedRange(t)

\* While a command is being stamped, its threshold is in force and it is the newest.
StampingNewest ==
  pc["telemetry"] = "stamp" =>
    /\ command \in delivered
    /\ ~Malformed(command)
    /\ sMoistureLow = command.threshold
    /\ sLastCommandTimestamp < command.timestamp
    /\ \A c \in delivered : ~Malformed(c) => c.timestamp <= command.timestamp

\* The mailbox, and what is about to go into it.
PostedPulsesReal ==
  /\ sLastWatering \in pulses \cup {0}
  /\ pc["irrigation"] = "mailbox" /\ outcome = "PumpActivation" => timestamp \in pulses

Inv ==
  /\ TypeOK
  /\ MoistureInRange /\ MockAhead
  /\ NewestCommandInForce /\ StampingNewest
  /\ ReportsRealWaterings /\ PostedPulsesReal

\* Zero is a reading and a time.
LEMMA ZeroFits == 0 \in U16 /\ 0 \in 0 .. MaxTime
  BY IrrigationAssumption DEF U16

\* The initial states satisfy the invariant.
LEMMA InitInv == Init => Inv
  <1> SUFFICES ASSUME Init PROVE Inv OBVIOUS
  <1>1. TypeOK
    <2>1. pc \in [Threads -> PCs] /\ raw \in [Threads -> U16] /\ seen \in [Threads -> U16]
      BY ZeroFits DEF Init, PCs
    <2>2. /\ sPumpState \in BOOLEAN /\ synced \in BOOLEAN
          /\ timedOut \in BOOLEAN
      BY DEF Init
    <2>3. /\ sFakeMoisture \in U16 /\ sMoistureLow \in U16
          /\ sLastCommandTimestamp \in Nat
      BY IrrigationAssumption DEF Init
    <2>4. QED BY <2>1, <2>2, <2>3, ZeroFits DEF Init, TypeOK
  <1>2. MoistureInRange
    BY MockAssumption DEF Init, MoistureInRange
  <1>3. pc["telemetry"] = "connect" /\ pc["irrigation"] = "sleep"
    BY DEF Init, Threads
  <1>4. MockAhead
    BY DEF Init, MockAhead
  <1>5. NewestCommandInForce /\ StampingNewest /\ ReportsRealWaterings /\ PostedPulsesReal
    BY <1>3 DEF Init, NewestCommandInForce, StampingNewest, ReportsRealWaterings,
       PostedPulsesReal
  <1>6. QED BY <1>1, <1>2, <1>4, <1>5 DEF Inv

\* A conversion to uint16_t yields one, and leaves one alone.
LEMMA WrapFits ==
  ASSUME NEW n \in Int
  PROVE  Wrap(n) \in U16
  BY IrrigationAssumption DEF Wrap, U16

LEMMA NoWrap ==
  ASSUME NEW n \in U16
  PROVE  Wrap(n) = n
  BY IrrigationAssumption DEF Wrap, U16

\* A step from where a thread may step keeps the mock in its range; a step of
\* irrigation leaves it where telemetry may step next.  Nothing wraps.
LEMMA StepKeepsRange ==
  ASSUME NEW t \in Threads, NEW v \in SteppedRange(t)
  PROVE  /\ Wrap(v - KFakeMoistureStep) = v - KFakeMoistureStep
         /\ v - KFakeMoistureStep \in U16
         /\ v - KFakeMoistureStep \in LowestMoisture .. KFakeMoistureReset
         /\ t = "irrigation" => v - KFakeMoistureStep \in SteppedRange("telemetry")
  <1>1. /\ KFakeMoistureStep \in Nat /\ KFakeMoistureLow \in Nat
        /\ KFakeMoistureReset \in Nat /\ KFakeMoistureReset <= U16Max /\ U16Max \in Nat
        /\ KFakeMoistureLow - 2 * KFakeMoistureStep >= 0
    BY IrrigationAssumption, MockAssumption DEF U16, LowestMoisture
  <1>2. /\ v \in Int /\ v <= KFakeMoistureReset
        /\ v >= KFakeMoistureLow - KFakeMoistureStep
        /\ t = "irrigation" => v >= KFakeMoistureLow
    BY <1>1 DEF SteppedRange
  <1>3. v - KFakeMoistureStep \in U16
    BY <1>1, <1>2 DEF U16
  <1>4. v - KFakeMoistureStep \in LowestMoisture .. KFakeMoistureReset
    BY <1>1, <1>2 DEF LowestMoisture
  <1>5. t = "irrigation" => v - KFakeMoistureStep \in SteppedRange("telemetry")
    BY <1>1, <1>2 DEF SteppedRange
  <1>6. QED BY <1>3, <1>4, <1>5, NoWrap

\* The reset is a value any thread may step from.
LEMMA ResetInRange ==
  /\ KFakeMoistureReset \in U16
  /\ KFakeMoistureReset \in LowestMoisture .. KFakeMoistureReset
  /\ \A t \in Threads : KFakeMoistureReset \in SteppedRange(t)
  BY IrrigationAssumption, MockAssumption DEF U16, LowestMoisture, SteppedRange

\* Telemetry does not run while irrigation is in its call of the mock.
LEMMA OneInMock ==
  ASSUME MayRun("telemetry")
  PROVE  pc["irrigation"] \in {"sleep", "pulse"}
  BY DEF MayRun, Runnable, Threads, Priority

\* A step of the mock's call changes the mock and its caller's place, and no more.
LEMMA MockStays ==
  ASSUME NEW t \in Threads, Mock(t)
  PROVE  /\ UNCHANGED <<policyVars, wateringVars, timeVars, reported>>
         /\ \E to \in {"compare", "reset", "step", "store", AfterMock(t)} :
              pc' = [pc EXCEPT ![t] = to]
         /\ AfterMock(t) = IF t = "irrigation" THEN "clock" ELSE "report"
         /\ pc[t] \in {"load", "compare", "reset", "step", "store"}
  BY SMTT(30) DEF Mock, MockLoad, MockDry, MockWet, MockReset, MockReload, MockStore, Goes,
     AfterMock

\* The call that a thread makes of the mock preserves the invariant.
LEMMA MockInv ==
  ASSUME Inv, NEW t \in Threads, Mock(t)
  PROVE  Inv'
  <1> USE DEF mockVars, policyVars, wateringVars, timeVars
  <1>t. TypeOK /\ MoistureInRange /\ MockAhead
    BY DEF Inv
  <1>p. pc \in [Threads -> PCs] /\ seen \in [Threads -> U16] /\ raw \in [Threads -> U16]
        /\ sFakeMoisture \in U16
    BY <1>t DEF TypeOK
  <1>q. /\ UNCHANGED <<policyVars, wateringVars, timeVars, reported>>
        /\ \E to \in {"compare", "reset", "step", "store", "clock", "report"} :
             pc' = [pc EXCEPT ![t] = to]
        /\ pc[t] \in {"load", "compare", "reset", "step", "store"}
    BY MockStays DEF policyVars, wateringVars, timeVars
  <1>r. t = "telemetry" => pc["irrigation"] \in {"sleep", "pulse"}
    BY OneInMock DEF Mock, MockLoad, MockDry, MockWet, MockReset, MockReload, MockStore, Goes
  <1>c. /\ NewestCommandInForce' /\ StampingNewest'
        /\ ReportsRealWaterings' /\ PostedPulsesReal'
    BY <1>p, <1>q, SMTT(30) DEF Inv, NewestCommandInForce, StampingNewest,
       ReportsRealWaterings, PostedPulsesReal, Malformed, Threads, PCs
  <1>f. pc' \in [Threads -> PCs]
    BY <1>p, <1>q DEF PCs
  <1>m. sFakeMoisture' \in U16 /\ raw' \in [Threads -> U16] /\ seen' \in [Threads -> U16]
        /\ MoistureInRange' /\ MockAhead'
    <2>1. CASE MockLoad(t) \/ MockDry(t)
      <3>1. /\ UNCHANGED <<sFakeMoisture, seen>> /\ raw' \in [Threads -> U16]
            /\ \E to \in {"compare", "reset"} : pc' = [pc EXCEPT ![t] = to]
        BY <2>1, <1>p DEF MockLoad, MockDry, Goes
      <3>2. QED BY <1>t, <1>p, <3>1 DEF MoistureInRange, MockAhead, SteppedRange, Threads
    <2>2. CASE MockWet(t)
      <3>1. /\ sFakeMoisture >= KFakeMoistureLow /\ UNCHANGED <<sFakeMoisture, raw>>
            /\ pc' = [pc EXCEPT ![t] = "step"]
            /\ seen' = [seen EXCEPT ![t] = sFakeMoisture]
        BY <2>2 DEF MockWet, Goes
      <3>2. sFakeMoisture \in SteppedRange(t)
        BY <1>t, <1>p, <3>1, IrrigationAssumption DEF MoistureInRange, SteppedRange, U16
      <3>3. QED BY <1>t, <1>p, <3>1, <3>2 DEF MoistureInRange, MockAhead, SteppedRange
    <2>3. CASE MockReset(t)
      <3>1. /\ UNCHANGED <<raw, seen>> /\ sFakeMoisture' = KFakeMoistureReset
            /\ pc' = [pc EXCEPT ![t] = AfterMock(t)]
        BY <2>3 DEF MockReset, Goes
      <3>2. QED
        BY <1>t, <1>p, <3>1, ResetInRange DEF MoistureInRange, MockAhead, SteppedRange,
           AfterMock
    <2>4. CASE MockReload(t)
      <3>1. /\ UNCHANGED <<raw, sFakeMoisture>> /\ pc[t] = "step"
            /\ pc' = [pc EXCEPT ![t] = "store"]
            /\ \E v \in {seen[t], sFakeMoisture} : seen' = [seen EXCEPT ![t] = v]
        BY <2>4 DEF MockReload, Goes
      <3>2. seen[t] \in SteppedRange(t) /\ sFakeMoisture \in SteppedRange(t)
        BY <1>t, <3>1 DEF MockAhead
      <3>3. QED BY <1>t, <1>p, <3>1, <3>2 DEF MoistureInRange, MockAhead, SteppedRange
    <2>5. CASE MockStore(t)
      <3>1. /\ UNCHANGED raw /\ pc[t] = "store" /\ pc' = [pc EXCEPT ![t] = AfterMock(t)]
            /\ sFakeMoisture' = Wrap(seen[t] - KFakeMoistureStep)
            /\ seen' = [seen EXCEPT ![t] = 0]
        BY <2>5 DEF MockStore, Goes
      <3>2. seen[t] \in SteppedRange(t)
        BY <1>t, <3>1 DEF MockAhead
      <3>3. /\ sFakeMoisture' \in U16 /\ MoistureInRange'
            /\ t = "irrigation" => sFakeMoisture' \in SteppedRange("telemetry")
        BY <3>1, <3>2, StepKeepsRange DEF MoistureInRange
      <3>4. MockAhead'
        <4> SUFFICES ASSUME NEW u \in Threads
                     PROVE  /\ pc'[u] = "step" => seen'[u] \in SteppedRange(u)
                                                 /\ sFakeMoisture' \in SteppedRange(u)
                            /\ pc'[u] = "store" => seen'[u] \in SteppedRange(u)
          BY DEF MockAhead, SteppedRange
        <4>1. CASE u = t
          BY <1>p, <3>1, <4>1 DEF AfterMock
        <4>2. CASE u # t
          <5>1. pc'[u] = pc[u] /\ seen'[u] = seen[u]
            BY <1>p, <3>1, <4>2
          <5>2. pc[u] = "step" => t = "irrigation" /\ u = "telemetry"
            BY <1>r, <4>2 DEF Threads
          <5>3. QED BY <1>t, <3>3, <5>1, <5>2 DEF MockAhead
        <4>3. QED BY <4>1, <4>2
      <3>5. seen' \in [Threads -> U16]
        BY <1>p, <3>1, ZeroFits
      <3>6. QED BY <1>p, <3>1, <3>3, <3>4, <3>5
    <2>6. QED BY <2>1, <2>2, <2>3, <2>4, <2>5 DEF Mock
  <1>y. TypeOK'
    BY <1>t, <1>q, <1>f, <1>m DEF TypeOK
  <1>z. QED BY <1>c, <1>m, <1>y DEF Inv

\* Every step of the loop outside the mock preserves the invariant.
LEMMA LoopInv ==
  ASSUME Inv,
         WakeUp \/ TakeTime \/ EvaluateDry \/ EvaluateWet \/ EndPulse \/ Mailbox
  PROVE  Inv'
  <1> USE DEF Inv, mockVars, policyVars, wateringVars, timeVars
  <1>1. CASE WakeUp
    BY <1>1, SMTT(30) DEF WakeUp, Goes, TypeOK, MoistureInRange, MockAhead,
       NewestCommandInForce, StampingNewest, ReportsRealWaterings, PostedPulsesReal,
       Malformed, Threads, PCs
  <1>2. CASE TakeTime
    BY <1>2, IrrigationAssumption, SMTT(30) DEF TakeTime, Time, Goes, TypeOK,
       MoistureInRange, MockAhead, NewestCommandInForce, StampingNewest,
       ReportsRealWaterings, PostedPulsesReal, Malformed, Threads, PCs
  <1>3. CASE EvaluateDry
    <2>1. TypeOK'
      <3>1. pc' \in [Threads -> PCs]
        BY <1>3 DEF EvaluateDry, Goes, TypeOK, PCs
      <3>2. sPumpState' \in BOOLEAN /\ timedOut' \in BOOLEAN
        BY <1>3 DEF EvaluateDry
      <3>3. QED BY <1>3, <3>1, <3>2 DEF EvaluateDry, TypeOK
    <2>2. QED
      BY <1>3, <2>1, SMTT(30)
        DEF EvaluateDry, Goes, MoistureInRange, MockAhead, NewestCommandInForce, StampingNewest,
         ReportsRealWaterings, PostedPulsesReal, Malformed, TypeOK, Threads, PCs
  <1>4. CASE EvaluateWet
    BY <1>4, SMTT(30) DEF EvaluateWet, Goes, TypeOK, MoistureInRange, MockAhead,
       NewestCommandInForce, StampingNewest, ReportsRealWaterings, PostedPulsesReal,
       Malformed, Threads, PCs
  <1>5. CASE EndPulse
    <2>1. TypeOK'
      <3>1. pc' \in [Threads -> PCs]
        BY <1>5 DEF EndPulse, Goes, TypeOK, PCs
      <3>2. sPumpState' \in BOOLEAN
        BY <1>5 DEF EndPulse, PumpOff
      <3>3. pulses' \subseteq 0 .. MaxTime
        BY <1>5 DEF EndPulse, TypeOK
      <3>4. QED BY <1>5, <3>1, <3>2, <3>3 DEF EndPulse, TypeOK
    <2>2. QED
      BY <1>5, <2>1, SMTT(30)
        DEF EndPulse, Goes, MoistureInRange, MockAhead, NewestCommandInForce, StampingNewest,
         ReportsRealWaterings, PostedPulsesReal, Malformed, TypeOK, Threads, PCs
  <1>6. CASE Mailbox
    <2>1. TypeOK'
      <3>1. pc' \in [Threads -> PCs] /\ raw' \in [Threads -> U16]
        BY <1>6, ZeroFits DEF Mailbox, Goes, TypeOK, PCs
      <3>2. timedOut' \in BOOLEAN
        BY <1>6 DEF Mailbox
      <3>3. sLastWatering' \in 0 .. MaxTime /\ timestamp' \in 0 .. MaxTime
        BY <1>6, ZeroFits DEF Mailbox, TypeOK
      <3>4. QED BY <1>6, <3>1, <3>2, <3>3 DEF Mailbox, TypeOK
    <2>2. MockAhead'
      BY <1>6 DEF Mailbox, Goes, MockAhead, TypeOK, Threads
    <2>3. PostedPulsesReal'
      BY <1>6, Zenon DEF Mailbox, Posts, Goes, PostedPulsesReal
    <2>4. NewestCommandInForce' /\ StampingNewest'
      BY <1>6 DEF Mailbox, Goes, NewestCommandInForce, StampingNewest, Malformed, TypeOK,
         Threads
    <2>5. QED
      BY <1>6, <2>1, <2>2, <2>3, <2>4 DEF Mailbox, MoistureInRange, ReportsRealWaterings
  <1>7. QED BY <1>1, <1>2, <1>3, <1>4, <1>5, <1>6

\* Every step of telemetry outside the mock preserves the invariant, commands
\* included.
LEMMA TelemetryInv ==
  ASSUME Inv,
         \/ Connect \/ StartReading \/ Report \/ StampCommand
         \/ \E c \in Commands : RefuseCommand(c) \/ ApplyThreshold(c)
  PROVE  Inv'
  <1> USE DEF Inv, mockVars, policyVars, wateringVars, timeVars
  <1>1. CASE Connect
    BY <1>1, SMTT(30) DEF Connect, Goes, TypeOK, MoistureInRange, MockAhead,
       NewestCommandInForce, StampingNewest, ReportsRealWaterings, PostedPulsesReal,
       Malformed, Threads, PCs
  <1>2. CASE StartReading
    BY <1>2, SMTT(30) DEF StartReading, Goes, TypeOK, MoistureInRange, MockAhead,
       NewestCommandInForce, StampingNewest, ReportsRealWaterings, PostedPulsesReal,
       Malformed, Threads, PCs
  <1>3. CASE Report
    <2>1. TypeOK'
      <3>1. pc' \in [Threads -> PCs] /\ raw' \in [Threads -> U16]
        BY <1>3, ZeroFits DEF Report, Goes, TypeOK, PCs
      <3>2. QED BY <1>3, <3>1 DEF Report, TypeOK
    <2>2. QED
      BY <1>3, <2>1, SMTT(30)
        DEF Report, Goes, MoistureInRange, MockAhead, NewestCommandInForce, StampingNewest,
         ReportsRealWaterings, PostedPulsesReal, Malformed, TypeOK, Threads, PCs
  <1>4. CASE StampCommand
    <2>1. command \in Commands
      BY <1>4 DEF StampCommand, Goes, StampingNewest, TypeOK
    <2>2. NewestCommandInForce'
      BY <1>4, <2>1, SMTT(30) DEF StampCommand, Goes, StampingNewest,
         NewestCommandInForce, Malformed, TypeOK, Threads
    <2>3. TypeOK'
      BY <1>4, <2>1, IrrigationAssumption, SMTT(30) DEF StampCommand, Goes, TypeOK,
         Threads, PCs, NoCommand
    <2>4. StampingNewest'
      BY <1>4, SMTT(30) DEF StampCommand, Goes, StampingNewest, TypeOK, Threads
    <2>5. QED
      BY <1>4, <2>2, <2>3, <2>4, SMTT(30) DEF StampCommand, Goes, MoistureInRange,
         MockAhead, ReportsRealWaterings, PostedPulsesReal, TypeOK, Threads, PCs
  <1>5. ASSUME NEW c \in Commands, RefuseCommand(c)
        PROVE  Inv'
    <2>1. Malformed(c) \/ c.timestamp <= sLastCommandTimestamp
      BY <1>5 DEF RefuseCommand, Stale
    <2>2. pc' = pc /\ pc["telemetry"] = "idle"
      BY <1>5 DEF RefuseCommand, Goes, TypeOK
    <2>3. NewestCommandInForce'
      BY <1>5, <2>1, <2>2, SMTT(30) DEF RefuseCommand, NewestCommandInForce, Malformed
    <2>4. QED
      BY <1>5, <2>2, <2>3, SMTT(30) DEF RefuseCommand, TypeOK, MoistureInRange,
         MockAhead, StampingNewest, ReportsRealWaterings, PostedPulsesReal
  <1>6. ASSUME NEW c \in Commands, ApplyThreshold(c)
        PROVE  Inv'
    <2>1. c.timestamp \in Nat /\ c.threshold \in Nat
      BY IrrigationAssumption
    <2>2. /\ c.threshold <= U16Max /\ c.timestamp > sLastCommandTimestamp
      BY <1>6, <2>1, IrrigationAssumption DEF ApplyThreshold, Malformed, Stale, TypeOK
    <2>3. Wrap(c.threshold) = c.threshold
      BY <2>1, <2>2, NoWrap DEF U16
    <2>4. /\ pc["telemetry"] = "idle" /\ pc' = [pc EXCEPT !["telemetry"] = "stamp"]
          /\ sMoistureLow' = c.threshold /\ command' = c
          /\ delivered' = delivered \cup {c}
          /\ UNCHANGED <<sLastCommandTimestamp, mockVars, wateringVars, timeVars, reported>>
      BY <1>6, <2>3 DEF ApplyThreshold, Goes
    <2>5. \A d \in delivered : ~Malformed(d) => d.timestamp <= sLastCommandTimestamp
      BY <2>4 DEF NewestCommandInForce
    <2>6. \A d \in delivered' : ~Malformed(d) => d.timestamp <= c.timestamp
      <3>1. \A d \in delivered : d.timestamp \in Nat
        BY IrrigationAssumption DEF TypeOK
      <3>2. QED BY <2>1, <2>2, <2>4, <2>5, <3>1 DEF TypeOK
    <2>7. StampingNewest'
      <3>1. ~Malformed(c) /\ c \in delivered'
        BY <1>6, <2>4 DEF ApplyThreshold
      <3>2. ~Malformed(command)'
        BY <3>1, <2>4 DEF Malformed
      <3>3. \A d \in delivered' : ~Malformed(d)' => d.timestamp <= c.timestamp
        BY <2>6 DEF Malformed
      <3>4. sLastCommandTimestamp' < command'.timestamp
        BY <2>1, <2>2, <2>4 DEF TypeOK
      <3>5. QED BY <2>4, <3>1, <3>2, <3>3, <3>4 DEF StampingNewest
    <2>8. TypeOK'
      <3>1. pc' \in [Threads -> PCs]
        BY <2>4 DEF TypeOK, PCs
      <3>2. sMoistureLow' \in U16
        BY <2>1, <2>2, <2>4, IrrigationAssumption DEF U16
      <3>3. QED BY <2>4, <3>1, <3>2 DEF TypeOK, mockVars, wateringVars, timeVars
    <2>9. NewestCommandInForce'
      BY <2>4 DEF NewestCommandInForce, TypeOK, Threads
    <2>10. QED
      BY <2>4, <2>7, <2>8, <2>9, SMTT(30) DEF MoistureInRange, MockAhead,
         ReportsRealWaterings, PostedPulsesReal, TypeOK, Threads, PCs
  <1>7. QED BY <1>1, <1>2, <1>3, <1>4, <1>5, <1>6

\* The invariant is inductive.
LEMMA StepInv == Inv /\ [Next]_vars => Inv'
  <1> SUFFICES ASSUME Inv, [Next]_vars PROVE Inv' OBVIOUS
  <1>1. CASE \E t \in Threads : Mock(t)
    BY <1>1, MockInv
  <1>2. CASE WakeUp \/ TakeTime \/ EvaluateDry \/ EvaluateWet \/ EndPulse \/ Mailbox
    BY <1>2, LoopInv
  <1>3. CASE \/ Connect \/ StartReading \/ Report \/ StampCommand
             \/ \E c \in Commands : RefuseCommand(c) \/ ApplyThreshold(c)
    BY <1>3, TelemetryInv
  <1>4. CASE Tick
    BY <1>4, IrrigationAssumption, SMTT(30) DEF Tick, Inv, mockVars, policyVars,
       wateringVars, TypeOK, MoistureInRange, MockAhead, NewestCommandInForce,
       StampingNewest, ReportsRealWaterings, PostedPulsesReal, Malformed
  <1>5. CASE UNCHANGED vars
    BY <1>5, SMTT(30) DEF vars, Inv, mockVars, policyVars, wateringVars, timeVars,
       TypeOK, MoistureInRange, MockAhead, NewestCommandInForce, StampingNewest,
       ReportsRealWaterings, PostedPulsesReal, Malformed
  <1>6. QED
    BY <1>1, <1>2, <1>3, <1>4, <1>5 DEF Next, IrrigationStep, TelemetryStep, Threads

\* The invariant holds throughout.
THEOREM Invariance == Spec => []Inv
  BY InitInv, StepInv, PTL DEF Spec

\* Every variable keeps its type.
THEOREM TypeCorrect == Spec => []TypeOK
  <1>1. Inv => TypeOK BY DEF Inv
  <1>2. QED BY <1>1, Invariance, PTL

\* The mock sensor, which two threads step without a lock, at worst goes one step
\* further below the threshold than one thread alone would take it, and never wraps,
\* for every calibration with 2 * Step <= Low <= Reset.  It rests on the priorities.
THEOREM MockBounded == Spec => []MoistureInRange
  <1>1. Inv => MoistureInRange BY DEF Inv
  <1>2. QED BY <1>1, Invariance, PTL

\* The newest well-formed command delivered is the one in force, for every set of
\* commands and every order and repetition of their delivery.
THEOREM NewestWins == Spec => []NewestCommandInForce
  <1>1. Inv => NewestCommandInForce BY DEF Inv
  <1>2. QED BY <1>1, Invariance, PTL

\* Telemetry reports only waterings that took place.
THEOREM ReportsTrue == Spec => []ReportsRealWaterings
  <1>1. Inv => ReportsRealWaterings BY DEF Inv
  <1>2. QED BY <1>1, Invariance, PTL

\* Only a command later than all before it moves the threshold.
THEOREM ThresholdForward == Spec => ThresholdMovesForward
  <1>1. ASSUME Inv, [Next]_vars
        PROVE  [sMoistureLow' # sMoistureLow => \A c \in delivered :
                  ~Malformed(c) => c.timestamp < command'.timestamp]_vars
    <2> SUFFICES ASSUME Next, sMoistureLow' # sMoistureLow
                 PROVE  \A c \in delivered : ~Malformed(c) => c.timestamp < command'.timestamp
      BY <1>1
    <2>1. PICK c \in Commands : ApplyThreshold(c)
      BY MockStays, SMTT(30) DEF Next, IrrigationStep, TelemetryStep, Tick, WakeUp, TakeTime,
         EvaluateDry, EvaluateWet, EndPulse, Mailbox, Connect, StartReading, Report,
         StampCommand, RefuseCommand, policyVars, Threads
    <2>2. /\ pc["telemetry"] = "idle" /\ command' = c /\ ~Stale(c)
      BY <2>1 DEF ApplyThreshold, Goes
    <2>3. \A d \in delivered : ~Malformed(d) => d.timestamp <= sLastCommandTimestamp
      BY <1>1, <2>2 DEF Inv, NewestCommandInForce
    <2>4. \A d \in delivered : d.timestamp \in Nat
      BY <1>1, IrrigationAssumption DEF Inv, TypeOK
    <2>5. c.timestamp \in Nat /\ sLastCommandTimestamp \in Nat
      BY <1>1, IrrigationAssumption DEF Inv, TypeOK
    <2>6. QED BY <2>2, <2>3, <2>4, <2>5 DEF Stale
  <1>2. QED BY <1>1, Invariance, PTL DEF Spec, ThresholdMovesForward

-----------------------------------------------------------------------------
(* The node implements Controller *)

\* The pulses are not later than now, the one under way is not earlier than those
\* before it, and all of them are 0 until the clock is set.
PulsesInOrder ==
  /\ timestamp <= clock /\ \A p \in pulses : p <= clock
  /\ ~synced => timestamp = 0 /\ \A p \in pulses : p = 0
  /\ pc["irrigation"] \in {"evaluate", "pulse"} => \A p \in pulses : p <= timestamp
  /\ pc["irrigation"] = "mailbox" /\ outcome = "PumpActivation"
       => \A p \in pulses : p <= timestamp
  /\ \E m \in pulses \cup {0} : \A p \in pulses : p <= m

\* The clock and the loop keep the pulses in order.
LEMMA StepInOrder ==
  ASSUME Inv, PulsesInOrder, [Next]_vars
  PROVE  PulsesInOrder'
  <1> USE DEF PulsesInOrder, mockVars, policyVars, wateringVars, timeVars
  <1>t. /\ timestamp \in Nat /\ clock \in Nat /\ clock <= MaxTime /\ MaxTime \in Nat
        /\ pulses \subseteq Nat
    BY IrrigationAssumption DEF Inv, TypeOK
  <1>p. pc \in [Threads -> PCs]
    BY DEF Inv, TypeOK
  <1>1. CASE TakeTime
    <2>1. timestamp' = IF synced THEN clock ELSE 0
      BY <1>1 DEF TakeTime, Time
    <2>2. UNCHANGED <<clock, synced, pulses, outcome>> /\ pc'["irrigation"] = "evaluate"
      BY <1>1, <1>p DEF TakeTime, Goes, Threads
    <2>3. QED BY <1>t, <2>1, <2>2
  <1>2. CASE EndPulse
    <2>1. /\ pc["irrigation"] = "pulse" /\ pc'["irrigation"] = "mailbox"
          /\ UNCHANGED <<clock, synced, timestamp>> /\ pulses' = pulses \cup {timestamp}
      BY <1>2, <1>p DEF EndPulse, Goes, Threads
    <2>2. \A p \in pulses' : p <= timestamp
      BY <1>t, <2>1
    <2>3. QED BY <1>t, <2>1, <2>2
  <1>3. CASE Mailbox
    <2>1. /\ pc'["irrigation"] = "sleep" /\ timestamp' = 0
          /\ UNCHANGED <<clock, synced, pulses>>
      BY <1>3, <1>p DEF Mailbox, Goes, Threads
    <2>2. QED BY <1>t, <2>1
  <1>4. CASE Tick
    <2>1. /\ UNCHANGED <<pc, synced, pulses, timestamp, outcome>>
          /\ clock' = IF clock < MaxTime THEN clock + 1 ELSE clock
      BY <1>4 DEF Tick
    <2>2. clock' \in Nat /\ clock <= clock'
      BY <1>t, <2>1
    <2>3. timestamp' <= clock' /\ \A p \in pulses' : p <= clock'
      BY <1>t, <2>1, <2>2
    <2>4. QED BY <2>1, <2>3
  <1>5. CASE EvaluateDry \/ EvaluateWet
    <2>1. /\ pc["irrigation"] = "evaluate"
          /\ UNCHANGED <<clock, synced, pulses, timestamp>>
      BY <1>5 DEF EvaluateDry, EvaluateWet, Goes
    <2>2. QED BY <2>1
  <1>6. CASE Connect
    <2>1. UNCHANGED <<clock, pulses, timestamp, outcome>> /\ synced' = TRUE
      BY <1>6 DEF Connect
    <2>2. pc'["irrigation"] = pc["irrigation"]
      BY <1>6, <1>p DEF Connect, Goes, Threads
    <2>3. QED BY <2>1, <2>2
  <1>7. CASE \/ UNCHANGED vars \/ WakeUp \/ \E t \in Threads : Mock(t)
             \/ StartReading \/ Report \/ StampCommand
             \/ \E c \in Commands : RefuseCommand(c) \/ ApplyThreshold(c)
    <2>1. UNCHANGED <<clock, synced, pulses, timestamp, outcome>>
      BY <1>7, MockStays DEF vars, WakeUp, StartReading, Report, StampCommand, RefuseCommand,
         ApplyThreshold
    <2>2. pc'["irrigation"] \notin {"evaluate", "pulse", "mailbox"}
            \/ pc'["irrigation"] = pc["irrigation"]
      <3>1. CASE \E t \in Threads : Mock(t)
        BY <3>1, <1>p, MockStays DEF Threads
      <3>2. CASE ~ \E t \in Threads : Mock(t)
        BY <3>2, <1>7, <1>p, SMTT(30) DEF vars, WakeUp, StartReading, Report, StampCommand,
           RefuseCommand, ApplyThreshold, Goes, Threads
      <3>3. QED BY <3>1, <3>2
    <2>3. QED BY <2>1, <2>2
  <1>8. QED
    BY <1>1, <1>2, <1>3, <1>4, <1>5, <1>6, <1>7 DEF Next, IrrigationStep, TelemetryStep,
       Threads

\* There is one latest pulse.
LEMMA LastPulseIs ==
  ASSUME pulses \subseteq Nat, NEW m \in pulses \cup {0}, \A p \in pulses : p <= m
  PROVE  LastPulse = m
  <1>1. \A x \in pulses \cup {0} : (\A p \in pulses : p <= x) => x = m
    OBVIOUS
  <1>2. QED BY <1>1 DEF LastPulse

LEMMA LastPulseIsNext ==
  ASSUME pulses' \subseteq Nat, NEW m \in pulses' \cup {0}, \A p \in pulses' : p <= m
  PROVE  LastPulse' = m
  <1>1. \A x \in pulses' \cup {0} : (\A p \in pulses' : p <= x) => x = m
    OBVIOUS
  <1>2. QED BY <1>1 DEF LastPulse

\* Every step is a step of Controller, or none.
LEMMA StepImplements ==
  ASSUME Inv, PulsesInOrder, [Next]_vars
  PROVE  [C!Next]_<<1, sLastCommandTimestamp, LastPulse, sLastWatering>>
  <1> USE DEF mockVars, policyVars, wateringVars, timeVars
  <1>t. timestamp \in Nat /\ pulses \subseteq Nat /\ pc \in [Threads -> PCs]
    BY IrrigationAssumption DEF Inv, TypeOK
  <1>1. CASE StampCommand
    <2>1. sLastCommandTimestamp' > sLastCommandTimestamp
      <3>1. pc["telemetry"] = "stamp" /\ sLastCommandTimestamp' = command.timestamp
        BY <1>1 DEF StampCommand, Goes
      <3>2. sLastCommandTimestamp \in Nat /\ command.timestamp \in Nat
        BY <3>1, IrrigationAssumption DEF Inv, TypeOK, StampingNewest
      <3>3. QED BY <3>1, <3>2 DEF Inv, StampingNewest
    <2>2. UNCHANGED <<LastPulse, sLastWatering>>
      BY <1>1 DEF StampCommand, LastPulse
    <2>3. QED BY <2>1, <2>2 DEF C!Next, C!Accept
  <1>2. CASE EndPulse
    <2>1. /\ pc["irrigation"] = "pulse" /\ pulses' = pulses \cup {timestamp}
          /\ UNCHANGED <<sLastCommandTimestamp, sLastWatering>>
      BY <1>2 DEF EndPulse, Goes
    <2>2. \A p \in pulses : p <= timestamp
      BY <2>1 DEF PulsesInOrder
    <2>3. LastPulse' = timestamp
      BY <1>t, <2>1, <2>2, LastPulseIsNext
    <2>4. PICK m \in pulses \cup {0} : \A p \in pulses : p <= m
      BY DEF PulsesInOrder
    <2>5. LastPulse = m
      BY <1>t, <2>4, LastPulseIs
    <2>6. LastPulse' >= LastPulse
      BY <1>t, <2>2, <2>3, <2>5
    <2>7. QED BY <2>1, <2>6 DEF C!Next, C!Pulse
  <1>3. CASE Mailbox
    <2>1. /\ pc["irrigation"] = "mailbox" /\ UNCHANGED <<sLastCommandTimestamp, pulses>>
          /\ sLastWatering' = IF outcome = "PumpActivation" THEN timestamp ELSE sLastWatering
      BY <1>3 DEF Mailbox, Goes, Posts
    <2>2. LastPulse' = LastPulse
      BY <2>1 DEF LastPulse
    <2>3. CASE outcome = "PumpActivation"
      <3>1. timestamp \in pulses /\ \A p \in pulses : p <= timestamp
        BY <2>1, <2>3 DEF Inv, PostedPulsesReal, PulsesInOrder
      <3>2. LastPulse = timestamp
        BY <1>t, <3>1, LastPulseIs
      <3>3. QED BY <2>1, <2>2, <2>3, <3>2 DEF C!Next, C!Post
    <2>4. CASE outcome # "PumpActivation"
      BY <2>1, <2>2, <2>4
    <2>5. QED BY <2>3, <2>4
  <1>4. CASE \/ UNCHANGED vars \/ Tick \/ WakeUp \/ TakeTime \/ EvaluateDry \/ EvaluateWet
             \/ \E t \in Threads : Mock(t)
             \/ Connect \/ StartReading \/ Report
             \/ \E c \in Commands : RefuseCommand(c) \/ ApplyThreshold(c)
    <2>1. UNCHANGED <<sLastCommandTimestamp, pulses, sLastWatering>>
      BY <1>4, MockStays, SMTT(30) DEF vars, Tick, WakeUp, TakeTime, EvaluateDry,
         EvaluateWet, Connect, StartReading, Report, RefuseCommand, ApplyThreshold
    <2>2. QED BY <2>1 DEF LastPulse
  <1>5. QED
    BY <1>1, <1>2, <1>3, <1>4 DEF Next, IrrigationStep, TelemetryStep, Threads

\* The node implements Controller for every clock, threshold and set of commands: the
\* command in force only gets newer, and what is posted is always the latest pulse.
THEOREM Implements == Spec => ImplementsController
  <1>1. Init => PulsesInOrder /\ C!Init
    <2> SUFFICES ASSUME Init PROVE PulsesInOrder /\ C!Init OBVIOUS
    <2>1. pulses = {} /\ pc["irrigation"] = "sleep"
      BY DEF Init, Threads
    <2>2. PulsesInOrder
      BY <2>1 DEF Init, PulsesInOrder
    <2>3. LastPulse = 0
      BY <2>1 DEF LastPulse
    <2>4. QED BY <2>2, <2>3 DEF Init, C!Init
  <1>2. PulsesInOrder /\ Inv /\ [Next]_vars => PulsesInOrder'
    BY StepInOrder
  <1>3. PulsesInOrder /\ Inv /\ [Next]_vars
          => [C!Next]_<<1, sLastCommandTimestamp, LastPulse, sLastWatering>>
    BY StepImplements
  <1>4. QED
    BY <1>1, <1>2, <1>3, Invariance, PTL DEF Spec, ImplementsController, C!Spec

=============================================================================

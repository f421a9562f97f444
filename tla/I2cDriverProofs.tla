-------------------------- MODULE I2cDriverProofs --------------------------
(***************************************************************************)
(* Theorems about I2cDriver for any threads, devices, capabilities, table  *)
(* size and tick length.  The inductive invariant is Inv below: the     *)
(* safety invariants and what they rest on.                                *)
(***************************************************************************)
EXTENDS I2cDriver, FiniteSetTheorems, SequenceTheorems, TLAPS

\* Past LeaseCheck, weHoldLease tells what kind of claim the batch works under.
WeHoldLeaseSound ==
  \A t \in Threads :
    pc[t] \in BatchPCs \ {"held"} =>
      \A s \in Holding(table, call[t].dev) :
        table[s].owner = t => (table[s].isLease = weHoldLease[t])

\* A call inside the driver asks for no more than its capability grants.
CallWithinCeiling ==
  \A t \in Threads :
    pc[t] # "idle" =>
      LET cap == Cap[call[t].dev]
      IN  /\ ~call[t].isLease => call[t].holdMs = cap.maxBatchMs
          /\ call[t].isLease /\ cap.maxLeaseMs # 0 => call[t].holdMs <= cap.maxLeaseMs

Inv ==
  /\ TypeOK /\ OneClaimPerDevice /\ BatchClaimReturned /\ WeHoldLeaseSound
  /\ SleeperHasHolder /\ CallWithinCeiling /\ ClaimWithinCeiling

-----------------------------------------------------------------------------
(* Operators *)

\* A scan of the table that stops at the first hit returns a hit.
LEMMA FirstIsMember ==
  ASSUME NEW S \in SUBSET Slots, S # {}
  PROVE  First(S) \in S
<1> DEFINE R == StrictSubsetOrdering(S)
           Below(s) == {r \in S : r <= s}
           T == {Below(s) : s \in S}
<1>1. S \subseteq Int /\ IsFiniteSet(S)
  <2>1. MaxReservations \in Int /\ Slots \subseteq Int
    BY DriverAssumption DEF Slots
  <2>2. IsFiniteSet(Slots)
    BY <2>1, FS_Interval DEF Slots
  <2> QED BY <2>1, <2>2, FS_Subset
<1>2. IsWellFoundedOn(R, SUBSET S)
  BY <1>1, FS_StrictSubsetOrderingWellFounded, FS_FiniteSubsetsOfFinite
<1>3. T \subseteq SUBSET S /\ T # {}
  OBVIOUS
<1>4. PICK A \in T : \A B \in T : ~(<<B, A>> \in R)
  <2> HIDE DEF R, T
  <2> QED BY <1>2, <1>3, WFMin
<1>5. PICK s \in S : A = Below(s)
  BY <1>4
<1>6. ASSUME NEW r \in S
      PROVE  s <= r
  <2>1. SUFFICES ASSUME r < s PROVE FALSE
    BY <1>1
  <2>2. Below(r) \in T /\ Below(r) \subseteq S /\ Below(s) \subseteq S
    OBVIOUS
  <2>3. Below(r) \subseteq Below(s)
    <3>1. ASSUME NEW x \in Below(r) PROVE x \in Below(s)
      <4>1. x \in Int /\ r \in Int /\ s \in Int /\ x <= r
        BY <1>1
      <4> QED BY <2>1, <4>1
    <3> QED BY <3>1
  <2>4. s \in Below(s) /\ s \notin Below(r)
    BY <1>1, <2>1
  <2>5. <<Below(r), Below(s)>> \in R
    <3> HIDE DEF Below
    <3> QED BY <2>2, <2>3, <2>4 DEF StrictSubsetOrdering
  <2> QED BY <1>4, <1>5, <2>2, <2>5
<1> QED BY <1>6 DEF First

\* Milliseconds become ticks, and never more of them for fewer milliseconds.
LEMMA TicksType ==
  ASSUME NEW ms \in Nat
  PROVE  MsToTicks(ms) \in Nat
BY DriverAssumption DEF MsToTicks

LEMMA TicksMonotone ==
  ASSUME NEW a \in Nat, NEW b \in Nat, a <= b
  PROVE  MsToTicks(a) <= MsToTicks(b)
<1>1. MsPerTick \in Nat \ {0}
  BY DriverAssumption
<1> QED BY <1>1 DEF MsToTicks

\* A lease is never granted for longer than a ceiling the device declares.
LEMMA LeaseHoldBound ==
  ASSUME NEW d \in Devices, NEW ms \in Nat
  PROVE  /\ LeaseHold(d, ms) \in Nat
         /\ Cap[d].maxLeaseMs # 0 => LeaseHold(d, ms) <= Cap[d].maxLeaseMs
BY DriverAssumption DEF LeaseHold, DeviceCap

\* expire_locked drops claims and does nothing else; it bumps if it drops any.
LEMMA SweptFacts ==
  ASSUME TypeOK
  PROVE  /\ Swept \in [Slots -> Claim \cup {NoClaim}]
         /\ \A s \in Slots : Swept[s] = table[s]
                             \/ (Swept[s] = NoClaim /\ table[s] # NoClaim
                                 /\ table[s].ticksLeft = 0)
         /\ ~Expired => Swept = table
         /\ Expired \in BOOLEAN
<1>1. table \in [Slots -> Claim \cup {NoClaim}]
  BY DEF TypeOK
<1>2. Swept \in [Slots -> Claim \cup {NoClaim}]
  BY <1>1 DEF Swept, Live, Lapsed
<1>3. \A s \in Slots : Swept[s] = IF s \in Lapsed(table) THEN NoClaim ELSE table[s]
  BY DEF Swept, Live
<1>4. ~Expired => Swept = table
  <2>1. SUFFICES ASSUME ~Expired PROVE Swept = table
    OBVIOUS
  <2>2. \A s \in Slots : Swept[s] = table[s]
    BY <1>3, <2>1 DEF Expired
  <2> QED BY <1>1, <1>2, <2>2
<1> QED BY <1>2, <1>3, <1>4 DEF Lapsed, Expired

-----------------------------------------------------------------------------
(* Type correctness *)

\* The variables a call's progress does not touch keep their types.
SharedType ==
  /\ table' \in [Slots -> Claim \cup {NoClaim}]
  /\ bus' \in Threads \cup {NoThread}
  /\ sInitialized' \in BOOLEAN

LEMMA NoCallType == NoCall \in Call
  BY EmptySeq DEF NoCall, Call

\* Returning to the caller.
LEMMA ReturnType ==
  ASSUME TypeOK, NEW t \in Threads, NEW code \in Codes, NEW bumped \in BOOLEAN,
         Return(t, code, bumped), SharedType
  PROVE  TypeOK'
BY NoCallType DEF TypeOK, Return, Goto, MovePc, StillFresh, SharedType, PCs

\* Moving on inside the driver, the call as it was.
LEMMA GotoType ==
  ASSUME TypeOK, NEW t \in Threads, NEW bumped \in BOOLEAN,
         NEW next \in PCs \ {"bus", "xfer"}, pc[t] # "idle",
         Goto(t, next, bumped), SharedType,
         call' = call, weHoldLease' \in [Threads -> BOOLEAN], ret' = ret
  PROVE  TypeOK'
BY DEF TypeOK, Goto, MovePc, StillFresh, SharedType, PCs

LEMMA BreakType ==
  ASSUME TypeOK, NEW t \in Threads, NEW code \in Codes, NEW bumped \in BOOLEAN,
         pc[t] # "idle", Break(t, code, bumped), SharedType
  PROVE  TypeOK'
<1>1. /\ call' \in [Threads -> Call]
      /\ call'[t].dev = call[t].dev
      /\ \A u \in Threads \ {t} : call'[u] = call[u]
  <2>1. [call[t] EXCEPT !.steps = <<>>] \in Call
    BY EmptySeq DEF TypeOK, Call
  <2> QED BY <2>1 DEF TypeOK, Break
<1> QED BY <1>1 DEF TypeOK, Break, Goto, MovePc, StillFresh, SharedType, PCs, BatchPCs

LEMMA StartReserveType ==
  ASSUME TypeOK, NEW t \in Threads, NEW c \in Call, c.dev \in Devices,
         StartReserve(t, c)
  PROVE  TypeOK'
BY DEF TypeOK, StartReserve, Goto, MovePc, StillFresh, PCs, BatchPCs, Codes

LEMMA RejectType ==
  ASSUME TypeOK, NEW t \in Threads, NEW code \in Codes, Reject(t, code)
  PROVE  TypeOK'
<1>1. SharedType
  BY DEF Reject, SharedType, TypeOK
<1> QED BY <1>1, ReturnType DEF Reject


LEMMA StepsType ==
  ASSUME TypeOK, NEW t \in Threads, call[t].steps # <<>>
  PROVE  /\ [call EXCEPT ![t].steps = Tail(@)] \in [Threads -> Call]
         /\ This(t) \in Step
<1>1. call[t] \in Call /\ call[t].steps \in Seq(Step)
  BY DEF TypeOK, Call
<1>2. Tail(call[t].steps) \in Seq(Step) /\ Head(call[t].steps) \in Step
  BY <1>1, HeadTailProperties
<1>3. [call[t] EXCEPT !.steps = Tail(@)] \in Call
  BY <1>1, <1>2 DEF Call
<1> QED BY <1>2, <1>3 DEF TypeOK, This

LEMMA ReleasedType ==
  ASSUME TypeOK, NEW t \in Threads, NEW d \in Devices
  PROVE  /\ Released(t, d) \in [Slots -> Claim \cup {NoClaim}]
         /\ Releases(t, d) \in BOOLEAN
BY DEF TypeOK, Released, Releases, HeldBy

\* i2c_transact and its wrappers, called with any batch.
LEMMA TransactType ==
  ASSUME TypeOK, NEW t \in Threads, NEW d \in Devices, NEW b \in Seq(Step),
         NEW limited \in BOOLEAN, Transact(t, d, b, limited)
  PROVE  TypeOK'
<1>1. CASE Reject(t, BatchRefusal(d, b))
  <2>1. BatchRefusal(d, b) \in Codes
    BY DEF BatchRefusal, Codes
  <2> QED BY <1>1, <2>1, RejectType
<1>2. CASE StartReserve(t, [dev |-> d, steps |-> b, holdMs |-> Cap[d].maxBatchMs,
                            isLease |-> FALSE, limited |-> limited])
  <2>1. [dev |-> d, steps |-> b, holdMs |-> Cap[d].maxBatchMs,
         isLease |-> FALSE, limited |-> limited] \in Call
    BY DriverAssumption DEF Call, DeviceCap
  <2> QED BY <1>2, <2>1, StartReserveType
<1> QED BY <1>1, <1>2 DEF Transact

LEMMA WrapperType ==
  ASSUME TypeOK, NEW t \in Threads, NEW d \in Devices,
         NEW b, Wrapper(t, d, b),
         (\A i \in DOMAIN b : b[i].len <= U16Max) => b \in Seq(Step),
         \A i \in DOMAIN b : b[i].len \in Nat
  PROVE  TypeOK'
<1>1. CASE Reject(t, "EINVAL")
  BY <1>1, RejectType DEF Codes
<1>2. CASE /\ ~\E i \in DOMAIN b : b[i].len > U16Max
           /\ Transact(t, d, b, FALSE)
  <2>1. \A i \in DOMAIN b : b[i].len <= U16Max
    BY <1>2, DriverAssumption
  <2> QED BY <1>2, <2>1, TransactType
<1> QED BY <1>1, <1>2 DEF Wrapper

\* Every entry point.
LEMMA CallsType ==
  ASSUME TypeOK, NEW t \in Threads, Calls(t)
  PROVE  TypeOK'
<1>1. ASSUME NEW d \in Devices, NEW b \in Batches, NEW limited \in BOOLEAN,
             Transact(t, d, b, limited)
      PROVE  TypeOK'
  <2>1. b \in Seq(Step)
    BY DriverAssumption
  <2> QED BY <1>1, <2>1, TransactType
<1>2. ASSUME NEW d \in Devices, NEW n \in Lens, NEW k \in StepKinds,
             Wrapper(t, d, <<Buffer(k, n)>>)
      PROVE  TypeOK'
  <2>1. n \in Nat
    BY DriverAssumption
  <2>2. n <= U16Max => <<Buffer(k, n)>> \in Seq(Step)
    BY <2>1 DEF Buffer, Step
  <2>3. ASSUME NEW i \in DOMAIN <<Buffer(k, n)>>
        PROVE  <<Buffer(k, n)>>[i].len = n
    BY DEF Buffer
  <2>4. 1 \in DOMAIN <<Buffer(k, n)>>
    OBVIOUS
  <2> QED BY <1>2, <2>1, <2>2, <2>3, <2>4, WrapperType
<1>3. ASSUME NEW d \in Devices, NEW wl \in Lens, NEW n \in Lens,
             I2cWriteRead(t, d, wl, n)
      PROVE  TypeOK'
  <2>1. n \in Nat /\ wl \in Nat
    BY DriverAssumption
  <2>2. wl <= U16Max /\ n <= U16Max
          => <<Buffer("write", wl), Buffer("read", n)>> \in Seq(Step)
    BY <2>1 DEF Buffer, Step, StepKinds
  <2> DEFINE b == <<Buffer("write", wl), Buffer("read", n)>>
  <2>3. /\ DOMAIN b = 1 .. 2
        /\ b[1].len = wl /\ b[2].len = n
    BY DEF Buffer
  <2>4. (\A i \in DOMAIN b : b[i].len \in Nat)
        /\ ((\A i \in DOMAIN b : b[i].len <= U16Max) => wl <= U16Max /\ n <= U16Max)
    BY <2>1, <2>3
  <2>5. Wrapper(t, d, b)
    BY <1>3 DEF I2cWriteRead
  <2> HIDE DEF b
  <2> QED BY <2>2, <2>4, <2>5, WrapperType DEF b
<1>4. ASSUME NEW d \in Devices, NEW ms \in LeaseMs, NEW limited \in BOOLEAN,
             LeaseAcquire(t, d, ms, limited)
      PROVE  TypeOK'
  <2>1. CASE Reject(t, LeaseRefusal(d, ms))
    BY <2>1, RejectType DEF LeaseRefusal, Codes
  <2>2. CASE StartReserve(t, [dev |-> d, steps |-> <<>>, holdMs |-> LeaseHold(d, ms),
                              isLease |-> TRUE, limited |-> limited])
    <3>1. [dev |-> d, steps |-> <<>>, holdMs |-> LeaseHold(d, ms),
           isLease |-> TRUE, limited |-> limited] \in Call
      BY DriverAssumption, LeaseHoldBound, EmptySeq DEF Call
    <3> QED BY <2>2, <3>1, StartReserveType
  <2> QED BY <1>4, <2>1, <2>2 DEF LeaseAcquire
<1>5. ASSUME NEW d \in Devices, LeaseRelease(t, d)
      PROVE  TypeOK'
  <2>1. SharedType
    BY <1>5, ReleasedType DEF LeaseRelease, SharedType, TypeOK
  <2> QED BY <1>5, <2>1, ReleasedType, ReturnType DEF LeaseRelease, Codes
<1> QED BY <1>1, <1>2, <1>3, <1>4, <1>5 DEF Calls, I2cWrite, I2cRead, StepKinds


\* reserve_device returned 0.
LEMMA ReservedType ==
  ASSUME TypeOK, NEW t \in Threads, pc[t] = "reserve", Reserved(t), SharedType
  PROVE  TypeOK'
<1>1. Expired \in BOOLEAN
  BY SweptFacts
<1>2. CASE call[t].isLease
  BY <1>1, <1>2, ReturnType DEF Reserved, Codes
<1>3. CASE ~call[t].isLease
  <2>1. Goto(t, "held", Expired) /\ call' = call /\ ret' = ret
        /\ weHoldLease' \in [Threads -> BOOLEAN]
    BY <1>3 DEF Reserved, TypeOK
  <2> QED BY <1>1, <2>1, GotoType DEF PCs, BatchPCs
<1> QED BY <1>2, <1>3

LEMMA NewClaimType ==
  ASSUME TypeOK, NEW t \in Threads, pc[t] # "idle"
  PROVE  NewClaim(t) \in Claim
<1>1. call[t].dev \in Devices /\ call[t].holdMs \in Nat /\ call[t].isLease \in BOOLEAN
  BY DEF TypeOK, Call
<1> QED BY <1>1, TicksType DEF NewClaim, Claim

LEMMA ReserveType ==
  ASSUME TypeOK, NEW t \in Threads, Reserve(t)
  PROVE  TypeOK'
<1>1. pc[t] = "reserve" /\ Expired \in BOOLEAN
  BY SweptFacts DEF Reserve, ReserveFree, ReserveFull, ReserveOwn, ReserveBusy
<1>2. table' = Swept /\ bus' = bus /\ sInitialized' = sInitialized => SharedType
  BY SweptFacts DEF SharedType, TypeOK
<1>3. CASE ReserveFree(t)
  <2>1. SharedType
    BY <1>1, <1>3, SweptFacts, NewClaimType DEF ReserveFree, SharedType, TypeOK
  <2> QED BY <1>1, <1>3, <2>1, ReservedType DEF ReserveFree
<1>4. CASE ReserveFull(t)
  BY <1>1, <1>2, <1>4, ReturnType DEF ReserveFull, Codes
<1>5. CASE ReserveOwn(t)
  BY <1>1, <1>2, <1>5, ReservedType DEF ReserveOwn
<1>6. CASE ReserveBusy(t)
  <2>1. SharedType
    BY <1>2, <1>6 DEF ReserveBusy
  <2>2. /\ pc' \in [Threads -> PCs]
        /\ pc'[t] = "toWait"
        /\ \A u \in Threads \ {t} :
             pc'[u] = pc[u] \/ (pc[u] = "asleep" /\ pc'[u] = "reserve")
    BY <1>6 DEF ReserveBusy, MovePc, TypeOK, PCs
  <2>3. fresh' \subseteq Threads
    BY <1>6 DEF ReserveBusy, StillFresh, TypeOK
  <2> QED BY <1>1, <1>6, <2>1, <2>2, <2>3 DEF ReserveBusy, SharedType, TypeOK
<1> QED BY <1>3, <1>4, <1>5, <1>6 DEF Reserve

LEMMA WaitingType ==
  ASSUME TypeOK, NEW t \in Threads, Waiting(t)
  PROVE  TypeOK'
<1>1. CASE FutexWait(t)
  BY <1>1, GotoType DEF FutexWait, SharedType, TypeOK, PCs
<1>2. CASE FutexTimeout(t)
  BY <1>2, ReturnType DEF FutexTimeout, SharedType, TypeOK, Codes
<1> QED BY <1>1, <1>2 DEF Waiting

LEMMA RunBatchType ==
  ASSUME TypeOK, NEW t \in Threads, RunBatch(t)
  PROVE  TypeOK'
<1>1. CASE LeaseCheck(t)
  <2>1. weHoldLease' \in [Threads -> BOOLEAN]
    <3>1. ASSUME NEW S \in SUBSET Slots
          PROVE  (S # {} /\ table[First(S)].isLease) \in BOOLEAN
      OBVIOUS
    <3> QED BY <1>1, <3>1 DEF LeaseCheck, TypeOK, Holding
  <2> QED BY <1>1, <2>1, GotoType DEF LeaseCheck, SharedType, TypeOK, PCs, BatchPCs
<1>2. CASE DelayStep(t)
  <2>1. call' \in [Threads -> Call]
    BY <1>2, StepsType DEF DelayStep, AtStep
  <2> QED BY <1>2, <2>1 DEF DelayStep, AtStep, Goto, MovePc, StillFresh, TypeOK, PCs,
                            BatchPCs
<1>3. CASE NoBufferStep(t)
  BY <1>3, BreakType DEF NoBufferStep, AtStep, SharedType, TypeOK, Codes
<1>4. CASE CheckStep(t)
  <2>1. SharedType /\ Expired \in BOOLEAN /\ pc[t] = "step" /\ call[t].steps # <<>>
    BY <1>4, SweptFacts DEF CheckStep, SharedType, TypeOK, AtStep
  <2>2. CASE Break(t, "ETIMEDOUT", Expired) \/ Break(t, "EINVAL", Expired)
    BY <2>1, <2>2, BreakType DEF Codes
  <2>3. CASE Goto(t, "bus", Expired) /\ UNCHANGED <<call, weHoldLease, ret>>
    BY <2>1, <2>3 DEF Goto, MovePc, StillFresh, TypeOK, SharedType, PCs, BatchPCs
  <2> QED BY <1>4, <2>2, <2>3 DEF CheckStep
<1>5. CASE BusLock(t)
  BY <1>5 DEF BusLock, Goto, MovePc, StillFresh, TypeOK, PCs, BatchPCs
<1>6. CASE Transfer(t)
  <2>1. SharedType /\ pc[t] = "xfer" /\ call[t].steps # <<>>
    BY <1>6 DEF Transfer, SharedType, TypeOK
  <2>2. CASE Break(t, "EIO", FALSE)
    BY <2>1, <2>2, BreakType DEF Codes
  <2>3. CASE /\ call' = [call EXCEPT ![t].steps = Tail(@)]
             /\ Goto(t, "step", FALSE) /\ UNCHANGED <<weHoldLease, ret>>
    <3>1. call' \in [Threads -> Call]
      BY <2>1, <2>3, StepsType
    <3> QED BY <2>1, <2>3, <3>1 DEF Goto, MovePc, StillFresh, TypeOK, SharedType, PCs,
                                   BatchPCs
  <2> QED BY <1>6, <2>2, <2>3 DEF Transfer
<1>7. CASE StepsDone(t)
  BY <1>7, GotoType DEF StepsDone, SharedType, TypeOK, PCs, BatchPCs
<1>8. CASE Finish(t)
  <2>1. pc[t] = "finish" /\ call[t].dev \in Devices /\ ret[t] \in Codes
    BY <1>8 DEF Finish, TypeOK
  <2>2. SharedType
    BY <1>8, <2>1, ReleasedType DEF Finish, SharedType, TypeOK
  <2>3. (~weHoldLease[t] /\ Releases(t, call[t].dev)) \in BOOLEAN
    OBVIOUS
  <2> QED BY <1>8, <2>1, <2>2, <2>3, ReturnType DEF Finish
<1> QED BY <1>1, <1>2, <1>3, <1>4, <1>5, <1>6, <1>7, <1>8 DEF RunBatch

LEMMA TickType ==
  ASSUME TypeOK, Tick
  PROVE  TypeOK'
<1>1. ASSUME NEW s \in Slots, table[s] # NoClaim, table[s].ticksLeft > 0
      PROVE  [table[s] EXCEPT !.ticksLeft = @ - 1] \in Claim
  <2>1. table[s] \in Claim
    BY <1>1 DEF TypeOK
  <2> QED BY <1>1, <2>1 DEF Claim
<1>2. table' \in [Slots -> Claim \cup {NoClaim}]
  BY <1>1 DEF Tick, TypeOK
<1> QED BY <1>2 DEF Tick, TypeOK

LEMMA InitType == Init => TypeOK
  BY NoCallType DEF Init, TypeOK, PCs, Codes

LEMMA NextType ==
  ASSUME TypeOK, [Next]_vars
  PROVE  TypeOK'
<1>1. CASE UNCHANGED vars
  BY <1>1 DEF vars, TypeOK
<1>2. CASE Next
  BY <1>2, CallsType, ReserveType, WaitingType, RunBatchType, TickType DEF Next
<1> QED BY <1>1, <1>2

\* Type correctness: a state the driver reaches has the types of its variables,
\* and a thread on the wire has a step left to run there.
THEOREM TypeCorrect == Spec => []TypeOK
<1>1. Init => TypeOK
  BY InitType
<1>2. TypeOK /\ [Next]_vars => TypeOK'
  BY NextType
<1> QED BY <1>1, <1>2, PTL DEF Spec

-----------------------------------------------------------------------------
(* What one step may change *)

\* One step of thread t.
ThreadStep(t) == Calls(t) \/ Reserve(t) \/ Waiting(t) \/ RunBatch(t)

\* Thread t leaves the others alone, except that a bump wakes the sleepers.
OthersKept(t) ==
  \A u \in Threads \ {t} :
    /\ call'[u] = call[u] /\ weHoldLease'[u] = weHoldLease[u]
    /\ pc'[u] = pc[u] \/ (pc[u] = "asleep" /\ pc'[u] = "reserve")

\* Thread t drops its claim on d.
DropsClaim(t, d) ==
  /\ Releases(t, d) /\ table' = Released(t, d)
  /\ pc'[t] = "idle" /\ fresh' = {}
  /\ \A u \in Threads : pc'[u] # "asleep"
  /\ \/ pc[t] = "idle"
     \/ pc[t] = "finish" /\ d = call[t].dev /\ ~weHoldLease[t]

\* Nobody is woken, and no snapshot but t's changes.
Silent(t) ==
  /\ fresh' \ {t} = fresh \ {t}
  /\ \A u \in Threads \ {t} : pc'[u] = pc[u]

\* Everybody is woken, and no snapshot but t's is up to date.
WakesAll(t) ==
  /\ fresh' \subseteq {t}
  /\ \A u \in Threads : pc'[u] # "asleep"

LEMMA ReturnFrame ==
  ASSUME TypeOK, NEW t \in Threads, NEW code, NEW bumped \in BOOLEAN,
         Return(t, code, bumped)
  PROVE  /\ OthersKept(t) /\ pc'[t] = "idle"
         /\ bumped => fresh' = {} /\ \A u \in Threads : pc'[u] # "asleep"
         /\ ~bumped => fresh' = fresh \ {t} /\ \A u \in Threads \ {t} : pc'[u] = pc[u]
BY DEF TypeOK, Return, Goto, MovePc, StillFresh, OthersKept

LEMMA GotoFrame ==
  ASSUME TypeOK, NEW t \in Threads, NEW bumped \in BOOLEAN, NEW next,
         Goto(t, next, bumped)
  PROVE  /\ pc'[t] = next
         /\ \A u \in Threads \ {t} : pc'[u] = pc[u] \/ (pc[u] = "asleep" /\ pc'[u] = "reserve")
         /\ bumped => fresh' = {} /\ \A u \in Threads \ {t} : pc'[u] # "asleep"
         /\ ~bumped => fresh' = fresh \ {t} /\ \A u \in Threads \ {t} : pc'[u] = pc[u]
BY DEF TypeOK, Goto, MovePc, StillFresh

\* Calls: a refusal or the start of a reservation, else a lease given back.
LEMMA CallsFrame ==
  ASSUME TypeOK, NEW t \in Threads, Calls(t)
  PROVE  /\ pc[t] = "idle" /\ OthersKept(t)
         /\ \/ /\ table' = table /\ pc'[t] \in {"idle", "reserve"}
               /\ fresh' = fresh \ {t}
               /\ \A u \in Threads \ {t} : pc'[u] = pc[u]
            \/ \E d \in Devices : DropsClaim(t, d)
<1> DEFINE Quiet == /\ OthersKept(t) /\ table' = table /\ pc'[t] \in {"idle", "reserve"}
                    /\ fresh' = fresh \ {t}
                    /\ \A u \in Threads \ {t} : pc'[u] = pc[u]
<1>1. ASSUME NEW code, Reject(t, code) PROVE Quiet
  BY <1>1, ReturnFrame DEF Reject
<1>2. ASSUME NEW c, StartReserve(t, c) PROVE Quiet
  BY <1>2, GotoFrame DEF StartReserve, OthersKept, TypeOK
<1>3. ASSUME NEW d, NEW b, NEW limited, Transact(t, d, b, limited)
      PROVE  Quiet /\ pc[t] = "idle"
  BY <1>1, <1>2, <1>3 DEF Transact
<1>4. ASSUME NEW d, NEW b, Wrapper(t, d, b)
      PROVE  Quiet /\ pc[t] = "idle"
  BY <1>1, <1>3, <1>4 DEF Wrapper
<1>5. ASSUME NEW d, NEW ms, NEW limited, LeaseAcquire(t, d, ms, limited)
      PROVE  Quiet /\ pc[t] = "idle"
  BY <1>1, <1>2, <1>5 DEF LeaseAcquire
<1>6. ASSUME NEW d \in Devices, LeaseRelease(t, d)
      PROVE  /\ pc[t] = "idle" /\ OthersKept(t)
             /\ Quiet \/ DropsClaim(t, d)
  <2>1. Releases(t, d) \in BOOLEAN
    BY ReleasedType
  <2>2. ~Releases(t, d) => table' = table
    BY <1>6 DEF LeaseRelease, Released
  <2> QED BY <1>6, <2>1, <2>2, ReturnFrame DEF LeaseRelease, DropsClaim
<1> HIDE DEF Quiet
<1>7. Quiet \/ \E d \in Devices : DropsClaim(t, d)
  BY <1>3, <1>4, <1>5, <1>6 DEF Calls, I2cWrite, I2cRead, I2cWriteRead
<1>8. pc[t] = "idle" /\ OthersKept(t)
  BY <1>3, <1>4, <1>5, <1>6 DEF Calls, I2cWrite, I2cRead, I2cWriteRead, Quiet
<1> QED BY <1>7, <1>8 DEF Quiet


\* A pass of reserve_device: a claim, a wait, or a sweep and a result.
LEMMA ReserveFrame ==
  ASSUME TypeOK, NEW t \in Threads, Reserve(t)
  PROVE  /\ pc[t] = "reserve" /\ OthersKept(t)
         /\ Expired => WakesAll(t)
         /\ ~Expired => Silent(t)
         /\ \/ ReserveFree(t) /\ pc'[t] \in {"idle", "held"}
            \/ ReserveBusy(t) /\ pc'[t] = "toWait"
            \/ table' = Swept /\ pc'[t] \in {"idle", "held"}
         /\ pc'[t] = "held" => call' = call /\ ~call[t].isLease
<1>1. pc[t] = "reserve" /\ Expired \in BOOLEAN
  BY SweptFacts DEF Reserve, ReserveFree, ReserveFull, ReserveOwn, ReserveBusy
<1>2. ASSUME NEW code, Return(t, code, Expired)
      PROVE  /\ OthersKept(t) /\ pc'[t] = "idle"
             /\ Expired => WakesAll(t)
             /\ ~Expired => Silent(t)
  BY <1>1, <1>2, ReturnFrame DEF WakesAll, Silent
<1>3. ASSUME Reserved(t)
      PROVE  /\ OthersKept(t) /\ pc'[t] \in {"idle", "held"}
             /\ Expired => WakesAll(t)
             /\ ~Expired => Silent(t)
             /\ pc'[t] = "held" => call' = call /\ ~call[t].isLease
  <2>1. CASE call[t].isLease
    BY <1>2, <1>3, <2>1 DEF Reserved
  <2>2. CASE ~call[t].isLease
    BY <1>1, <1>3, <2>2, GotoFrame DEF Reserved, OthersKept, WakesAll, Silent
  <2> QED BY <2>1, <2>2
<1>4. CASE ReserveFree(t)
  BY <1>1, <1>3, <1>4 DEF ReserveFree
<1>5. CASE ReserveFull(t)
  BY <1>1, <1>2, <1>5 DEF ReserveFull
<1>6. CASE ReserveOwn(t)
  BY <1>1, <1>3, <1>6 DEF ReserveOwn
<1>7. CASE ReserveBusy(t)
  BY <1>1, <1>7 DEF ReserveBusy, MovePc, StillFresh, OthersKept, WakesAll, Silent, TypeOK
<1> QED BY <1>4, <1>5, <1>6, <1>7 DEF Reserve

LEMMA WaitingFrame ==
  ASSUME TypeOK, NEW t \in Threads, Waiting(t)
  PROVE  /\ OthersKept(t) /\ Silent(t) /\ table' = table
         /\ pc[t] \in {"toWait", "asleep"}
         /\ pc'[t] \in {"idle", "reserve", "asleep"}
         /\ pc'[t] = "asleep" => pc[t] = "toWait" /\ t \in fresh /\ call' = call
<1>1. CASE FutexWait(t)
  BY <1>1, GotoFrame DEF FutexWait, OthersKept, Silent
<1>2. CASE FutexTimeout(t)
  BY <1>2, ReturnFrame DEF FutexTimeout, Silent
<1> QED BY <1>1, <1>2 DEF Waiting

\* A step of a batch: its end, or one further into it.
LEMMA RunBatchFrame ==
  ASSUME TypeOK, NEW t \in Threads, RunBatch(t)
  PROVE  /\ pc[t] \in BatchPCs /\ OthersKept(t)
         /\ \/ DropsClaim(t, call[t].dev)
            \/ /\ pc[t] = "finish" /\ pc'[t] = "idle" /\ table' = table /\ Silent(t)
               /\ weHoldLease[t] \/ ~Releases(t, call[t].dev)
            \/ /\ pc'[t] \in BatchPCs \ {"held"} /\ call'[t].dev = call[t].dev
               /\ LeaseCheck(t) \/ (pc[t] # "held" /\ weHoldLease' = weHoldLease)
               /\ \/ table' = table /\ Silent(t)
                  \/ table' = Swept /\ Expired /\ WakesAll(t)
<1> DEFINE Further == /\ OthersKept(t) /\ pc'[t] \in BatchPCs \ {"held"}
                      /\ call'[t].dev = call[t].dev
           Moved(bumped) == /\ ~bumped => Silent(t)
                            /\ bumped => WakesAll(t)
<1>1. ASSUME NEW code, NEW bumped \in BOOLEAN, Break(t, code, bumped)
      PROVE  Further /\ Moved(bumped) /\ weHoldLease' = weHoldLease
  <2>1. call'[t].dev = call[t].dev /\ \A u \in Threads \ {t} : call'[u] = call[u]
    BY <1>1 DEF Break, TypeOK, Call
  <2> QED BY <1>1, <2>1, GotoFrame DEF Break, OthersKept, BatchPCs, WakesAll, Silent
<1>2. ASSUME NEW next \in BatchPCs \ {"held"}, NEW bumped \in BOOLEAN,
             Goto(t, next, bumped),
             call' = call \/ call' = [call EXCEPT ![t].steps = Tail(@)],
             \A u \in Threads \ {t} : weHoldLease'[u] = weHoldLease[u]
      PROVE  Further /\ Moved(bumped)
  <2>1. call'[t].dev = call[t].dev /\ \A u \in Threads \ {t} : call'[u] = call[u]
    BY <1>2 DEF TypeOK, Call
  <2> QED BY <1>2, <2>1, GotoFrame DEF OthersKept, BatchPCs, WakesAll, Silent
<1>3. CASE LeaseCheck(t)
  <2>1. \A u \in Threads \ {t} : weHoldLease'[u] = weHoldLease[u]
    BY <1>3 DEF LeaseCheck, TypeOK
  <2> QED BY <1>2, <1>3, <2>1 DEF LeaseCheck, BatchPCs
<1>4. CASE DelayStep(t)
  BY <1>2, <1>4 DEF DelayStep, AtStep, BatchPCs
<1>5. CASE NoBufferStep(t)
  BY <1>1, <1>5 DEF NoBufferStep, AtStep, BatchPCs
<1>6. CASE CheckStep(t)
  <2>1. pc[t] = "step" /\ table' = Swept /\ Expired \in BOOLEAN
        /\ (~Expired => Swept = table)
    BY <1>6, SweptFacts DEF CheckStep, AtStep
  <2>2. Further /\ Moved(Expired) /\ weHoldLease' = weHoldLease
    BY <1>1, <1>2, <1>6, <2>1 DEF CheckStep, BatchPCs
  <2> QED BY <2>1, <2>2 DEF BatchPCs
<1>7. CASE BusLock(t)
  BY <1>2, <1>7 DEF BusLock, BatchPCs
<1>8. CASE Transfer(t)
  BY <1>1, <1>2, <1>8 DEF Transfer, BatchPCs
<1>9. CASE StepsDone(t)
  BY <1>2, <1>9 DEF StepsDone, BatchPCs
<1>10. CASE Finish(t)
  <2>1. pc[t] = "finish" /\ Releases(t, call[t].dev) \in BOOLEAN
        /\ weHoldLease[t] \in BOOLEAN
    BY <1>10, ReleasedType DEF Finish, TypeOK
  <2>2. CASE ~weHoldLease[t] /\ Releases(t, call[t].dev)
    <3>1. Return(t, ret[t], TRUE) /\ table' = Released(t, call[t].dev)
      BY <1>10, <2>2 DEF Finish
    <3> QED BY <2>1, <2>2, <3>1, ReturnFrame DEF DropsClaim, BatchPCs
  <2>3. CASE ~(~weHoldLease[t] /\ Releases(t, call[t].dev))
    <3>1. Return(t, ret[t], FALSE) /\ table' = table
      BY <1>10, <2>3 DEF Finish
    <3> QED BY <2>1, <2>3, <3>1, ReturnFrame DEF Silent, BatchPCs
  <2> QED BY <2>2, <2>3
<1> QED BY <1>3, <1>4, <1>5, <1>6, <1>7, <1>8, <1>9, <1>10 DEF RunBatch

-----------------------------------------------------------------------------
(* What one step may do to the table *)

\* The claim of slot s is the one it was, with no more time left.
Kept(s) ==
  /\ table[s] # NoClaim /\ table'[s] # NoClaim
  /\ table'[s].address = table[s].address /\ table'[s].owner = table[s].owner
  /\ table'[s].isLease = table[s].isLease
  /\ table'[s].ticksLeft <= table[s].ticksLeft

LEMMA TableStep ==
  ASSUME TypeOK, NEW t \in Threads, ThreadStep(t)
  PROVE  \/ table' = table
         \/ table' = Swept
         \/ ReserveFree(t)
         \/ \E d \in Devices : DropsClaim(t, d)
<1>1. CASE Calls(t)
  BY <1>1, CallsFrame
<1>2. CASE Reserve(t)
  BY <1>2, ReserveFrame DEF ReserveBusy
<1>3. CASE Waiting(t)
  BY <1>3, WaitingFrame
<1>4. CASE RunBatch(t)
  <2>1. call[t].dev \in Devices
    BY <1>4, RunBatchFrame DEF TypeOK, BatchPCs
  <2> QED BY <1>4, <2>1, RunBatchFrame
<1> QED BY <1>1, <1>2, <1>3, <1>4 DEF ThreadStep

\* The slot a new claim goes into is free.
LEMMA FreeSlotFacts ==
  ASSUME TypeOK, NEW t \in Threads, ReserveFree(t)
  PROVE  LET f == First(FreeSlots(Swept))
         IN  /\ f \in Slots /\ Swept[f] = NoClaim
             /\ table' = [Swept EXCEPT ![f] = NewClaim(t)]
             /\ NewClaim(t) \in Claim
<1>1. FreeSlots(Swept) \in SUBSET Slots /\ FreeSlots(Swept) # {}
  BY DEF ReserveFree, FreeSlots
<1>2. First(FreeSlots(Swept)) \in FreeSlots(Swept)
  BY <1>1, FirstIsMember
<1> QED BY <1>2, NewClaimType DEF FreeSlots, ReserveFree

\* The claim release_device drops is one of its caller's.
LEMMA ReleasedFacts ==
  ASSUME TypeOK, NEW t \in Threads, NEW d \in Devices, Releases(t, d)
  PROVE  LET h == First(Holding(table, d))
         IN  /\ h \in Slots /\ table[h] # NoClaim
             /\ table[h].address = d /\ table[h].owner = t
             /\ Released(t, d) = [table EXCEPT ![h] = NoClaim]
<1>1. Holding(table, d) \in SUBSET Slots /\ Holding(table, d) # {}
  BY DEF Releases, HeldBy, Holding
<1>2. First(Holding(table, d)) \in Holding(table, d)
  BY <1>1, FirstIsMember
<1> QED BY <1>2 DEF Holding, Releases, HeldBy, Released

\* With one claim a device, find_locked finds the claim there is.
LEMMA OnlyClaimFound ==
  ASSUME TypeOK, OneClaimPerDevice, NEW d \in Devices, NEW s \in Holding(table, d)
  PROVE  First(Holding(table, d)) = s
<1>1. Holding(table, d) \in SUBSET Slots /\ Holding(table, d) # {}
  BY DEF Holding
<1>2. First(Holding(table, d)) \in Holding(table, d)
  BY <1>1, FirstIsMember
<1> QED BY <1>2 DEF OneClaimPerDevice, Holding

\* A claim found after a step is an old one, or the one just made.
LEMMA ClaimOrigin ==
  ASSUME TypeOK, [Next]_vars, NEW s \in Slots, table'[s] # NoClaim
  PROVE  \/ Kept(s)
         \/ \E t \in Threads : /\ ReserveFree(t) /\ s = First(FreeSlots(Swept))
                               /\ table'[s] = NewClaim(t)
<1>1. table[s] # NoClaim => table[s].ticksLeft \in Nat
  BY DEF TypeOK, Claim
<1>2. table' = table => Kept(s)
  BY <1>1 DEF Kept
<1>3. Swept[s] # NoClaim => Swept[s] = table[s]
  BY SweptFacts
<1>4. table'[s] = Swept[s] => Kept(s)
  BY <1>1, <1>3 DEF Kept
<1>5. ASSUME NEW t \in Threads, ReserveFree(t)
      PROVE  Kept(s) \/ (s = First(FreeSlots(Swept)) /\ table'[s] = NewClaim(t))
  BY <1>4, <1>5, FreeSlotFacts, SweptFacts
<1>6. ASSUME NEW t \in Threads, NEW d \in Devices, DropsClaim(t, d)
      PROVE  Kept(s)
  <2>1. table'[s] = table[s]
    BY <1>6, ReleasedFacts DEF DropsClaim, TypeOK
  <2> QED BY <1>1, <2>1 DEF Kept
<1>7. CASE Tick
  <2>1. table[s] # NoClaim
    BY <1>7 DEF Tick
  <2>2. table[s] \in Claim
    BY <2>1 DEF TypeOK
  <2>3. /\ table'[s] = [table[s] EXCEPT !.ticksLeft = table[s].ticksLeft - 1]
        \/ table'[s] = table[s]
    BY <1>7, <2>1 DEF Tick
  <2> QED BY <2>1, <2>2, <2>3 DEF Kept, Claim
<1>8. CASE \E t \in Threads : ThreadStep(t)
  BY <1>2, <1>4, <1>5, <1>6, <1>8, TableStep
<1> QED BY <1>2, <1>7, <1>8 DEF Next, ThreadStep, vars

LEMMA OneClaimStep ==
  ASSUME TypeOK, OneClaimPerDevice, [Next]_vars
  PROVE  OneClaimPerDevice'
<1>1. SUFFICES ASSUME NEW r \in Slots, NEW s \in Slots,
                      table'[r] # NoClaim, table'[s] # NoClaim,
                      table'[r].address = table'[s].address
               PROVE  r = s
  BY DEF OneClaimPerDevice
<1>2. CASE Kept(r) /\ Kept(s)
  BY <1>1, <1>2 DEF Kept, OneClaimPerDevice
<1>3. ASSUME NEW t \in Threads, ReserveFree(t),
             NEW x \in Slots, NEW y \in Slots, x = First(FreeSlots(Swept)), x # y,
             table'[y] # NoClaim
      PROVE  table'[y].address # table'[x].address
  <2>1. table'[y] = Swept[y] /\ table'[x] = NewClaim(t)
    BY <1>3, FreeSlotFacts, SweptFacts
  <2>2. y \notin Holding(Swept, call[t].dev)
    BY <1>3 DEF ReserveFree
  <2> QED BY <1>3, <2>1, <2>2 DEF Holding, NewClaim
<1> QED BY <1>1, <1>2, <1>3, ClaimOrigin

-----------------------------------------------------------------------------
(* The invariant is preserved *)

\* What one step does to the threads that own the claims.
LEMMA OwnerStep ==
  ASSUME TypeOK, [Next]_vars, NEW o \in Threads, pc[o] \in BatchPCs
  PROVE  \/ /\ pc'[o] = pc[o] /\ call'[o] = call[o] /\ weHoldLease'[o] = weHoldLease[o]
         \/ RunBatch(o)
<1>1. ASSUME NEW t \in Threads, t # o, OthersKept(t)
      PROVE  pc'[o] = pc[o] /\ call'[o] = call[o] /\ weHoldLease'[o] = weHoldLease[o]
  BY <1>1 DEF OthersKept, BatchPCs
<1>2. ASSUME NEW t \in Threads, ThreadStep(t)
      PROVE  OthersKept(t) /\ (t = o => RunBatch(o))
  BY <1>2, CallsFrame, ReserveFrame, WaitingFrame, RunBatchFrame DEF ThreadStep, BatchPCs
<1> QED BY <1>1, <1>2 DEF Next, ThreadStep, Tick, vars

\* The end of a batch that works under its own claim takes that claim away.
LEMMA FinishDrops ==
  ASSUME TypeOK, OneClaimPerDevice, NEW t \in Threads, RunBatch(t), pc'[t] = "idle",
         NEW s \in Holding(table, call[t].dev), table[s].owner = t, ~weHoldLease[t]
  PROVE  table'[s] = NoClaim
<1>1. call[t].dev \in Devices
  BY RunBatchFrame DEF TypeOK, BatchPCs
<1>2. First(Holding(table, call[t].dev)) = s
  BY <1>1, OnlyClaimFound
<1>3. Releases(t, call[t].dev)
  BY <1>2 DEF Releases, HeldBy
<1>4. DropsClaim(t, call[t].dev)
  BY <1>3, RunBatchFrame DEF BatchPCs
<1> QED BY <1>1, <1>2, <1>4, ReleasedFacts DEF DropsClaim, TypeOK

LEMMA BatchClaimStep ==
  ASSUME TypeOK, OneClaimPerDevice, BatchClaimReturned, WeHoldLeaseSound, [Next]_vars
  PROVE  BatchClaimReturned'
<1>1. SUFFICES ASSUME NEW s \in Slots, table'[s] # NoClaim, ~table'[s].isLease
               PROVE  /\ pc'[table'[s].owner] \in BatchPCs
                      /\ call'[table'[s].owner].dev = table'[s].address
  BY DEF BatchClaimReturned
<1>2. CASE Kept(s)
  <2> DEFINE o == table[s].owner
  <2>1. o \in Threads
    BY <1>2 DEF Kept, TypeOK, Claim
  <2>2. /\ ~table[s].isLease /\ pc[o] \in BatchPCs /\ call[o].dev = table[s].address
        /\ table'[s].owner = o /\ table'[s].address = table[s].address
    BY <1>1, <1>2 DEF Kept, BatchClaimReturned
  <2>3. s \in Holding(table, call[o].dev)
    BY <1>2, <2>2 DEF Kept, Holding
  <2> HIDE DEF o
  <2>4. CASE pc'[o] = pc[o] /\ call'[o] = call[o]
    BY <2>2, <2>4
  <2>5. CASE RunBatch(o) /\ pc'[o] = "idle"
    <3>1. pc[o] # "held"
      BY <2>1, <2>5, RunBatchFrame DEF DropsClaim, BatchPCs
    <3>2. ~weHoldLease[o]
      BY <2>1, <2>2, <2>3, <3>1 DEF WeHoldLeaseSound, o
    <3> QED BY <1>1, <2>1, <2>3, <2>5, <3>2, FinishDrops DEF o
  <2>6. CASE RunBatch(o) /\ pc'[o] # "idle"
    BY <2>1, <2>2, <2>6, RunBatchFrame DEF DropsClaim
  <2> QED BY <2>1, <2>2, <2>4, <2>5, <2>6, OwnerStep
<1>3. ASSUME NEW t \in Threads, ReserveFree(t), table'[s] = NewClaim(t)
      PROVE  /\ pc'[table'[s].owner] \in BatchPCs
             /\ call'[table'[s].owner].dev = table'[s].address
  <2>1. /\ ~call[t].isLease
        /\ table'[s].owner = t /\ table'[s].address = call[t].dev
    BY <1>1, <1>3 DEF NewClaim
  <2>2. pc'[t] = "held" /\ call' = call
    BY <1>3, <2>1 DEF ReserveFree, Reserved, Goto, MovePc
  <2> QED BY <2>1, <2>2 DEF BatchPCs
<1> QED BY <1>1, <1>2, <1>3, ClaimOrigin

\* A thread running a batch makes no claim: ReserveFree is not its step.
LEMMA WeHoldLeaseStep ==
  ASSUME TypeOK, OneClaimPerDevice, BatchClaimReturned, WeHoldLeaseSound, [Next]_vars
  PROVE  WeHoldLeaseSound'
<1>1. SUFFICES ASSUME NEW o \in Threads, pc'[o] \in BatchPCs \ {"held"},
                      NEW s \in Slots, table'[s] # NoClaim,
                      table'[s].address = call'[o].dev, table'[s].owner = o
               PROVE  table'[s].isLease = weHoldLease'[o]
  BY DEF WeHoldLeaseSound, Holding
<1>2. pc[o] \in BatchPCs
  <2>1. ASSUME NEW t \in Threads, ThreadStep(t), t = o, pc[o] \notin BatchPCs
        PROVE  FALSE
    BY <1>1, <2>1, CallsFrame, ReserveFrame, WaitingFrame, RunBatchFrame
       DEF ThreadStep, BatchPCs, DropsClaim
  <2>2. ASSUME NEW t \in Threads, ThreadStep(t), t # o
        PROVE  OthersKept(t)
    BY <2>2, CallsFrame, ReserveFrame, WaitingFrame, RunBatchFrame DEF ThreadStep
  <2>3. CASE pc'[o] = pc[o]
    BY <1>1, <2>3
  <2> QED BY <1>1, <2>1, <2>2, <2>3 DEF Next, ThreadStep, Tick, vars, OthersKept, BatchPCs
<1>3. Kept(s)
  <2>1. ASSUME NEW t \in Threads, ReserveFree(t), table'[s] = NewClaim(t)
        PROVE  FALSE
    BY <1>1, <1>2, <2>1 DEF NewClaim, ReserveFree, BatchPCs
  <2> QED BY <1>1, <2>1, ClaimOrigin
<1>4. CASE pc'[o] = pc[o] /\ call'[o] = call[o] /\ weHoldLease'[o] = weHoldLease[o]
  BY <1>1, <1>3, <1>4 DEF Kept, WeHoldLeaseSound, Holding
<1>5. CASE RunBatch(o)
  <2>1. /\ call'[o].dev = call[o].dev
        /\ LeaseCheck(o) \/ (pc[o] # "held" /\ weHoldLease' = weHoldLease)
    BY <1>1, <1>5, RunBatchFrame DEF DropsClaim, BatchPCs
  <2>2. s \in Holding(table, call[o].dev) /\ call[o].dev \in Devices
    BY <1>1, <1>2, <1>3, <2>1 DEF Kept, Holding, TypeOK, BatchPCs
  <2>3. CASE LeaseCheck(o)
    <3>1. First(Holding(table, call[o].dev)) = s
      BY <2>2, OnlyClaimFound
    <3>2. weHoldLease'[o] = (Holding(table, call[o].dev) # {} /\ table[s].isLease)
      BY <2>3, <3>1 DEF LeaseCheck, TypeOK
    <3>3. table[s].isLease \in BOOLEAN
      BY <1>3 DEF Kept, TypeOK, Claim
    <3> QED BY <1>3, <2>2, <3>2, <3>3 DEF Kept
  <2>4. CASE pc[o] # "held" /\ weHoldLease' = weHoldLease
    BY <1>1, <1>2, <1>3, <2>2, <2>4 DEF Kept, WeHoldLeaseSound
  <2> QED BY <2>1, <2>3, <2>4
<1> QED BY <1>2, <1>4, <1>5, OwnerStep


\* A step that takes a claim away wakes everybody; any other leaves the claims
\* where they are.
LEMMA ThreadStepWakes ==
  ASSUME TypeOK, NEW t \in Threads, ThreadStep(t)
  PROVE  \/ WakesAll(t)
         \/ Silent(t) /\ \A s \in Slots : table[s] # NoClaim => table'[s] = table[s]
<1>1. ASSUME NEW d \in Devices, DropsClaim(t, d) PROVE WakesAll(t)
  BY <1>1 DEF DropsClaim, WakesAll
<1>2. CASE Calls(t)
  BY <1>1, <1>2, CallsFrame DEF Silent
<1>3. CASE Reserve(t)
  <2>1. Expired \in BOOLEAN /\ (~Expired => Swept = table)
    BY SweptFacts
  <2>2. CASE ~Expired
    <3>1. \A s \in Slots : Swept[s] # NoClaim => table'[s] = Swept[s]
      BY <1>3, ReserveFrame, FreeSlotFacts, SweptFacts DEF ReserveBusy
    <3> QED BY <1>3, <2>1, <2>2, <3>1, ReserveFrame
  <2> QED BY <1>3, <2>1, <2>2, ReserveFrame
<1>4. CASE Waiting(t)
  BY <1>4, WaitingFrame
<1>5. CASE RunBatch(t)
  <2>1. call[t].dev \in Devices
    BY <1>5, RunBatchFrame DEF TypeOK, BatchPCs
  <2> QED BY <1>1, <1>5, <2>1, RunBatchFrame
<1> QED BY <1>2, <1>3, <1>4, <1>5 DEF ThreadStep

LEMMA SleeperStep ==
  ASSUME TypeOK, SleeperHasHolder, [Next]_vars
  PROVE  SleeperHasHolder'
<1>1. SUFFICES ASSUME NEW u \in Threads,
                      pc'[u] = "asleep" \/ (pc'[u] = "toWait" /\ u \in fresh')
               PROVE  \E s \in Slots : /\ table'[s] # NoClaim
                                       /\ table'[s].address = call'[u].dev
                                       /\ table'[s].owner # u
  BY DEF SleeperHasHolder, Holding
<1>2. ASSUME pc'[u] = pc[u] \/ (pc'[u] = "asleep" /\ pc[u] = "toWait" /\ u \in fresh),
             call'[u] = call[u], u \in fresh' => u \in fresh,
             \A s \in Slots : table[s] # NoClaim
                => /\ table'[s] # NoClaim
                   /\ table'[s].address = table[s].address
                   /\ table'[s].owner = table[s].owner
      PROVE  \E s \in Slots : /\ table'[s] # NoClaim
                              /\ table'[s].address = call'[u].dev
                              /\ table'[s].owner # u
  BY <1>1, <1>2 DEF SleeperHasHolder, Holding
<1>3. CASE Tick \/ UNCHANGED vars
  <2>1. \A s \in Slots : table[s] # NoClaim => table[s] \in Claim
    BY DEF TypeOK
  <2>2. \A s \in Slots : table[s] # NoClaim
          => /\ table'[s] # NoClaim
             /\ table'[s].address = table[s].address
             /\ table'[s].owner = table[s].owner
    <3>1. ASSUME NEW s \in Slots, table[s] # NoClaim, table[s].ticksLeft > 0
          PROVE  [table[s] EXCEPT !.ticksLeft = @ - 1] \in Claim
      BY <2>1, <3>1 DEF Claim
    <3> QED BY <1>3, <2>1, <3>1, NoClaimAssumption DEF Tick, vars, Claim
  <2> QED BY <1>2, <1>3, <2>2 DEF Tick, vars
<1>4. ASSUME NEW t \in Threads, ThreadStep(t), t # u
      PROVE  \E s \in Slots : /\ table'[s] # NoClaim
                              /\ table'[s].address = call'[u].dev
                              /\ table'[s].owner # u
  <2>1. call'[u] = call[u]
    BY <1>4, CallsFrame, ReserveFrame, WaitingFrame, RunBatchFrame
       DEF ThreadStep, OthersKept
  <2>2. ~WakesAll(t)
    BY <1>1, <1>4 DEF WakesAll
  <2>3. Silent(t) /\ \A s \in Slots : table[s] # NoClaim => table'[s] = table[s]
    BY <1>4, <2>2, ThreadStepWakes
  <2> QED BY <1>2, <1>4, <2>1, <2>3 DEF Silent
<1>5. ASSUME ThreadStep(u)
      PROVE  \E s \in Slots : /\ table'[s] # NoClaim
                              /\ table'[s].address = call'[u].dev
                              /\ table'[s].owner # u
  <2>1. CASE Waiting(u)
    <3>1. pc'[u] = "asleep" /\ pc[u] = "toWait" /\ u \in fresh /\ call' = call
          /\ table' = table
      BY <1>1, <2>1, WaitingFrame
    <3> QED BY <1>2, <3>1
  <2>2. CASE ReserveBusy(u)
    <3> DEFINE H == Holding(Swept, call[u].dev)
    <3>1. H \in SUBSET Slots /\ H # {} /\ table' = Swept /\ call' = call
          /\ Swept[First(H)].owner # u
      BY <2>2 DEF ReserveBusy, HeldBy, Holding
    <3>2. First(H) \in H
      BY <3>1, FirstIsMember
    <3> QED BY <3>1, <3>2 DEF Holding
  <2> QED BY <1>1, <1>5, <2>1, <2>2, CallsFrame, ReserveFrame, RunBatchFrame
          DEF ThreadStep, DropsClaim, BatchPCs, ReserveFree
<1> QED BY <1>3, <1>4, <1>5 DEF Next, ThreadStep


\* What a call asks for is fixed when it starts, within its capability.
LEMMA CallStep ==
  ASSUME TypeOK, NEW t \in Threads, ThreadStep(t), pc'[t] # "idle"
  PROVE  \/ /\ pc[t] # "idle"
            /\ call'[t].dev = call[t].dev /\ call'[t].holdMs = call[t].holdMs
            /\ call'[t].isLease = call[t].isLease
         \/ \E d \in Devices :
              /\ call'[t].dev = d
              /\ \/ ~call'[t].isLease /\ call'[t].holdMs = Cap[d].maxBatchMs
                 \/ /\ call'[t].isLease
                    /\ Cap[d].maxLeaseMs # 0 => call'[t].holdMs <= Cap[d].maxLeaseMs
<1>1. ASSUME NEW d, NEW b, NEW limited, Transact(t, d, b, limited)
      PROVE  /\ call'[t].dev = d
             /\ ~call'[t].isLease /\ call'[t].holdMs = Cap[d].maxBatchMs
  <2>1. CASE Reject(t, BatchRefusal(d, b))
    BY <2>1, ReturnFrame DEF Reject
  <2>2. CASE StartReserve(t, [dev |-> d, steps |-> b, holdMs |-> Cap[d].maxBatchMs,
                              isLease |-> FALSE, limited |-> limited])
    BY <2>2 DEF StartReserve, TypeOK
  <2> QED BY <1>1, <2>1, <2>2 DEF Transact
<1>2. ASSUME NEW d, NEW b, Wrapper(t, d, b)
      PROVE  /\ call'[t].dev = d
             /\ ~call'[t].isLease /\ call'[t].holdMs = Cap[d].maxBatchMs
  BY <1>1, <1>2, ReturnFrame DEF Wrapper, Reject
<1>3. ASSUME NEW d \in Devices, NEW ms \in LeaseMs, NEW limited,
             LeaseAcquire(t, d, ms, limited)
      PROVE  /\ call'[t].dev = d
             /\ call'[t].isLease
             /\ Cap[d].maxLeaseMs # 0 => call'[t].holdMs <= Cap[d].maxLeaseMs
  <2>1. ms \in Nat
    BY DriverAssumption
  <2>2. CASE Reject(t, LeaseRefusal(d, ms))
    BY <2>2, ReturnFrame DEF Reject
  <2>3. CASE StartReserve(t, [dev |-> d, steps |-> <<>>, holdMs |-> LeaseHold(d, ms),
                              isLease |-> TRUE, limited |-> limited])
    BY <2>1, <2>3, LeaseHoldBound DEF StartReserve, TypeOK
  <2> QED BY <1>3, <2>2, <2>3 DEF LeaseAcquire
<1>4. ASSUME NEW d, LeaseRelease(t, d)
      PROVE  FALSE
  <2>1. Releases(t, d) \in BOOLEAN
    BY DEF Releases, HeldBy
  <2> QED BY <1>4, <2>1, ReturnFrame DEF LeaseRelease
<1>5. CASE Calls(t)
  BY <1>1, <1>2, <1>3, <1>4, <1>5 DEF Calls, I2cWrite, I2cRead, I2cWriteRead
<1>6. CASE Reserve(t) \/ Waiting(t)
  BY <1>6 DEF Reserve, ReserveFree, ReserveFull, ReserveOwn, ReserveBusy, Reserved,
              Return, Goto, MovePc, Waiting, FutexWait, FutexTimeout
<1>7. CASE RunBatch(t)
  <2>1. /\ pc[t] # "idle"
        /\ \/ call' = call
           \/ call' = [call EXCEPT ![t].steps = <<>>]
           \/ call' = [call EXCEPT ![t].steps = Tail(@)]
    BY <1>7 DEF RunBatch, LeaseCheck, DelayStep, NoBufferStep, CheckStep, BusLock,
                Transfer, StepsDone, Finish, Return, Goto, MovePc, Break, AtStep
  <2> QED BY <2>1 DEF TypeOK, Call
<1> QED BY <1>5, <1>6, <1>7 DEF ThreadStep

LEMMA CallWithinCeilingStep ==
  ASSUME TypeOK, CallWithinCeiling, [Next]_vars
  PROVE  CallWithinCeiling'
<1>1. SUFFICES ASSUME NEW u \in Threads, pc'[u] # "idle"
               PROVE  LET cap == Cap[call'[u].dev]
                      IN  /\ ~call'[u].isLease => call'[u].holdMs = cap.maxBatchMs
                          /\ call'[u].isLease /\ cap.maxLeaseMs # 0
                               => call'[u].holdMs <= cap.maxLeaseMs
  BY DEF CallWithinCeiling
<1>2. CASE pc[u] # "idle" /\ call'[u] = call[u]
  BY <1>2 DEF CallWithinCeiling
<1>3. ASSUME NEW t \in Threads, ThreadStep(t), t # u
      PROVE  pc[u] # "idle" /\ call'[u] = call[u]
  BY <1>1, <1>3, CallsFrame, ReserveFrame, WaitingFrame, RunBatchFrame
     DEF ThreadStep, OthersKept
<1>4. CASE ThreadStep(u)
  BY <1>1, <1>4, CallStep DEF CallWithinCeiling
<1> QED BY <1>1, <1>2, <1>3, <1>4 DEF Next, ThreadStep, Tick, vars

LEMMA ClaimCeilingStep ==
  ASSUME TypeOK, CallWithinCeiling, ClaimWithinCeiling, [Next]_vars
  PROVE  ClaimWithinCeiling'
<1>1. SUFFICES ASSUME NEW s \in Slots, table'[s] # NoClaim
               PROVE  LET cap == Cap[table'[s].address]
                      IN  /\ ~table'[s].isLease
                               => table'[s].ticksLeft <= MsToTicks(cap.maxBatchMs)
                          /\ table'[s].isLease /\ cap.maxLeaseMs # 0
                               => table'[s].ticksLeft <= MsToTicks(cap.maxLeaseMs)
  BY DEF ClaimWithinCeiling
<1>2. CASE Kept(s)
  <2>1. table[s] \in Claim /\ table'[s] \in Claim
    BY <1>2, NextType DEF Kept, TypeOK
  <2>2. Cap[table[s].address] \in DeviceCap
    BY <2>1, DriverAssumption DEF Claim
  <2>3. /\ MsToTicks(Cap[table[s].address].maxBatchMs) \in Nat
        /\ MsToTicks(Cap[table[s].address].maxLeaseMs) \in Nat
    BY <2>2, TicksType DEF DeviceCap
  <2> QED BY <1>2, <2>1, <2>3 DEF Kept, ClaimWithinCeiling, Claim
<1>3. ASSUME NEW t \in Threads, ReserveFree(t), table'[s] = NewClaim(t)
      PROVE  LET cap == Cap[table'[s].address]
             IN  /\ ~table'[s].isLease
                      => table'[s].ticksLeft <= MsToTicks(cap.maxBatchMs)
                 /\ table'[s].isLease /\ cap.maxLeaseMs # 0
                      => table'[s].ticksLeft <= MsToTicks(cap.maxLeaseMs)
  <2>1. pc[t] # "idle" /\ call[t].dev \in Devices /\ call[t].holdMs \in Nat
    BY <1>3 DEF ReserveFree, TypeOK, Call
  <2>2. Cap[call[t].dev] \in DeviceCap
    BY <2>1, DriverAssumption
  <2>3. /\ table'[s].address = call[t].dev /\ table'[s].isLease = call[t].isLease
        /\ table'[s].ticksLeft = MsToTicks(call[t].holdMs)
    BY <1>3 DEF NewClaim
  <2>4. MsToTicks(call[t].holdMs) <= MsToTicks(call[t].holdMs)
    BY <2>1, TicksMonotone
  <2> QED BY <2>1, <2>2, <2>3, <2>4, TicksMonotone DEF CallWithinCeiling, DeviceCap
<1> QED BY <1>1, <1>2, <1>3, ClaimOrigin

-----------------------------------------------------------------------------
(* Theorems *)

LEMMA InitInv == Init => Inv
<1>1. SUFFICES ASSUME Init PROVE Inv
  OBVIOUS
<1>2. /\ \A s \in Slots : table[s] = NoClaim
      /\ \A t \in Threads : pc[t] = "idle"
  BY <1>1 DEF Init
<1> QED BY <1>1, <1>2, InitType
        DEF Inv, OneClaimPerDevice, BatchClaimReturned, WeHoldLeaseSound,
            SleeperHasHolder, CallWithinCeiling, ClaimWithinCeiling, BatchPCs

LEMMA NextInv == Inv /\ [Next]_vars => Inv'
BY NextType, OneClaimStep, BatchClaimStep, WeHoldLeaseStep, SleeperStep,
   CallWithinCeilingStep, ClaimCeilingStep DEF Inv

\* The inductive invariant, from which the theorems below follow.
THEOREM Invariance == Spec => []Inv
BY InitInv, NextInv, PTL DEF Spec

\* No two slots ever hold a claim on one device.
THEOREM OneClaim == Spec => []OneClaimPerDevice
<1>1. Inv => OneClaimPerDevice
  BY DEF Inv
<1> QED BY <1>1, Invariance, PTL

\* A batch never leaves its own reservation behind.
THEOREM BatchReturnsClaim == Spec => []BatchClaimReturned
<1>1. Inv => BatchClaimReturned
  BY DEF Inv
<1> QED BY <1>1, Invariance, PTL

\* No wake-up is lost: whoever sleeps on the futex word waits for a claim that
\* is still in the table.
THEOREM NoLostWakeUp == Spec => []SleeperHasHolder
<1>1. Inv => SleeperHasHolder
  BY DEF Inv
<1> QED BY <1>1, Invariance, PTL

\* No claim has more time left than its capability grants.
THEOREM CeilingKept == Spec => []ClaimWithinCeiling
<1>1. Inv => ClaimWithinCeiling
  BY DEF Inv
<1> QED BY <1>1, Invariance, PTL

\* The end of a claim that has time left is a step of its owner.
LEMMA NotStolenStep ==
  ASSUME Inv, [Next]_vars, NEW s \in Slots,
         table[s] # NoClaim, table[s].ticksLeft > 0, table'[s] = NoClaim
  PROVE  EndsByOwner(s)
<1> USE DEF Inv
<1>1. table[s] \in Claim
  BY DEF TypeOK
<1>2. Swept[s] = table[s]
  BY <1>1, SweptFacts DEF Claim
<1>3. ~Tick /\ ~UNCHANGED vars
  <2>1. Tick => table'[s] \in Claim
    BY <1>1, TickType DEF Tick, TypeOK, Claim
  <2> QED BY <2>1, NoClaimAssumption DEF vars
<1>4. PICK t \in Threads : ThreadStep(t)
  BY <1>3 DEF Next, ThreadStep
<1>5. ~ReserveFree(t)
  BY <1>2, FreeSlotFacts, SweptFacts
<1>6. PICK d \in Devices : DropsClaim(t, d)
  BY <1>2, <1>4, <1>5, TableStep
<1>7. table[s].owner = t /\ table[s].address = d
  BY <1>6, ReleasedFacts DEF DropsClaim, TypeOK
<1>8. OthersKept(t) /\ pc'[t] = "idle" /\ s \in Holding(table, d)
  BY <1>4, <1>6, <1>7, CallsFrame, ReserveFrame, WaitingFrame, RunBatchFrame
     DEF ThreadStep, DropsClaim, Holding
<1>9. pc[t] = IF table[s].isLease THEN "idle" ELSE "finish"
  <2>1. CASE pc[t] = "idle"
    BY <1>7, <2>1 DEF BatchClaimReturned, BatchPCs
  <2>2. CASE pc[t] = "finish" /\ d = call[t].dev /\ ~weHoldLease[t]
    BY <1>7, <1>8, <2>2 DEF WeHoldLeaseSound, BatchPCs
  <2> QED BY <1>6, <2>1, <2>2 DEF DropsClaim
<1> QED BY <1>7, <1>8, <1>9 DEF EndsByOwner, OthersKept

\* Nobody but its owner ends a claim before its deadline.
THEOREM NotStolen == Spec => ClaimNotStolen
<1>1. Inv /\ [Next]_vars
        => [\A s \in Slots :
              table[s] # NoClaim /\ table[s].ticksLeft > 0 /\ table'[s] = NoClaim
                => EndsByOwner(s)]_vars
  BY NotStolenStep
<1> QED BY <1>1, Invariance, PTL DEF Spec, ClaimNotStolen

LEMMA NotExtendedStep ==
  ASSUME Inv, [Next]_vars, NEW s \in Slots,
         table[s] # NoClaim, table[s].ticksLeft > 0, table'[s] # NoClaim
  PROVE  /\ table'[s].ticksLeft <= table[s].ticksLeft
         /\ table'[s] = [table[s] EXCEPT !.ticksLeft = table'[s].ticksLeft]
<1>1. table[s] \in Claim /\ table'[s] \in Claim
  BY NextType DEF Inv, TypeOK
<1>2. Swept[s] = table[s]
  BY <1>1, SweptFacts DEF Claim, Inv
<1>3. \A t \in Threads : ReserveFree(t) => s # First(FreeSlots(Swept))
  BY <1>2, FreeSlotFacts DEF Inv
<1>4. Kept(s)
  BY <1>3, ClaimOrigin DEF Inv
<1> QED BY <1>1, <1>4 DEF Kept, Claim

\* Nothing lengthens, re-owns or re-labels a claim that has time left.
THEOREM NotExtended == Spec => ClaimNeverExtended
<1>1. Inv /\ [Next]_vars
        => [\A s \in Slots :
              table[s] # NoClaim /\ table[s].ticksLeft > 0 /\ table'[s] # NoClaim
                => /\ table'[s].ticksLeft <= table[s].ticksLeft
                   /\ table'[s] = [table[s] EXCEPT !.ticksLeft = table'[s].ticksLeft]]_vars
  BY NotExtendedStep
<1> QED BY <1>1, Invariance, PTL DEF Spec, ClaimNeverExtended

-----------------------------------------------------------------------------
(* The table is large enough *)

\* -EBUSY is what a pass over a full table without the device returns, only.
LEMMA BusyOrigin ==
  ASSUME TypeOK, NEW t \in Threads, ThreadStep(t), NEW u \in Threads,
         ret[u] # "EBUSY", ret'[u] = "EBUSY"
  PROVE  ReserveFull(t)
<1>1. ASSUME NEW code, NEW bumped, Return(t, code, bumped), code # "EBUSY"
      PROVE  FALSE
  BY <1>1 DEF Return, TypeOK
<1>2. ASSUME NEW c, StartReserve(t, c) PROVE FALSE
  BY <1>2 DEF StartReserve, TypeOK
<1>3. ASSUME NEW code, NEW bumped, Break(t, code, bumped), code # "EBUSY" PROVE FALSE
  BY <1>3 DEF Break, TypeOK
<1>4. ASSUME NEW d, NEW b, NEW limited, Transact(t, d, b, limited) PROVE FALSE
  BY <1>1, <1>2, <1>4 DEF Transact, Reject, BatchRefusal
<1>5. ASSUME NEW d, NEW b, Wrapper(t, d, b) PROVE FALSE
  BY <1>1, <1>4, <1>5 DEF Wrapper, Reject
<1>6. ASSUME NEW d, NEW ms, NEW limited, LeaseAcquire(t, d, ms, limited) PROVE FALSE
  BY <1>1, <1>2, <1>6 DEF LeaseAcquire, Reject, LeaseRefusal
<1>7. ASSUME NEW d, LeaseRelease(t, d) PROVE FALSE
  BY <1>1, <1>7 DEF LeaseRelease
<1>8. CASE Calls(t)
  BY <1>4, <1>5, <1>6, <1>7, <1>8 DEF Calls, I2cWrite, I2cRead, I2cWriteRead
<1>9. CASE Reserve(t) \/ Waiting(t)
  BY <1>1, <1>9 DEF Reserve, ReserveFree, ReserveOwn, ReserveBusy, Reserved, Waiting,
                    FutexWait, FutexTimeout
<1>10. CASE RunBatch(t)
  <2>1. ~Finish(t)
    <3>1. CASE u = t
      BY <1>1, <3>1 DEF Finish
    <3>2. CASE u # t
      BY <3>2 DEF Finish, Return, TypeOK
    <3> QED BY <3>1, <3>2
  <2> QED BY <1>3, <1>10, <2>1 DEF RunBatch, LeaseCheck, DelayStep, NoBufferStep, CheckStep,
                                 BusLock, Transfer, StepsDone
<1> QED BY <1>8, <1>9, <1>10 DEF ThreadStep

\* A table with a slot for every device is never full of other devices' claims.
LEMMA SlotForEveryDevice ==
  ASSUME TypeOK, OneClaimPerDevice, Cardinality(Devices) <= MaxReservations,
         NEW d \in Devices, Holding(Swept, d) = {}
  PROVE  FreeSlots(Swept) # {}
<1>1. SUFFICES ASSUME FreeSlots(Swept) = {} PROVE FALSE
  OBVIOUS
<1> DEFINE f == [s \in Slots |-> Swept[s].address]
           Others == Devices \ {d}
<1>2. \A s \in Slots : Swept[s] = table[s] /\ table[s] # NoClaim /\ table[s] \in Claim
  BY <1>1, SweptFacts DEF FreeSlots, TypeOK
<1>3. f \in [Slots -> Others]
  <2>1. ASSUME NEW s \in Slots PROVE Swept[s].address \in Others
    BY <1>2 DEF Holding, Claim
  <2> QED BY <2>1
<1>4. \A r, s \in Slots : f[r] = f[s] => r = s
  BY <1>2 DEF OneClaimPerDevice
<1>5. /\ IsFiniteSet(Slots) /\ Cardinality(Slots) = MaxReservations
  BY DriverAssumption, FS_Interval DEF Slots
<1>6. /\ IsFiniteSet(Others) /\ Cardinality(Others) = Cardinality(Devices) - 1
      /\ Cardinality(Devices) \in Nat
  BY DriverAssumption, FS_RemoveElement, FS_CardinalityType
<1>7. Cardinality(Others) < Cardinality(Slots)
  BY <1>5, <1>6, DriverAssumption
<1> HIDE DEF f, Others
<1>8. \E r, s \in Slots : r # s /\ f[r] = f[s]
  BY <1>3, <1>5, <1>6, <1>7, FS_PigeonHole
<1> QED BY <1>4, <1>8

\* "Should not happen" does not happen: no caller gets -EBUSY.
THEOREM NeverFull == Spec => []TableNeverFull
<1>1. Init => TableNeverFull
  BY DEF Init, TableNeverFull
<1>2. Inv /\ TableNeverFull /\ [Next]_vars => TableNeverFull'
  <2>1. SUFFICES ASSUME Inv, TableNeverFull, [Next]_vars,
                        Cardinality(Devices) <= MaxReservations,
                        NEW u \in Threads, ret'[u] = "EBUSY"
                 PROVE  FALSE
    BY DEF TableNeverFull
  <2>2. ret[u] # "EBUSY"
    BY <2>1 DEF TableNeverFull
  <2>3. PICK t \in Threads : ThreadStep(t)
    BY <2>1, <2>2 DEF Next, ThreadStep, Tick, vars
  <2>4. ReserveFull(t)
    BY <2>1, <2>2, <2>3, BusyOrigin DEF Inv
  <2>5. call[t].dev \in Devices
    BY <2>1, <2>4 DEF ReserveFull, Inv, TypeOK
  <2> QED BY <2>1, <2>4, <2>5, SlotForEveryDevice DEF Inv, ReserveFull
<1> QED BY <1>1, <1>2, Invariance, PTL DEF Spec

-----------------------------------------------------------------------------
(* The driver implements one expiring claim a device *)

\* The claim the others may rely on is the one in the table.
LEMMA ClaimOfFacts ==
  ASSUME TypeOK, OneClaimPerDevice, NEW d \in Devices
  PROVE  /\ \A s \in Holding(table, d) : ClaimOf(d) = table[s]
         /\ Holding(table, d) = {} => ClaimOf(d) = NoClaim
BY OnlyClaimFound DEF ClaimOf

LEMMA ClaimOfFactsNext ==
  ASSUME TypeOK', OneClaimPerDevice', NEW d \in Devices
  PROVE  /\ \A s \in Slots : table'[s] # NoClaim /\ table'[s].address = d
                               => ClaimOf(d)' = table'[s]
         /\ (\A s \in Slots : table'[s] = NoClaim \/ table'[s].address # d)
              => ClaimOf(d)' = NoClaim
<1>1. /\ Holding(table', d) \in SUBSET Slots
      /\ Holding(table', d) # {} => First(Holding(table', d)) \in Holding(table', d)
  BY FirstIsMember DEF Holding
<1>2. ClaimOf(d)' = IF Holding(table', d) = {} THEN NoClaim
                    ELSE table'[First(Holding(table', d))]
  BY DEF ClaimOf
<1> QED BY <1>1, <1>2 DEF OneClaimPerDevice, Holding

\* The abstract view of a sweep: the claims that ran out are gone.
LEMMA LastingFacts ==
  ASSUME TypeOK, OneClaimPerDevice, NEW d \in Devices
  PROVE  /\ \A s \in Slots : Swept[s] # NoClaim /\ Swept[s].address = d
                               => Claims!Lasting[d] = Swept[s]
         /\ (\A s \in Slots : Swept[s] = NoClaim \/ Swept[s].address # d)
              => Claims!Lasting[d] = NoClaim
<1>1. Claims!Lasting[d] = IF ClaimOf(d) # NoClaim /\ ClaimOf(d).ticksLeft = 0
                          THEN NoClaim ELSE ClaimOf(d)
  BY DEF Claims!Lasting, Claims!LapsedDevices
<1>2. \A s \in Slots : Swept[s] = IF table[s] # NoClaim /\ table[s].ticksLeft = 0
                                  THEN NoClaim ELSE table[s]
  BY DEF Swept, Live, Lapsed
<1>3. CASE Holding(table, d) = {}
  BY <1>1, <1>2, <1>3, ClaimOfFacts DEF Holding
<1>4. ASSUME NEW r \in Holding(table, d)
      PROVE  /\ ClaimOf(d) = table[r] /\ table[r].address = d /\ table[r] # NoClaim
             /\ \A s \in Slots : table[s] # NoClaim /\ table[s].address = d => s = r
  BY <1>4, ClaimOfFacts DEF Holding, OneClaimPerDevice
<1>5. CASE Holding(table, d) # {}
  <2>1. PICK r \in Holding(table, d) : TRUE
    BY <1>5
  <2>2. r \in Slots
    BY <2>1 DEF Holding
  <2> QED BY <1>1, <1>2, <1>4, <2>1, <2>2
<1> QED BY <1>3, <1>5

LEMMA RefinedInit == Init => Claims!Init
<1>1. SUFFICES ASSUME Init PROVE Claims!Init
  OBVIOUS
<1>2. \A d \in Devices : Holding(table, d) = {}
  BY <1>1 DEF Init, Holding
<1> QED BY <1>2 DEF Claims!Init, ClaimOf

\* A sweep, with or without a claim lost, is an abstract sweep.
LEMMA RefinedSweep ==
  ASSUME Inv, Inv', table' = Swept
  PROVE  Claims!Sweep
<1>1. ASSUME NEW d \in Devices PROVE ClaimOf(d)' = Claims!Lasting[d]
  <2>1. CASE \E s \in Slots : Swept[s] # NoClaim /\ Swept[s].address = d
    BY <2>1, ClaimOfFactsNext, LastingFacts DEF Inv
  <2>2. CASE \A s \in Slots : Swept[s] = NoClaim \/ Swept[s].address # d
    BY <2>2, ClaimOfFactsNext, LastingFacts DEF Inv
  <2> QED BY <2>1, <2>2
<1>2. Claims!Lasting = [d \in Devices |-> Claims!Lasting[d]]
  BY DEF Claims!Lasting
<1> QED BY <1>1, <1>2 DEF Claims!Sweep

LEMMA RefinedAcquire ==
  ASSUME Inv, Inv', NEW t \in Threads, ReserveFree(t),
         NEW d \in Devices, d = call[t].dev
  PROVE  Claims!Acquire(t, d)
<1> DEFINE f == First(FreeSlots(Swept))
<1>1. pc[t] # "idle" /\ Cap[d] \in DeviceCap /\ call[t].holdMs \in Nat
  BY DriverAssumption DEF ReserveFree, Inv, TypeOK, Call
<1>2. /\ f \in Slots /\ Swept[f] = NoClaim /\ NewClaim(t) \in Claim
      /\ table'[f] = NewClaim(t)
      /\ \A s \in Slots \ {f} : table'[s] = Swept[s]
  BY FreeSlotFacts, SweptFacts DEF Inv
<1>3. NewClaim(t).address = d /\ NewClaim(t).owner = t
  BY DEF NewClaim
<1>4. NewClaim(t) # NoClaim
  BY <1>2, NoClaimAssumption
<1>5. ClaimOf(d)' = NewClaim(t)
  BY <1>2, <1>3, <1>4, ClaimOfFactsNext DEF Inv
<1>6. Claims!Lasting[d] = NoClaim
  BY <1>1, LastingFacts DEF Inv, ReserveFree, Holding
<1>7. NewClaim(t) \in Grantable
  <2>1. /\ ~call[t].isLease => call[t].holdMs = Cap[d].maxBatchMs
        /\ call[t].isLease /\ Cap[d].maxLeaseMs # 0 => call[t].holdMs <= Cap[d].maxLeaseMs
    BY <1>1 DEF Inv, CallWithinCeiling
  <2>2. call[t].holdMs <= Cap[d].maxLeaseMs
          => MsToTicks(call[t].holdMs) <= MsToTicks(Cap[d].maxLeaseMs)
    BY <1>1, TicksMonotone DEF DeviceCap
  <2> QED BY <1>2, <2>1, <2>2 DEF Grantable, NewClaim
<1>8. ASSUME NEW e \in Devices \ {d} PROVE ClaimOf(e)' = Claims!Lasting[e]
  <2>1. CASE \E s \in Slots : Swept[s] # NoClaim /\ Swept[s].address = e
    BY <1>2, <2>1, ClaimOfFactsNext, LastingFacts DEF Inv
  <2>2. CASE \A s \in Slots : Swept[s] = NoClaim \/ Swept[s].address # e
    BY <1>2, <1>3, <2>2, ClaimOfFactsNext, LastingFacts DEF Inv
  <2> QED BY <2>1, <2>2
<1>9. Claims!Lasting = [e \in Devices |-> Claims!Lasting[e]]
  BY DEF Claims!Lasting
<1>10. [e \in Devices |-> ClaimOf(e)'] = [Claims!Lasting EXCEPT ![d] = NewClaim(t)]
  BY <1>5, <1>8, <1>9
<1> QED BY <1>3, <1>5, <1>6, <1>7, <1>10 DEF Claims!Acquire

LEMMA RefinedGiveBack ==
  ASSUME Inv, Inv', NEW t \in Threads, NEW d \in Devices, DropsClaim(t, d)
  PROVE  Claims!GiveBack(t, d)
<1> DEFINE h == First(Holding(table, d))
<1>1. /\ h \in Slots /\ table[h] # NoClaim /\ table[h].address = d /\ table[h].owner = t
      /\ table'[h] = NoClaim /\ \A s \in Slots \ {h} : table'[s] = table[s]
  BY ReleasedFacts DEF DropsClaim, Inv, TypeOK
<1>2. h \in Holding(table, d)
  BY <1>1 DEF Holding
<1> HIDE DEF h
<1>3. ClaimOf(d) = table[h]
  BY <1>2, ClaimOfFacts DEF Inv
<1>4. ClaimOf(d)' = NoClaim
  BY <1>1, ClaimOfFactsNext DEF Inv, OneClaimPerDevice
<1>5. ASSUME NEW e \in Devices \ {d} PROVE ClaimOf(e)' = ClaimOf(e)
  <2>1. CASE Holding(table, e) = {}
    BY <1>1, <2>1, ClaimOfFacts, ClaimOfFactsNext DEF Inv, Holding
  <2>2. CASE \E s \in Holding(table, e) : TRUE
    BY <1>1, <2>2, ClaimOfFacts, ClaimOfFactsNext DEF Inv, Holding
  <2> QED BY <2>1, <2>2
<1> QED BY <1>1, <1>3, <1>4, <1>5 DEF Claims!GiveBack

LEMMA RefinedTick ==
  ASSUME Inv, Inv', Tick
  PROVE  Claims!Tick
<1>1. ASSUME NEW s \in Slots
      PROVE  /\ table[s] = NoClaim => table'[s] = NoClaim
             /\ table[s] # NoClaim =>
                  /\ table'[s] # NoClaim /\ table'[s].address = table[s].address
                  /\ table'[s] = IF table[s].ticksLeft > 0
                                 THEN [table[s] EXCEPT !.ticksLeft = @ - 1] ELSE table[s]
  <2>1. CASE table[s] = NoClaim
    BY <2>1 DEF Tick
  <2>2. CASE table[s] # NoClaim
    <3>1. table[s] \in Claim
      BY <2>2 DEF Inv, TypeOK
    <3>2. table'[s] = IF table[s].ticksLeft > 0
                      THEN [table[s] EXCEPT !.ticksLeft = @ - 1] ELSE table[s]
      BY <2>2 DEF Tick
    <3>3. table'[s] \in Claim /\ table'[s].address = table[s].address
      BY <3>1, <3>2 DEF Claim
    <3> QED BY <2>2, <3>2, <3>3, NoClaimAssumption
  <2> QED BY <2>1, <2>2
<1>2. ASSUME NEW d \in Devices
      PROVE  ClaimOf(d)' = IF ClaimOf(d) # NoClaim /\ ClaimOf(d).ticksLeft > 0
                           THEN [ClaimOf(d) EXCEPT !.ticksLeft = @ - 1] ELSE ClaimOf(d)
  <2>1. CASE Holding(table, d) = {}
    BY <1>1, <2>1, ClaimOfFacts, ClaimOfFactsNext DEF Inv, Holding
  <2>2. ASSUME NEW s \in Holding(table, d)
        PROVE  /\ s \in Slots /\ table[s] # NoClaim
               /\ ClaimOf(d) = table[s] /\ ClaimOf(d)' = table'[s]
    BY <1>1, <2>2, ClaimOfFacts, ClaimOfFactsNext DEF Inv, Holding
  <2>3. CASE Holding(table, d) # {}
    BY <1>1, <2>2, <2>3
  <2> QED BY <2>1, <2>3
<1> QED BY <1>2 DEF Claims!Tick

LEMMA RefinedNext ==
  ASSUME Inv, Inv', [Next]_vars
  PROVE  Claims!Next \/ UNCHANGED [d \in Devices |-> ClaimOf(d)]
<1>1. CASE table' = table
  <2>1. \A d \in Devices : ClaimOf(d)' = ClaimOf(d)
    BY <1>1 DEF ClaimOf, Holding
  <2> QED BY <2>1
<1>2. CASE Tick
  BY <1>2, RefinedTick DEF Claims!Next
<1>3. ASSUME NEW t \in Threads, ThreadStep(t), table' # table
      PROVE  Claims!Next
  <2>1. CASE table' = Swept
    BY <2>1, RefinedSweep DEF Claims!Next
  <2>2. CASE ReserveFree(t)
    <3>1. call[t].dev \in Devices
      BY <2>2 DEF ReserveFree, Inv, TypeOK
    <3> QED BY <2>2, <3>1, RefinedAcquire DEF Claims!Next
  <2>3. CASE \E d \in Devices : DropsClaim(t, d)
    BY <2>3, RefinedGiveBack DEF Claims!Next
  <2> QED BY <1>3, <2>1, <2>2, <2>3, TableStep DEF Inv
<1> QED BY <1>1, <1>2, <1>3 DEF Next, ThreadStep, vars

\* Every behaviour of the driver, seen as the claims on its devices, is one the
\* abstract specification allows.
THEOREM Refinement == Spec => ImplementsClaims
<1>1. Init => Claims!Init
  BY RefinedInit
<1>2. Inv /\ Inv' /\ [Next]_vars
        => [Claims!Next]_([d \in Devices |-> ClaimOf(d)])
  BY RefinedNext
<1> QED BY <1>1, <1>2, Invariance, PTL DEF Spec, ImplementsClaims, Claims!Spec

=============================================================================

----------------------------- MODULE I2cDriver -----------------------------
(***************************************************************************)
(* The i2c_driver compartment: every thread reaches a device on I2C0       *)
(* through i2c_transact, the one- and two-step wrappers, or a lease.  A    *)
(* caller first reserves the device in a small table whose claims expire,  *)
(* waiting on a futex word while another thread has it, and then takes the *)
(* bus lock for one transfer at a time.                                    *)
(*                                                                         *)
(* Every section under sReservationLock is one action.  A deadline is kept *)
(* as the ticks left until it, so `now >= deadlineTick' reads ticksLeft=0. *)
(* An unused slot is NoClaim: the code never reads its stale fields.       *)
(***************************************************************************)
EXTENDS Integers, Sequences, FiniteSets

CONSTANTS
  Threads,          \* threads that call the driver
  Devices,          \* device addresses
  Cap,              \* Cap[d]: the sealed I2CDeviceCap a caller holds for d
  Batches,          \* step sequences callers give i2c_transact
  Lens,             \* lengths callers give the wrappers
  LeaseMs,          \* durations callers give i2c_lease_acquire
  MaxReservations,  \* slots of sReservations
  MsPerTick,        \* scheduler tick, in milliseconds
  U16Max,           \* UINT16_MAX
  NoThread, NoDevice, NoClaim

Slots == 1 .. MaxReservations

\* The enumerators of the interface.  A number that is none of them, which the driver
\* does not look for, is left out.
StepKinds == {"write", "read", "delay"}

Step      == [kind : StepKinds, len : 0 .. U16Max, buffer : BOOLEAN]
DeviceCap == [ops : SUBSET {"write", "read"}, mayLease : BOOLEAN,
              maxTransferLen : Nat, maxBatchMs : Nat, maxLeaseMs : Nat]

ASSUME DriverAssumption ==
  /\ IsFiniteSet(Threads) /\ IsFiniteSet(Devices)
  /\ NoThread \notin Threads /\ NoDevice \notin Devices
  /\ MaxReservations \in Nat \ {0}
  /\ MsPerTick \in Nat \ {0}
  /\ U16Max \in Nat
  /\ Lens \subseteq Nat /\ LeaseMs \subseteq Nat
  /\ Batches \subseteq Seq(Step)
  /\ Cap \in [Devices -> DeviceCap]

Claim == [address : Devices, owner : Threads, ticksLeft : Nat, isLease : BOOLEAN]

ASSUME NoClaimAssumption == NoClaim \notin Claim

VARIABLES
  table,        \* sReservations
  fresh,        \* threads whose snapshot still equals sReservationGen
  bus,          \* holder of sBusLock, or NoThread
  sInitialized, \* whether the controller has been set up
  pc,           \* where each thread is inside the driver
  call,         \* what each thread asked for
  weHoldLease,  \* i2c_transact's local of that name
  ret           \* `result' while a batch runs, then the value returned

vars == <<table, fresh, bus, sInitialized, pc, call, weHoldLease, ret>>

\* The pcs of a thread inside i2c_transact after reserve_device returned 0.
BatchPCs == {"held", "step", "bus", "xfer", "finish"}
PCs      == {"idle", "reserve", "toWait", "asleep"} \cup BatchPCs
Codes    == {"OK", "EINVAL", "EPERM", "EBUSY", "ETIMEDOUT", "EIO"}
Call     == [dev : Devices \cup {NoDevice}, steps : Seq(Step), holdMs : Nat,
             isLease : BOOLEAN, limited : BOOLEAN]
NoCall   == [dev |-> NoDevice, steps |-> <<>>, holdMs |-> 0,
             isLease |-> FALSE, limited |-> FALSE]

Init ==
  /\ table        = [s \in Slots |-> NoClaim]
  /\ fresh        = {}
  /\ bus          = NoThread
  /\ sInitialized = FALSE
  /\ pc           = [t \in Threads |-> "idle"]
  /\ call         = [t \in Threads |-> NoCall]
  /\ weHoldLease  = [t \in Threads |-> FALSE]
  /\ ret          = [t \in Threads |-> "OK"]

-----------------------------------------------------------------------------
(* The reservation table *)

\* Mutant: a claim is one tick short.
MsToTicks_Short(ms) == ms \div MsPerTick - 1

\* MS_TO_TICKS: whole ticks, rounded down.
MsToTicks(ms) == ms \div MsPerTick

\* Mutant: a claim lapses a tick early.
Lapsed_Early(tbl) == {s \in Slots : tbl[s] # NoClaim /\ tbl[s].ticksLeft <= 1}

Lapsed(tbl) == {s \in Slots : tbl[s] # NoClaim /\ tbl[s].ticksLeft = 0}

\* The table after expire_locked.
Live(tbl) == [s \in Slots |-> IF s \in Lapsed(tbl) THEN NoClaim ELSE tbl[s]]

\* Mutant: find_locked sees only leases.
Holding_LeasesOnly(tbl, d) ==
  {s \in Slots : tbl[s] # NoClaim /\ tbl[s].address = d /\ tbl[s].isLease}

Holding(tbl, d) == {s \in Slots : tbl[s] # NoClaim /\ tbl[s].address = d}

\* Mutant: the scan for a free slot starts at the second one.
FreeSlots_FromSecond(tbl) == {s \in Slots \ {1} : tbl[s] = NoClaim}

FreeSlots(tbl) == {s \in Slots : tbl[s] = NoClaim}

\* Both scans of the table, find_locked's and the claim's, stop at the first hit.
First(S) == CHOOSE s \in S : \A r \in S : s <= r

HeldBy(tbl, d, t) ==
  Holding(tbl, d) # {} /\ tbl[First(Holding(tbl, d))].owner = t

-----------------------------------------------------------------------------
(* Control *)

\* Thread t moves on.  A bump of sReservationGen wakes every sleeper.
MovePc(t, next, bumped) ==
  pc' = [u \in Threads |->
           IF u = t THEN next
           ELSE IF bumped /\ pc[u] = "asleep" THEN "reserve" ELSE pc[u]]

\* A bump also puts every snapshot of sReservationGen out of date.
StillFresh(bumped) == IF bumped THEN {} ELSE fresh

Goto(t, next, bumped) ==
  /\ MovePc(t, next, bumped)
  /\ fresh' = StillFresh(bumped) \ {t}

Return(t, code, bumped) ==
  /\ Goto(t, "idle", bumped)
  /\ ret' = [ret EXCEPT ![t] = code]
  /\ call' = [call EXCEPT ![t] = NoCall]
  /\ weHoldLease' = [weHoldLease EXCEPT ![t] = FALSE]

\* A batch leaves its loop with a code: only the release is left to do.
Break(t, code, bumped) ==
  /\ Goto(t, "finish", bumped)
  /\ ret' = [ret EXCEPT ![t] = code]
  /\ call' = [call EXCEPT ![t].steps = <<>>]
  /\ UNCHANGED weHoldLease

\* An argument check fails before any shared state is touched.
Reject(t, code) ==
  /\ Return(t, code, FALSE)
  /\ UNCHANGED <<table, bus, sInitialized>>

StartReserve(t, c) ==
  /\ Goto(t, "reserve", FALSE)
  /\ call' = [call EXCEPT ![t] = c]
  /\ ret' = [ret EXCEPT ![t] = "OK"]
  /\ UNCHANGED <<table, bus, sInitialized, weHoldLease>>

-----------------------------------------------------------------------------
(* Entry points *)

NeedOps(b) == {b[i].kind : i \in DOMAIN b} \ {"delay"}

TooLong(d, b) == \E i \in DOMAIN b : /\ b[i].kind # "delay"
                                     /\ b[i].len > Cap[d].maxTransferLen

\* What i2c_transact answers before it reserves anything.  That a capability does not
\* unseal is left out, here and in the leases: it is answered before anything is touched.
BatchRefusal(d, b) ==
  IF b = <<>> THEN "EINVAL"
  ELSE IF ~(NeedOps(b) \subseteq Cap[d].ops) THEN "EPERM"
  ELSE IF TooLong(d, b) \/ Cap[d].maxBatchMs = 0 THEN "EINVAL"
  ELSE "OK"

Transact(t, d, b, limited) ==
  /\ pc[t] = "idle"
  /\ \/ /\ BatchRefusal(d, b) # "OK"
        /\ Reject(t, BatchRefusal(d, b))
     \/ /\ BatchRefusal(d, b) = "OK"
        /\ StartReserve(t, [dev |-> d, steps |-> b, holdMs |-> Cap[d].maxBatchMs,
                            isLease |-> FALSE, limited |-> limited])

\* The wrappers check the length before it is narrowed to sixteen bits, and
\* wait for the device for ever.
Wrapper(t, d, b) ==
  LET overflows == \E i \in DOMAIN b : b[i].len > U16Max
  IN  \/ pc[t] = "idle" /\ overflows /\ Reject(t, "EINVAL")
      \/ ~overflows /\ Transact(t, d, b, FALSE)

Buffer(k, n) == [kind |-> k, len |-> n, buffer |-> TRUE]

I2cWrite(t, d, n)         == Wrapper(t, d, <<Buffer("write", n)>>)
I2cRead(t, d, n)          == Wrapper(t, d, <<Buffer("read", n)>>)
I2cWriteRead(t, d, wl, n) == Wrapper(t, d, <<Buffer("write", wl), Buffer("read", n)>>)

\* Mutant: the clamp is lost.
LeaseHold_Unclamped(d, ms) == IF ms = 0 THEN Cap[d].maxLeaseMs ELSE ms

\* The length of the lease granted: clamped, and 0 asks for the ceiling.
LeaseHold(d, ms) ==
  LET ceiling == Cap[d].maxLeaseMs
      clamped == IF ceiling # 0 /\ ms > ceiling THEN ceiling ELSE ms
  IN  IF clamped = 0 THEN ceiling ELSE clamped

LeaseRefusal(d, ms) ==
  IF ~Cap[d].mayLease THEN "EPERM"
  ELSE IF LeaseHold(d, ms) = 0 THEN "EINVAL"
  ELSE "OK"

LeaseAcquire(t, d, ms, limited) ==
  /\ pc[t] = "idle"
  /\ \/ /\ LeaseRefusal(d, ms) # "OK"
        /\ Reject(t, LeaseRefusal(d, ms))
     \/ /\ LeaseRefusal(d, ms) = "OK"
        /\ StartReserve(t, [dev |-> d, steps |-> <<>>, holdMs |-> LeaseHold(d, ms),
                            isLease |-> TRUE, limited |-> limited])

\* Mutant: release_device drops whatever claim it finds.
Releases_Anyone(t, d) == Holding(table, d) # {}

\* release_device: only the owner's claim is dropped.
Releases(t, d) == HeldBy(table, d, t)

Released(t, d) ==
  IF Releases(t, d) THEN [table EXCEPT ![First(Holding(table, d))] = NoClaim]
  ELSE table

LeaseRelease(t, d) ==
  /\ pc[t] = "idle"
  /\ table' = Released(t, d)
  /\ Return(t, "OK", Releases(t, d))
  /\ UNCHANGED <<bus, sInitialized>>

-----------------------------------------------------------------------------
(* reserve_device: one pass of its loop under the lock, then the wait *)

\* The table and the bump once expire_locked has run.
Swept == Live(table)
Expired == Lapsed(table) # {}

NewClaim(t) == [address |-> call[t].dev, owner |-> t,
                ticksLeft |-> MsToTicks(call[t].holdMs), isLease |-> call[t].isLease]

\* reserve_device returned 0: a lease is granted, a batch goes on.
Reserved(t) ==
  IF call[t].isLease THEN Return(t, "OK", Expired)
  ELSE Goto(t, "held", Expired) /\ UNCHANGED <<call, weHoldLease, ret>>

ReserveFree(t) ==
  /\ pc[t] = "reserve"
  /\ Holding(Swept, call[t].dev) = {} /\ FreeSlots(Swept) # {}
  /\ table' = [Swept EXCEPT ![First(FreeSlots(Swept))] = NewClaim(t)]
  /\ Reserved(t)
  /\ UNCHANGED <<bus, sInitialized>>

ReserveFull(t) ==
  /\ pc[t] = "reserve"
  /\ Holding(Swept, call[t].dev) = {} /\ FreeSlots(Swept) = {}
  /\ table' = Swept
  /\ Return(t, "EBUSY", Expired)
  /\ UNCHANGED <<bus, sInitialized>>

\* Mutant: a re-entrant reservation renews the claim.
ReserveOwn_Renews(t) ==
  /\ pc[t] = "reserve"
  /\ HeldBy(Swept, call[t].dev, t)
  /\ table' = [Swept EXCEPT ![First(Holding(Swept, call[t].dev))] = NewClaim(t)]
  /\ Reserved(t)
  /\ UNCHANGED <<bus, sInitialized>>

\* Already ours: success, and the existing deadline and isLease stay.
ReserveOwn(t) ==
  /\ pc[t] = "reserve"
  /\ HeldBy(Swept, call[t].dev, t)
  /\ table' = Swept
  /\ Reserved(t)
  /\ UNCHANGED <<bus, sInitialized>>

\* Another thread has it: snapshot the generation, drop the lock.
ReserveBusy(t) ==
  /\ pc[t] = "reserve"
  /\ Holding(Swept, call[t].dev) # {} /\ ~HeldBy(Swept, call[t].dev, t)
  /\ table' = Swept
  /\ MovePc(t, "toWait", Expired)
  /\ fresh' = StillFresh(Expired) \cup {t}
  /\ UNCHANGED <<bus, sInitialized, call, weHoldLease, ret>>

\* futex_timed_wait sleeps only while the word still has the snapshot's value.
FutexWait(t) ==
  /\ pc[t] = "toWait"
  /\ Goto(t, IF t \in fresh THEN "asleep" ELSE "reserve", FALSE)
  /\ UNCHANGED <<table, bus, sInitialized, call, weHoldLease, ret>>

FutexTimeout(t) ==
  /\ pc[t] = "asleep" /\ call[t].limited
  /\ Return(t, "ETIMEDOUT", FALSE)
  /\ UNCHANGED <<table, bus, sInitialized>>

-----------------------------------------------------------------------------
(* i2c_transact after the reservation *)

\* Mutant: any claim found is taken for a lease.
LeaseCheck_AnyClaim(t) ==
  /\ pc[t] = "held"
  /\ weHoldLease' = [weHoldLease EXCEPT ![t] = Holding(table, call[t].dev) # {}]
  /\ Goto(t, "step", FALSE)
  /\ UNCHANGED <<table, bus, sInitialized, call, ret>>

\* Whose claim it is is not looked at here.
LeaseCheck(t) ==
  LET held == Holding(table, call[t].dev)
  IN  /\ pc[t] = "held"
      /\ weHoldLease' = [weHoldLease EXCEPT ![t] = held # {} /\ table[First(held)].isLease]
      /\ Goto(t, "step", FALSE)
      /\ UNCHANGED <<table, bus, sInitialized, call, ret>>

AtStep(t) == pc[t] = "step" /\ call[t].steps # <<>>
This(t)   == Head(call[t].steps)

\* Any time may pass in the wait, and no lock is held.
DelayStep(t) ==
  /\ AtStep(t) /\ This(t).kind = "delay"
  /\ call' = [call EXCEPT ![t].steps = Tail(@)]
  /\ Goto(t, "step", FALSE)
  /\ UNCHANGED <<table, bus, sInitialized, weHoldLease, ret>>

NoBufferStep(t) ==
  /\ AtStep(t) /\ This(t).kind # "delay" /\ ~This(t).buffer
  /\ Break(t, "EINVAL", FALSE)
  /\ UNCHANGED <<table, bus, sInitialized>>

\* The ownership check, under the reservation lock only; do_transfer's length
\* check follows at once.
CheckStep(t) ==
  /\ AtStep(t) /\ This(t).kind # "delay" /\ This(t).buffer
  /\ table' = Swept
  /\ \/ /\ ~HeldBy(Swept, call[t].dev, t)
        /\ Break(t, "ETIMEDOUT", Expired)
     \/ /\ HeldBy(Swept, call[t].dev, t) /\ This(t).len = 0
        /\ Break(t, "EINVAL", Expired)
     \/ /\ HeldBy(Swept, call[t].dev, t) /\ This(t).len # 0
        /\ Goto(t, "bus", Expired)
        /\ UNCHANGED <<call, weHoldLease, ret>>
  /\ UNCHANGED <<bus, sInitialized>>

\* do_transfer takes the bus lock and sets the controller up on first use.
BusLock(t) ==
  /\ pc[t] = "bus" /\ bus = NoThread
  /\ bus' = t /\ sInitialized' = TRUE
  /\ Goto(t, "xfer", FALSE)
  /\ UNCHANGED <<table, call, weHoldLease, ret>>

\* Mutant: the error path leaves the bus lock taken.
Transfer_KeepsBus(t) ==
  /\ pc[t] = "xfer"
  /\ \/ /\ bus' = NoThread
        /\ call' = [call EXCEPT ![t].steps = Tail(@)]
        /\ Goto(t, "step", FALSE)
        /\ UNCHANGED <<weHoldLease, ret>>
     \/ Break(t, "EIO", FALSE) /\ UNCHANGED bus
  /\ UNCHANGED <<table, sInitialized>>

Transfer(t) ==
  /\ pc[t] = "xfer"
  /\ bus' = NoThread
  /\ \/ /\ call' = [call EXCEPT ![t].steps = Tail(@)]
        /\ Goto(t, "step", FALSE)
        /\ UNCHANGED <<weHoldLease, ret>>
     \/ Break(t, "EIO", FALSE)
  /\ UNCHANGED <<table, sInitialized>>

StepsDone(t) ==
  /\ pc[t] = "step" /\ call[t].steps = <<>>
  /\ Goto(t, "finish", FALSE)
  /\ UNCHANGED <<table, bus, sInitialized, call, weHoldLease, ret>>

\* Mutant: the release neither bumps the generation nor wakes anyone.
Finish_NoWake(t) ==
  LET drops == ~weHoldLease[t] /\ Releases(t, call[t].dev)
  IN  /\ pc[t] = "finish"
      /\ table' = IF drops THEN Released(t, call[t].dev) ELSE table
      /\ Return(t, ret[t], FALSE)
      /\ UNCHANGED <<bus, sInitialized>>

Finish(t) ==
  LET drops == ~weHoldLease[t] /\ Releases(t, call[t].dev)
  IN  /\ pc[t] = "finish"
      /\ table' = IF drops THEN Released(t, call[t].dev) ELSE table
      /\ Return(t, ret[t], drops)
      /\ UNCHANGED <<bus, sInitialized>>

\* One tick of thread_systemtick_get, for as long as a deadline is ahead.
Tick ==
  /\ \E s \in Slots : table[s] # NoClaim /\ table[s].ticksLeft > 0
  /\ table' = [s \in Slots |->
                 IF table[s] # NoClaim /\ table[s].ticksLeft > 0
                 THEN [table[s] EXCEPT !.ticksLeft = @ - 1] ELSE table[s]]
  /\ UNCHANGED <<fresh, bus, sInitialized, pc, call, weHoldLease, ret>>

-----------------------------------------------------------------------------
Calls(t) ==
  \E d \in Devices :
    \/ \E b \in Batches, limited \in BOOLEAN : Transact(t, d, b, limited)
    \/ \E n \in Lens : I2cWrite(t, d, n)
    \/ \E n \in Lens : I2cRead(t, d, n)
    \/ \E wl \in Lens, n \in Lens : I2cWriteRead(t, d, wl, n)
    \/ \E ms \in LeaseMs, limited \in BOOLEAN : LeaseAcquire(t, d, ms, limited)
    \/ LeaseRelease(t, d)

Reserve(t) == ReserveFree(t) \/ ReserveFull(t) \/ ReserveOwn(t) \/ ReserveBusy(t)

Waiting(t) == FutexWait(t) \/ FutexTimeout(t)

RunBatch(t) ==
  \/ LeaseCheck(t) \/ DelayStep(t) \/ NoBufferStep(t) \/ CheckStep(t)
  \/ BusLock(t) \/ Transfer(t) \/ StepsDone(t) \/ Finish(t)

Next == \/ \E t \in Threads : Calls(t) \/ Reserve(t) \/ Waiting(t) \/ RunBatch(t)
        \/ Tick

Spec == Init /\ [][Next]_vars

\* A thread inside the driver is scheduled; a bus lock that is free again and
\* again is got; time passes.  Nobody has to call anything.
Fairness ==
  /\ \A t \in Threads : /\ WF_vars(Reserve(t) \/ Waiting(t) \/ RunBatch(t))
                        /\ SF_vars(BusLock(t))
  /\ WF_vars(Tick)

FairSpec == Spec /\ Fairness

-----------------------------------------------------------------------------
(* Properties *)

\* Every variable holds what the code's type and the control allow.
TypeOK ==
  /\ table \in [Slots -> Claim \cup {NoClaim}]
  /\ fresh \subseteq Threads
  /\ bus \in Threads \cup {NoThread}
  /\ sInitialized \in BOOLEAN
  /\ pc \in [Threads -> PCs]
  /\ call \in [Threads -> Call]
  /\ weHoldLease \in [Threads -> BOOLEAN]
  /\ ret \in [Threads -> Codes]
  /\ \A t \in Threads : /\ pc[t] # "idle" => call[t].dev \in Devices
                        /\ pc[t] \in {"bus", "xfer"} => call[t].steps # <<>>

\* A device has at most one active reservation, whichever slots were free when
\* it was claimed: find_locked's first hit is the only one.
OneClaimPerDevice ==
  \A r, s \in Slots :
    table[r] # NoClaim /\ table[s] # NoClaim /\ table[r].address = table[s].address
      => r = s

\* A batch's implicit reservation never outlives its i2c_transact: weHoldLease,
\* computed without an owner check, never makes a batch keep its own claim.
BatchClaimReturned ==
  \A s \in Slots :
    table[s] # NoClaim /\ ~table[s].isLease
      => LET t == table[s].owner
         IN  pc[t] \in BatchPCs /\ call[t].dev = table[s].address

\* No lost wake-up: a thread asleep on sReservationGen, or about to sleep with a
\* snapshot that still matches, has another thread's claim to wait for.
SleeperHasHolder ==
  \A t \in Threads :
    pc[t] = "asleep" \/ (pc[t] = "toWait" /\ t \in fresh)
      => \E s \in Holding(table, call[t].dev) : table[s].owner # t

\* A claim never has more time left than its device's capability grants: a
\* batch maxBatchMs, a lease of a device that declares a ceiling maxLeaseMs.
ClaimWithinCeiling ==
  \A s \in Slots :
    table[s] # NoClaim =>
      LET cap == Cap[table[s].address]
      IN  /\ ~table[s].isLease => table[s].ticksLeft <= MsToTicks(cap.maxBatchMs)
          /\ table[s].isLease /\ cap.maxLeaseMs # 0
               => table[s].ticksLeft <= MsToTicks(cap.maxLeaseMs)

\* "table full (should not happen)" (i2c_driver.cc:143): with no more devices
\* than slots, no caller ever gets -EBUSY, lapsed claims included.
TableNeverFull ==
  Cardinality(Devices) <= MaxReservations => \A t \in Threads : ret[t] # "EBUSY"

\* A claim with time left ends by its owner's hand alone: a batch's at the end of
\* that batch, a lease's by i2c_lease_release, called while no batch is running.
EndsByOwner(s) ==
  LET t == table[s].owner
  IN  /\ \A u \in Threads \ {t} : pc'[u] = pc[u] \/ pc[u] = "asleep"
      /\ pc'[t] = "idle"
      /\ pc[t] = IF table[s].isLease THEN "idle" ELSE "finish"

ClaimNotStolen ==
  [][\A s \in Slots :
       table[s] # NoClaim /\ table[s].ticksLeft > 0 /\ table'[s] = NoClaim
         => EndsByOwner(s)]_vars

\* A slot in use is never rewritten: a re-entrant reserve_device leaves the
\* deadline, the owner and isLease of the claim as they are.
ClaimNeverExtended ==
  [][\A s \in Slots :
       table[s] # NoClaim /\ table[s].ticksLeft > 0 /\ table'[s] # NoClaim
         => /\ table'[s].ticksLeft <= table[s].ticksLeft
            /\ table'[s] = [table[s] EXCEPT !.ticksLeft = table'[s].ticksLeft]]_vars

\* A thread waiting for a device is woken again, when no thread takes a lease.
EventuallyWakes ==
  \A t \in Threads : pc[t] = "asleep" ~> pc[t] # "asleep"

\* A batch that got its device returns, whatever the bus does and whoever else
\* uses it.
BatchEnds ==
  \A t \in Threads : pc[t] = "held" ~> pc[t] = "idle"

\* Comment at i2c_driver.cc:283-286: the check before a transfer keeps a batch
\* from interleaving with a caller that claimed the device after an expiry.
NoForeignTransfer ==
  \A t \in Threads :
    pc[t] = "xfer" => \A s \in Holding(table, call[t].dev) : table[s].owner = t

\* Comments at i2c_driver.cc:53-57 and :374-375: every claim expires and waiters
\* wake on every expiry, so nobody is locked out for longer than the claim.
BoundedLockout ==
  \A t \in Threads : pc[t] = "asleep" ~> pc[t] # "asleep"

\* The claim of each device, as the other threads may rely on it.
ClaimOf(d) == IF Holding(table, d) = {} THEN NoClaim
              ELSE table[First(Holding(table, d))]

\* The claims a thread may be given: a batch's for maxBatchMs, a lease's for no
\* longer than the ceiling of a device that declares one.
Grantable ==
  {c \in Claim :
     LET cap == Cap[c.address]
     IN  /\ ~c.isLease => c.ticksLeft = MsToTicks(cap.maxBatchMs)
         /\ c.isLease /\ cap.maxLeaseMs # 0
              => c.ticksLeft <= MsToTicks(cap.maxLeaseMs)}

Claims == INSTANCE I2cClaims WITH claim <- [d \in Devices |-> ClaimOf(d)]

\* The table, its sweeps and its waiters implement one expiring claim a device.
ImplementsClaims == Claims!Spec

=============================================================================

---------------------------- MODULE MCI2cDriver ----------------------------
(***************************************************************************)
(* Small instances of I2cDriver.  The two devices stand for the shipped    *)
(* capabilities: the moisture sensor's short batch and the AHT20's longer  *)
(* one, in ticks of ten milliseconds and with lengths scaled down.         *)
(***************************************************************************)
EXTENDS I2cDriver, TLC

CONSTANTS t1, t2, dMoist, dTemp

MCThreads  == {t1, t2}
MCDevices  == {dMoist, dTemp}
OneDevice  == {dTemp}
MCU16Max   == 2

Plain(batchMs) == [ops |-> {"write", "read"}, mayLease |-> FALSE,
                   maxTransferLen |-> 2, maxBatchMs |-> batchMs, maxLeaseMs |-> 0]

\* As shipped: nobody may lease.
ShippedCap == [d \in MCDevices |-> IF d = dMoist THEN Plain(20) ELSE Plain(30)]

\* One device may be leased, for longer than a batch; the other is write-only.
LeaseCap == [ShippedCap EXCEPT
  ![dTemp]  = [@ EXCEPT !.mayLease = TRUE, !.maxBatchMs = 10, !.maxLeaseMs = 20],
  ![dMoist] = [@ EXCEPT !.ops = {"write"}, !.maxBatchMs = 10]]

\* The leasable device alone.
OneLeasable == [d \in {dTemp} |-> LeaseCap[d]]

St(k, n) == [kind |-> k, len |-> n, buffer |-> TRUE]

\* The moisture sensor's write, delay, read.
SensorBatch == <<St("write", 1), St("delay", 1), St("read", 1)>>

WriteBatch  == <<St("write", 1), St("delay", 0)>>
NoBuffer    == <<[kind |-> "write", len |-> 1, buffer |-> FALSE]>>

MCBatches   == {SensorBatch, WriteBatch, NoBuffer, <<>>}
LiveBatches == {SensorBatch}

\* An empty transfer, and one that is both over the limits and over UINT16_MAX.
MCLens    == {0, 3}
LiveLens  == {1}

\* The ceiling, less than a tick, and more than the ceiling.
MCLeaseMs == {0, 5, 30}
NoLeaseMs == {}

ThreadSymmetry == Permutations(Threads)

=============================================================================

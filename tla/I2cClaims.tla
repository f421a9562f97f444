----------------------------- MODULE I2cClaims -----------------------------
(***************************************************************************)
(* What the i2c_driver compartment promises about a device, with no table, *)
(* slots, waiters or bus: at any time one thread may have a claim on it,   *)
(* which is given back, or swept and taken over by another thread once its *)
(* time has run out, and which nothing extends.                            *)
(***************************************************************************)
EXTENDS Integers

CONSTANTS Threads, Devices, NoClaim,
          Grantable       \* the claims a thread may be given

VARIABLE claim            \* claim[d]: the claim on d, or NoClaim

Init == claim = [d \in Devices |-> NoClaim]

LapsedDevices == {d \in Devices : claim[d] # NoClaim /\ claim[d].ticksLeft = 0}

\* The claims left when every one that has run out is dropped.
Lasting == [d \in Devices |-> IF d \in LapsedDevices THEN NoClaim ELSE claim[d]]

Sweep == claim' = Lasting

Acquire(t, d) ==
  /\ Lasting[d] = NoClaim
  /\ claim'[d] \in Grantable
  /\ claim'[d].owner = t /\ claim'[d].address = d
  /\ claim' = [Lasting EXCEPT ![d] = claim'[d]]

\* A claim says whose it is, a step does not say who takes it: that the owner itself
\* gives back is ClaimNotStolen of the driver.
GiveBack(t, d) ==
  /\ claim[d] # NoClaim /\ claim[d].owner = t
  /\ claim' = [claim EXCEPT ![d] = NoClaim]

Tick ==
  claim' = [d \in Devices |->
              IF claim[d] # NoClaim /\ claim[d].ticksLeft > 0
              THEN [claim[d] EXCEPT !.ticksLeft = @ - 1] ELSE claim[d]]

Next == \/ Sweep \/ Tick
        \/ \E t \in Threads, d \in Devices : Acquire(t, d) \/ GiveBack(t, d)

Spec == Init /\ [][Next]_claim

=============================================================================

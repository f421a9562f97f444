------------------------------ MODULE MCUplink ------------------------------
(***************************************************************************)
(* Small instances of Uplink: short queues and cycles, and one set of      *)
(* faults for each question.                                               *)
(***************************************************************************)
EXTENDS Uplink

LostOnly    == {"lose"}
AllFaults   == FaultKinds
CallErrors  == {"error"}
RejectOnly  == {"reject"}

Silence     == {}
Chatter     == {"no", "otherYes"}

=============================================================================

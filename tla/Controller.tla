----------------------------- MODULE Controller -----------------------------
(***************************************************************************)
(* What the node promises the other end, Charter, whatever goes on inside: *)
(* of the threshold commands only a newer one takes effect, and the last   *)
(* watering it reports is the time of the last pulse that has been posted. *)
(* Irrigation and Charter both implement this: one with the threads and    *)
(* the mailbox of the node, the other with its restarts and the network.   *)
(***************************************************************************)
EXTENDS Integers

VARIABLES
  boots,    \* how often it has started
  newest,   \* the timestamp of the command in force
  last,     \* the time of the last pulse, 0 if there is none or none is known
  mailbox   \* what irrigation_get_last_watering gives

Init == boots = 1 /\ newest = 0 /\ last = 0 /\ mailbox = 0

Accept ==
  /\ newest' > newest
  /\ UNCHANGED <<boots, last, mailbox>>

\* A pulse, which may be posted at once.
Pulse ==
  /\ last' >= last
  /\ mailbox' \in {mailbox, last'}
  /\ UNCHANGED <<boots, newest>>

Post ==
  /\ mailbox' = last
  /\ UNCHANGED <<boots, newest, last>>

\* The statics start again.
Restart == boots' = boots + 1 /\ newest' = 0 /\ last' = 0 /\ mailbox' = 0

Next == Accept \/ Pulse \/ Post \/ Restart

Spec == Init /\ [][Next]_<<boots, newest, last, mailbox>>

=============================================================================

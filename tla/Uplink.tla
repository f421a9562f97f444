------------------------------- MODULE Uplink -------------------------------
(***************************************************************************)
(* The telemetry thread and the comms compartment it drives: connect and   *)
(* subscribe, publish the session key once, ask the verifier until it says *)
(* yes, then publish a report per cycle.  The thread is the only one that  *)
(* calls comms; MQTT callbacks run on it, inside mqtt_run.                 *)
(*                                                                         *)
(* The MQTT library, the broker and the verifier are the environment: two  *)
(* FIFO streams, an acknowledgement for every packet that arrives, an echo *)
(* of what the node publishes on the topic it subscribes to.  Faults says  *)
(* what may go wrong.  sAckReceived is counted from the last publish on:   *)
(* the code only ever compares it with its value there.  Commands, the     *)
(* other topic, are Irrigation's.                                          *)
(***************************************************************************)
EXTENDS Integers, Sequences, SequencesExt

CONSTANTS
  Faults,        \* see FaultKinds
  Noise,         \* what others say on the attestation topic
  PollsPerCycle,
  MaxQueue       \* packets under way in one direction, and queries unanswered

\* SNTP or the broker refuses; a subscription is rejected; an mqtt call fails on a
\* live connection; the connection is lost; no session key; a sensor fails; a message
\* cannot be claimed, or is too long for the slot.
FaultKinds == {"refuse", "reject", "error", "lose", "noSession", "sensor", "unclaimed"}

\* The confirmation of this node and of another, and a message that confirms nothing.
Replies       == {"yes", "otherYes", "no"}
Confirmations == {"yes", "otherYes"}

ASSUME UplinkAssumption ==
  /\ Faults \subseteq FaultKinds
  /\ Noise \subseteq Replies \ {"yes"}
  /\ PollsPerCycle \in Nat \ {0} /\ MaxQueue \in Nat \ {0, 1}

Topics   == {"commands", "attestation"}
Publishes == {"ping", "key", "query", "telemetry"}
Packet   == [of : Topics \cup Publishes, late : BOOLEAN]
Item     == [kind : {"ack", "reject"}, of : Topics \cup Publishes, late : BOOLEAN]
              \cup [kind : {"ra"}, of : Replies \cup {"echo"}, late : {FALSE}]

VARIABLES
  pc,            \* where telemetry_loop is
  handle,        \* sHandle: none, or valid with the connection live or dead
  sAckReceived, expected,
  slot,          \* sRaBuf, or "empty" while sRaPending is false
  sAttested, sSessionReady,
  polls,         \* polls left in this cycle
  up, down,      \* packets under way to the broker and to the node
  subscribed,    \* topics the broker has accepted
  asked,         \* queries the verifier has not answered
  \* history
  answered,      \* topics whose SUBACK, good or bad, has been processed
  acked,         \* the packet being waited for has been acknowledged
  okUnacked,     \* a publish has returned 0 without that
  failed,        \* what a publish that returned an error was about
  confirmed,     \* a confirmation has reached the node's callback
  heard,         \* the replies that have since the slot was last drained
  keyAtBroker, telemetryAtBroker

connVars  == <<handle, subscribed, answered>>
ackVars   == <<sAckReceived, expected, acked, okUnacked, failed>>
raVars    == <<slot, sAttested, confirmed, heard>>
netVars   == <<up, down, asked, keyAtBroker, telemetryAtBroker>>
cycleVars == <<sSessionReady, polls>>
vars == <<pc, connVars, ackVars, raVars, netVars, cycleVars>>

Init ==
  /\ pc = "network" /\ handle = "none"
  /\ sAckReceived = 0 /\ expected = 0
  /\ slot = "empty" /\ sAttested = FALSE /\ sSessionReady = FALSE
  /\ polls = 0
  /\ up = <<>> /\ down = <<>> /\ subscribed = {} /\ asked = 0
  /\ answered = {} /\ acked = FALSE /\ okUnacked = FALSE /\ failed = {}
  /\ confirmed = FALSE /\ heard = {}
  /\ keyAtBroker = FALSE /\ telemetryAtBroker = FALSE

-----------------------------------------------------------------------------
(* comms_connect *)

\* The SNTP loop ends; mqtt_connect gives a handle or telemetry_loop tries again.
Synchronise ==
  /\ pc = "network"
  /\ pc' = "connect"
  /\ UNCHANGED <<connVars, ackVars, raVars, netVars, cycleVars>>

ConnectRefused ==
  /\ pc = "connect" /\ "refuse" \in Faults
  /\ pc' = "network"
  /\ UNCHANGED <<connVars, ackVars, raVars, netVars, cycleVars>>

\* Mutant: acknowledgements of an earlier attempt still count.
FirstAcks_Kept == sAckReceived

FirstAcks == 0

Connect ==
  /\ pc = "connect"
  /\ pc' = "subscribeCommands"
  /\ handle' = "live"
  /\ sAckReceived' = FirstAcks
  /\ expected' = 2
  /\ acked' = FALSE
  /\ UNCHANGED <<subscribed, answered, okUnacked, failed, raVars, netVars, cycleVars>>

Send(p) ==
  /\ handle = "live" /\ Len(up) < MaxQueue
  /\ up' = Append(up, [of |-> p, late |-> FALSE])
  /\ UNCHANGED <<down, asked, keyAtBroker, telemetryAtBroker>>

CallFails == handle = "dead" \/ "error" \in Faults

Subscribe(topic, from, to) ==
  /\ pc = from
  /\ Send(topic)
  /\ pc' = to
  /\ UNCHANGED <<connVars, ackVars, raVars, cycleVars>>

\* mqtt_disconnect: telemetry_loop sleeps and starts over.
GiveUp ==
  /\ pc \in {"subscribeCommands", "subscribeAttestation", "subAcks"}
  /\ CallFails
  /\ pc' = "network"
  /\ handle' = "none"
  /\ up' = <<>> /\ down' = <<>>
  /\ subscribed' = {} /\ answered' = {}
  /\ UNCHANGED <<ackVars, raVars, asked, keyAtBroker, telemetryAtBroker, cycleVars>>

Subscribed ==
  /\ pc = "subAcks" /\ sAckReceived >= expected
  /\ pc' = "ping"
  /\ UNCHANGED <<connVars, ackVars, raVars, netVars, cycleVars>>

-----------------------------------------------------------------------------
(* Publishing: publish_and_wait and comms_publish_key_packet *)

\* Where telemetry_loop goes with a publish of p behind it.  Nobody acts on its
\* result, which comms_connect and telemetry_loop at most log.
After(p) == CASE p = "ping"      -> "key"
              [] p = "key"       -> "query"
              [] p = "query"     -> "telemetry"
              [] p = "telemetry" -> "poll"

WaitOf(p) == CASE p = "ping"      -> "pingAck"
               [] p = "key"       -> "keyAck"
               [] p = "query"     -> "queryAck"
               [] p = "telemetry" -> "telemetryAck"

\* Mutant: the wait is already over when it begins.
Wanted_None(received) == received

\* Mutant: the acknowledgement of the publish before is counted on, too.
Wanted_Two(received) == received + 2

Wanted(received) == received + 1

\* int expected = sAckReceived + 1, counting from here.
StartCount ==
  /\ sAckReceived' = 0 /\ expected' = Wanted(0)
  /\ acked' = FALSE
  /\ UNCHANGED okUnacked

Publish(p) ==
  /\ pc = p
  /\ StartCount /\ UNCHANGED failed
  /\ Send(p)
  /\ pc' = WaitOf(p)

MarkLate(s) == [i \in DOMAIN s |->
                  IF s[i].of \in Topics \cup Publishes THEN [s[i] EXCEPT !.late = TRUE] ELSE s[i]]

\* mqtt_publish fails: the packet may still have gone out.
PublishFails(p) ==
  /\ pc = p
  /\ StartCount /\ failed' = failed \cup {p}
  /\ CallFails
  /\ \/ up' = up
     \/ handle = "live" /\ Len(up) < MaxQueue /\ up' = Append(up, [of |-> p, late |-> TRUE])
  /\ pc' = After(p)
  /\ UNCHANGED <<down, asked, keyAtBroker, telemetryAtBroker>>

\* wait_for_ack sees the count it waits for.
Acknowledged(p) ==
  /\ pc = WaitOf(p) /\ sAckReceived >= expected
  /\ pc' = After(p)
  /\ okUnacked' = (okUnacked \/ ~acked)
  /\ UNCHANGED <<sAckReceived, expected, acked, failed, netVars>>

\* mqtt_run fails, perhaps after it has called back.  What is under way is late.
WaitFails(p) ==
  /\ pc = WaitOf(p)
  /\ CallFails
  /\ pc' = After(p)
  /\ up' = MarkLate(up) /\ down' = MarkLate(down)
  /\ failed' = failed \cup {p}
  /\ UNCHANGED <<sAckReceived, expected, acked, okUnacked, asked, keyAtBroker, telemetryAtBroker>>

PublishStep(p) == Publish(p) \/ PublishFails(p) \/ Acknowledged(p) \/ WaitFails(p)

Waits == {"subAcks", "pingAck", "keyAck", "queryAck", "telemetryAck"}

Ping == PublishStep("ping") /\ UNCHANGED <<connVars, raVars, cycleVars>>

-----------------------------------------------------------------------------
(* telemetry_loop *)

\* Mutant: the packet is made and never published.
KeyPublish_Skipped == pc = "key" /\ pc' = After("key") /\ UNCHANGED <<ackVars, netVars>>

KeyPublish == Publish("key") \/ PublishFails("key")

NewSession ==
  /\ pc = "key"
  /\ KeyPublish
  /\ sSessionReady' = TRUE
  /\ UNCHANGED <<polls, connVars, raVars>>

NoSession ==
  /\ pc = "key" /\ "noSession" \in Faults
  /\ pc' = After("key")
  /\ UNCHANGED <<connVars, ackVars, raVars, netVars, cycleVars>>

KeyWait ==
  /\ Acknowledged("key") \/ WaitFails("key")
  /\ UNCHANGED <<connVars, raVars, cycleVars>>

Query ==
  /\ ~sAttested
  /\ PublishStep("query")
  /\ UNCHANGED <<connVars, raVars, cycleVars>>

SkipQuery ==
  /\ pc = "query" /\ sAttested
  /\ pc' = "telemetry"
  /\ UNCHANGED <<connVars, ackVars, raVars, netVars, cycleVars>>

\* The sensors have been read, and crypto_encrypt has found a session.
Telemetry ==
  /\ sAttested /\ sSessionReady
  /\ PublishStep("telemetry")
  /\ polls' = PollsPerCycle
  /\ UNCHANGED <<sSessionReady, connVars, raVars>>

\* Not attested, no session, or a sensor failed: nothing is published.
Withhold ==
  /\ pc = "telemetry"
  /\ ~sAttested \/ ~sSessionReady \/ "sensor" \in Faults
  /\ pc' = "poll"
  /\ polls' = PollsPerCycle
  /\ UNCHANGED <<sSessionReady, connVars, ackVars, raVars, netVars>>

\* Mutant: any answer will do.
Confirms_Any(m) == m # "empty"

\* response_is_attested looks for "attested":true, whatever else the answer says.
Confirms(m) == m \in Confirmations

\* The end of one poll: drain_ra_messages, and a sleep.
Drain ==
  /\ pc = "poll"
  /\ sAttested' = (sAttested \/ Confirms(slot))
  /\ slot' = "empty" /\ heard' = {}
  /\ polls' = polls - 1
  /\ pc' = IF polls > 1 THEN "poll" ELSE "query"
  /\ UNCHANGED <<sSessionReady, confirmed, connVars, ackVars, netVars>>

-----------------------------------------------------------------------------
(* Callbacks, inside mqtt_run *)

\* Mutant: the node's own query is taken for an answer.
Ignored_Nothing(m) == FALSE

Ignored(m) == m = "echo"

Full == slot # "empty"

\* A message on the attestation topic: kept if the slot is free.
publish_callback(m) ==
  /\ slot' = IF Ignored(m) \/ Full THEN slot ELSE m
  /\ confirmed' = (confirmed \/ m \in Confirmations)
  /\ heard' = heard \cup ({m} \cap Replies)
  /\ UNCHANGED <<sAttested, ackVars, answered>>

\* The early returns: the callback has not had the message.
Unclaimed == "unclaimed" \in Faults /\ UNCHANGED <<raVars, ackVars, answered>>

ack_callback(item) ==
  /\ sAckReceived' = sAckReceived + 1
  /\ acked' = (acked \/ ~item.late)
  /\ answered' = answered \cup ({item.of} \cap Topics)
  /\ UNCHANGED <<expected, okUnacked, failed, raVars>>

Receive ==
  /\ pc \in Waits \cup {"poll"}
  /\ handle = "live" /\ down # <<>>
  /\ IF Head(down).kind = "ra" THEN publish_callback(Head(down).of) \/ Unclaimed
                               ELSE ack_callback(Head(down))
  /\ down' = Tail(down)
  /\ UNCHANGED <<pc, handle, subscribed, up, asked, keyAtBroker, telemetryAtBroker,
                 cycleVars>>

-----------------------------------------------------------------------------
(* The environment *)

Ack(packet, kind) == [kind |-> kind, of |-> packet.of, late |-> packet.late]
Ra(m)             == [kind |-> "ra", of |-> m, late |-> FALSE]

Room(n) == Len(down) + n <= MaxQueue

\* The broker takes the next packet.
BrokerSubscribe ==
  /\ up # <<>> /\ Head(up).of \in Topics /\ Room(1)
  /\ \/ /\ down' = Append(down, Ack(Head(up), "ack"))
        /\ subscribed' = subscribed \cup {Head(up).of}
     \/ /\ "reject" \in Faults
        /\ down' = Append(down, Ack(Head(up), "reject"))
        /\ UNCHANGED subscribed
  /\ up' = Tail(up)
  /\ UNCHANGED <<pc, handle, answered, asked, keyAtBroker, telemetryAtBroker, ackVars,
                 raVars, cycleVars>>

BrokerPublish ==
  /\ up # <<>> /\ Head(up).of \in Publishes
  /\ LET ack  == Ack(Head(up), "ack")
         copy == IF Head(up).of = "query" /\ "attestation" \in subscribed
                 THEN <<Ra("echo")>> ELSE <<>>
     IN  /\ Room(2)
         /\ down' \in {down \o <<ack>> \o copy, down \o copy \o <<ack>>}
  /\ asked' = IF Head(up).of = "query" /\ asked < MaxQueue THEN asked + 1 ELSE asked
  /\ keyAtBroker' = (keyAtBroker \/ Head(up).of = "key")
  /\ telemetryAtBroker' = (telemetryAtBroker \/ Head(up).of = "telemetry")
  /\ up' = Tail(up)
  /\ UNCHANGED <<pc, connVars, ackVars, raVars, cycleVars>>

Say(m) ==
  /\ handle = "live" /\ "attestation" \in subscribed /\ Room(1)
  /\ down' = Append(down, Ra(m))
  /\ UNCHANGED <<pc, up, keyAtBroker, telemetryAtBroker, connVars, ackVars, raVars,
                 cycleVars>>

\* The verifier always says yes.
Answer == asked > 0 /\ Say("yes") /\ asked' = asked - 1

Speak == (\E m \in Noise : Say(m)) /\ UNCHANGED asked

\* Nobody connects again once comms_connect has returned.
Lose ==
  /\ "lose" \in Faults
  /\ handle = "live"
  /\ handle' = "dead"
  /\ up' = <<>> /\ down' = <<>>
  /\ subscribed' = {}
  /\ UNCHANGED <<pc, answered, asked, keyAtBroker, telemetryAtBroker, ackVars, raVars,
                 cycleVars>>

-----------------------------------------------------------------------------
SubscribeStep == \/ Subscribe("commands", "subscribeCommands", "subscribeAttestation")
                 \/ Subscribe("attestation", "subscribeAttestation", "subAcks")

Proceed ==
  \/ Synchronise \/ ConnectRefused \/ Connect
  \/ SubscribeStep
  \/ GiveUp \/ Subscribed \/ Ping
  \/ NewSession \/ NoSession \/ KeyWait
  \/ Query \/ SkipQuery \/ Telemetry \/ Withhold \/ Drain

Broker == BrokerSubscribe \/ BrokerPublish

Next == Proceed \/ Receive \/ Broker \/ Answer \/ Speak \/ Lose

Spec == Init /\ [][Next]_vars

\* The thread runs, mqtt_run reads what has arrived, the broker and the verifier
\* answer.  Strong fairness where a step is possible only now and then: mqtt_run is
\* called at intervals, and the bound on the queues comes and goes.
FairSpec ==
  Spec /\ WF_vars(Proceed) /\ SF_vars(Receive) /\ SF_vars(Broker) /\ SF_vars(Answer)

-----------------------------------------------------------------------------
(* Properties *)

Connecting == {"network", "connect", "subscribeCommands", "subscribeAttestation", "subAcks"}
PCs == Connecting \cup Waits \cup Publishes \cup {"poll"}

\* Every variable has its type.
TypeOK ==
  /\ pc \in PCs
  /\ handle \in {"none", "live", "dead"}
  /\ sAckReceived \in Nat /\ expected \in Nat
  /\ slot \in Replies \cup {"empty"}
  /\ sAttested \in BOOLEAN /\ sSessionReady \in BOOLEAN
  /\ polls \in 0 .. PollsPerCycle
  /\ up \in Seq(Packet) /\ down \in Seq(Item)
  /\ subscribed \subseteq Topics /\ asked \in 0 .. MaxQueue
  /\ answered \subseteq Topics
  /\ acked \in BOOLEAN /\ okUnacked \in BOOLEAN /\ failed \subseteq Publishes
  /\ confirmed \in BOOLEAN /\ heard \subseteq Replies
  /\ keyAtBroker \in BOOLEAN /\ telemetryAtBroker \in BOOLEAN

\* comms_connect counts acknowledgements without looking at their packets: across
\* failed attempts, it goes on only when both topics of this connection have been
\* answered.
ConnectAwaitsBoth == pc \notin Connecting => answered = Topics

\* The count alone tells publish_and_wait that its packet has arrived: as long as
\* no publish has failed on this connection, one that returns 0 has been
\* acknowledged.
CountTrueUntilFailure == okUnacked => failed # {}

\* No telemetry leaves the node before a confirmation has reached it, though the
\* topic also carries the node's own queries and what others say.
TelemetryGated ==
  telemetryAtBroker \/ (\E i \in DOMAIN up : up[i].of = "telemetry") => confirmed

\* Whoever can read a report can also read the key it needs: the key packet reaches
\* the broker first, unless publishing it has failed, which the node ignores.
KeyBeforeTelemetry == telemetryAtBroker => keyAtBroker \/ "key" \in failed

\* The slot keeps the first message since it was drained, and what comes while it is
\* full is dropped.  A confirmation among them counts all the same at the next drain,
\* unless a message that confirms nothing was among them, too: neither the node's own
\* query on the topic nor other confirmations can cost it one.
AnswerCounts ==
  [][heard # {} /\ heard \subseteq Confirmations /\ heard' = {} => sAttested']_vars

\* A node whose connection lasts reports again and again: the verifier's yes reaches
\* it, though its own query comes back on the topic and may fill the slot first.
KeepsReporting == <>[](handle # "dead") => []<>(pc = WaitOf("telemetry"))

\* wait_for_ack has no time limit of its own: mqtt_run alone ends it, by calling
\* back or by failing on a lost connection, and never leaves telemetry_loop there.
EveryWaitEnds == \A w \in Waits : pc = w ~> pc # w

-----------------------------------------------------------------------------
(* What the comments say and the code does not do *)

\* comms.cc: once comms_connect says so, the node is subscribed to both topics.
ConnectedMeansSubscribed ==
  pc \notin Connecting /\ handle = "live" => subscribed = Topics

\* comms.h: a publish that returns 0 has succeeded.
AckMeansDelivered == ~okUnacked

=============================================================================

------------------------------ MODULE Charter ------------------------------
(***************************************************************************)
(* Charter, the verifier, and the sessions it shares with the node.  The   *)
(* node makes a session key on each boot and leaves the packet with it at  *)
(* the broker, retained; Charter keeps one session, replaced by each key   *)
(* packet it receives, announces a watering when the time in a report      *)
(* changes, and stamps threshold commands with the current second.         *)
(*                                                                         *)
(* Either end may restart and Charter may lose its connection.  Charter    *)
(* has two threads: the MQTT client's runs on_connect and on_message, the  *)
(* window's runs send_threshold_update.  A key is the number of the boot   *)
(* that made it, and only that key decrypts what it has encrypted.         *)
(***************************************************************************)
EXTENDS Integers, Sequences, Functions

CONSTANTS
  MaxBoots,  \* boots of the node
  MaxClock,  \* the clock, in seconds, stops here
  MaxQueue,  \* messages under way to Charter
  MaxCommands,  \* commands under way to the node
  None       \* None in Python

Keys    == 1 .. MaxBoots
Seconds == 0 .. MaxClock

\* A SensorSession, a packet on the key topic or the telemetry topic, a command.
SensorSession == [key : Keys, last_watering_seen : Seconds \cup {None}]
Packet  == [topic : {"keys"}, key : Keys]
             \cup [topic : {"telemetry"}, key : Keys, lastWatering : Seconds]
Command == [key : Keys, timestamp : Seconds, warned : BOOLEAN, again : BOOLEAN]

ASSUME CharterAssumption ==
  /\ MaxBoots \in Nat \ {0} /\ MaxClock \in Nat \ {0}
  /\ MaxQueue \in Nat \ {0} /\ MaxCommands \in Nat \ {0}
  /\ None \notin Nat \cup SensorSession

VARIABLES
  \* the node
  boot, sSessionReady, sLastWatering, sLastCommandTimestamp,
  \* the broker
  retained,   \* the key packet it keeps, or None
  toCharter, toNode,
  \* Charter
  connected,
  session,    \* the one entry of state.sessions, or None
  lastSent,   \* _last_sent_timestamp of the device, or None
  sending,    \* the command send_threshold_update has stamped, or None
  clock,
  \* history
  published,  \* the last key packet the broker has had, or None
  pulses,     \* when the pump has run: 0 for a pulse before SNTP
  announced,  \* the waterings put on watering_queue
  lastRead,   \* the last report Charter has decrypted, over all sessions, or None
  missed,     \* a change of the last watering has not been announced
  rejoined,   \* the key packet of lastRead has come back since it was read
  silent      \* the node has dropped a command as stale without a warning

nodeVars    == <<boot, sSessionReady, sLastWatering, sLastCommandTimestamp>>
charterVars == <<connected, session, lastSent, sending>>
pumpVars    == <<clock, pulses>>
keyVars     == <<retained, published>>
noticeVars  == <<announced, lastRead, missed, rejoined>>
vars == <<nodeVars, keyVars, toCharter, toNode, charterVars, pumpVars, noticeVars,
          silent>>

Init ==
  /\ boot = 1 /\ sSessionReady = FALSE
  /\ sLastWatering = 0 /\ sLastCommandTimestamp = 0
  /\ retained = None /\ published = None /\ toCharter = <<>> /\ toNode = <<>>
  /\ connected = FALSE /\ session = None /\ lastSent = None /\ sending = None
  /\ clock = 1 /\ pulses = {}
  /\ announced = <<>> /\ lastRead = None
  /\ missed = FALSE /\ rejoined = FALSE /\ silent = FALSE

-----------------------------------------------------------------------------
(* The node *)

\* A subscriber that is connected gets what is published.
Publish(p) ==
  /\ connected => Len(toCharter) < MaxQueue
  /\ toCharter' = IF connected THEN Append(toCharter, p) ELSE toCharter

\* The statics of every compartment start again, and the node comes back under
\* another client id: what the broker had for it is gone.
Reboot ==
  /\ boot < MaxBoots
  /\ boot' = boot + 1
  /\ sSessionReady' = FALSE
  /\ sLastWatering' = 0 /\ sLastCommandTimestamp' = 0
  /\ toNode' = <<>>
  /\ UNCHANGED <<keyVars, toCharter, charterVars, pumpVars, noticeVars, silent>>

\* Pulses are seconds apart.  SNTP has set the clock before the session is made, and
\* once it is set it stays so.
Water ==
  /\ clock \notin pulses
  /\ \E ts \in IF sSessionReady \/ sLastWatering # 0 THEN {clock} ELSE {0, clock} :
       /\ sLastWatering' = ts
       /\ pulses' = pulses \cup {ts}
  /\ UNCHANGED <<boot, sSessionReady, sLastCommandTimestamp, keyVars, toCharter, toNode,
                 charterVars, clock, noticeVars, silent>>

\* Mutants: the packet is published without retain; it is that of the last boot.
Retained_Not == retained

Retained_Old == boot - 1

Retained == boot

\* crypto_init_session and comms_publish_key_packet, whose failure is only logged.
KeyPacket ==
  /\ ~sSessionReady
  /\ sSessionReady' = TRUE
  /\ \/ /\ Publish([topic |-> "keys", key |-> boot])
        /\ retained' = Retained
        /\ published' = boot
     \/ UNCHANGED <<toCharter, keyVars>>
  /\ UNCHANGED <<boot, sLastWatering, sLastCommandTimestamp, toNode, charterVars,
                 pumpVars, noticeVars, silent>>

\* crypto_encrypt and the publish of a report.
Report ==
  /\ sSessionReady
  /\ Publish([topic |-> "telemetry", key |-> boot, lastWatering |-> sLastWatering])
  /\ UNCHANGED <<nodeVars, keyVars, toNode, charterVars, pumpVars, noticeVars, silent>>

\* crypto_decrypt succeeds on what was encrypted under this boot's key.
Decrypts(c) == sSessionReady /\ c.key = boot

\* A command arrives; the broker may send it again, behind what it already has.
Arrive ==
  /\ toNode # <<>>
  /\ \/ toNode' = Tail(toNode)
     \/ toNode' = Append(Tail(toNode), [Head(toNode) EXCEPT !.again = TRUE])

DropCommand ==
  /\ Arrive
  /\ ~Decrypts(Head(toNode))
  /\ UNCHANGED <<nodeVars, keyVars, toCharter, charterVars, pumpVars, noticeVars, silent>>

\* Mutant: a copy of an old command is taken.
Stale_NotCopies(c) == c.timestamp <= sLastCommandTimestamp /\ ~c.again

Stale(c) == c.timestamp <= sLastCommandTimestamp

\* policy_update_threshold: -EALREADY, or the threshold is taken over.
StaleCommand ==
  /\ Arrive
  /\ Decrypts(Head(toNode)) /\ Stale(Head(toNode))
  /\ silent' = (silent \/ (~Head(toNode).warned /\ ~Head(toNode).again))
  /\ UNCHANGED <<nodeVars, keyVars, toCharter, charterVars, pumpVars, noticeVars>>

TakeCommand ==
  /\ Arrive
  /\ Decrypts(Head(toNode)) /\ ~Stale(Head(toNode))
  /\ sLastCommandTimestamp' = Head(toNode).timestamp
  /\ UNCHANGED <<boot, sSessionReady, sLastWatering, keyVars, toCharter, charterVars,
                 pumpVars, noticeVars, silent>>

-----------------------------------------------------------------------------
(* Charter: the MQTT client's thread *)

\* The client connects by itself, and subscribes to the keys first: the broker
\* sends what it has retained.
on_connect ==
  /\ ~connected
  /\ connected' = TRUE
  /\ toCharter' = IF retained = None THEN <<>>
                  ELSE <<[topic |-> "keys", key |-> retained]>>
  /\ UNCHANGED <<nodeVars, keyVars, toNode, session, lastSent, sending, pumpVars,
                 noticeVars, silent>>

\* Nothing is kept for a client without a session at the broker.
Disconnect ==
  /\ connected
  /\ connected' = FALSE
  /\ toCharter' = <<>>
  /\ UNCHANGED <<nodeVars, keyVars, toNode, session, lastSent, sending, pumpVars,
                 noticeVars, silent>>

Incoming(topic) ==
  /\ toCharter # <<>> /\ Head(toCharter).topic = topic
  /\ toCharter' = Tail(toCharter)
  /\ UNCHANGED <<nodeVars, keyVars, toNode, connected, lastSent, sending, pumpVars,
                 silent>>

\* on_message on the key topic: recover_session_keys, and a new SensorSession.
KeyMessage ==
  /\ Incoming("keys")
  /\ session' = [key |-> Head(toCharter).key, last_watering_seen |-> None]
  /\ rejoined' = (rejoined \/ (lastRead # None /\ lastRead.key = Head(toCharter).key))
  /\ UNCHANGED <<announced, lastRead, missed>>

\* Mutants: every report counts; the baseline is never set.
IsNew_Always(seen, w) == seen # None
Seen_Not(seen, w)     == seen

IsNew(seen, w) == seen # None /\ w # seen

Seen(seen, w)  == w

\* Mutant: a report is read whatever its key.
Readable_Any(p) == session # None

\* decrypt_telemetry raises unless the session has the key of the report.
Readable(p) == session # None /\ p.key = session.key

UnreadMessage ==
  /\ Incoming("telemetry")
  /\ ~Readable(Head(toCharter))
  /\ UNCHANGED <<session, noticeVars>>

\* on_message on the telemetry topic.
TelemetryMessage ==
  LET p     == Head(toCharter)
      new   == IsNew(session.last_watering_seen, p.lastWatering)
      moved == /\ lastRead # None /\ lastRead.key = p.key
               /\ lastRead.lastWatering # p.lastWatering
  IN  /\ Incoming("telemetry")
      /\ Readable(p)
      /\ announced' = IF new THEN Append(announced, p.lastWatering) ELSE announced
      /\ session' = [session EXCEPT !.last_watering_seen = Seen(@, p.lastWatering)]
      /\ lastRead' = p
      /\ missed' = (missed \/ (moved /\ ~new))
      /\ rejoined' = FALSE

-----------------------------------------------------------------------------
(* Charter: the window's thread *)

\* Mutant: only an earlier second is warned about.
Warns_EarlierOnly == lastSent # None /\ clock < lastSent

Warns == lastSent # None /\ clock <= lastSent

\* send_threshold_update up to the publish: the key is that of the session now.
StampCommand ==
  /\ sending = None /\ session # None
  /\ sending' = [key |-> session.key, timestamp |-> clock, warned |-> Warns,
                 again |-> FALSE]
  /\ lastSent' = clock
  /\ UNCHANGED <<nodeVars, keyVars, toCharter, toNode, connected, session, pumpVars,
                 noticeVars, silent>>

\* QoS 1: the client sends it now or once it is connected again, in order.
PublishCommand ==
  /\ sending # None /\ Len(toNode) < MaxCommands
  /\ toNode' = Append(toNode, sending)
  /\ sending' = None
  /\ UNCHANGED <<nodeVars, keyVars, toCharter, connected, session, lastSent, pumpVars,
                 noticeVars, silent>>

\* Charter is closed and started again, which takes longer than a second.
Restart ==
  /\ clock < MaxClock
  /\ clock' = clock + 1
  /\ connected' = FALSE /\ session' = None /\ lastSent' = None /\ sending' = None
  /\ toCharter' = <<>>
  /\ UNCHANGED <<nodeVars, keyVars, toNode, pulses, noticeVars, silent>>

-----------------------------------------------------------------------------
Tick ==
  /\ clock < MaxClock
  /\ clock' = clock + 1
  /\ UNCHANGED <<nodeVars, keyVars, toCharter, toNode, charterVars, pulses, noticeVars,
                 silent>>

Node == Reboot \/ Water \/ KeyPacket \/ Report \/ DropCommand \/ StaleCommand \/ TakeCommand

Client == on_connect \/ Disconnect \/ KeyMessage \/ UnreadMessage \/ TelemetryMessage

Window == StampCommand \/ PublishCommand

Next == Node \/ Client \/ Window \/ Restart \/ Tick

Spec == Init /\ [][Next]_vars

-----------------------------------------------------------------------------
(* Properties *)

\* Every variable has its type.
TypeOK ==
  /\ boot \in Keys /\ sSessionReady \in BOOLEAN
  /\ sLastWatering \in Seconds /\ sLastCommandTimestamp \in Seconds
  /\ retained \in Keys \cup {None} /\ published \in Keys \cup {None}
  /\ toCharter \in Seq(Packet) /\ toNode \in Seq(Command)
  /\ connected \in BOOLEAN /\ session \in SensorSession \cup {None}
  /\ lastSent \in Seconds \cup {None} /\ sending \in Command \cup {None}
  /\ clock \in Seconds /\ pulses \subseteq Seconds
  /\ announced \in Seq(Seconds) /\ lastRead \in Packet \cup {None}
  /\ missed \in BOOLEAN /\ rejoined \in BOOLEAN /\ silent \in BOOLEAN

\* A watering Charter announces is a pulse of the pump at a known time: 0, which a
\* restarted node reports, never counts as a change.
AnnouncedAreReal == \A i \in DOMAIN announced : announced[i] \in pulses \ {0}

\* No watering is announced twice, however often either end restarts.
AnnouncedOnce == IsInjective(announced)

\* A report is read whose last watering differs from that of the report read before
\* it, of the same boot, and nothing is announced.
Unannounced ==
  /\ lastRead # None /\ lastRead'.key = lastRead.key
  /\ lastRead'.lastWatering # lastRead.lastWatering
  /\ announced' = announced

\* A change of the last watering between two reports of one boot, read one after the
\* other, is announced, unless the key packet came back after the first of these two
\* was read, and made Charter forget it.
MissedOnlyAfterRejoin == [][Unannounced => rejoined]_vars

\* Once a connected Charter has read all there is, its session is that of the last
\* key packet published, although it may have been away or restarted since.
SessionIsRetained ==
  connected /\ toCharter = <<>> /\ published # None
    => session # None /\ session.key = published

\* send_threshold_update warns when the node will drop the command as stale: what the
\* node drops without a warning is a copy of what it has had.
NoSilentStale == ~silent

C == INSTANCE Controller WITH boots <- boot, newest <- sLastCommandTimestamp,
                              last <- sLastWatering, mailbox <- sLastWatering

\* The node Charter sees across restarts and over the network is the one Irrigation
\* is about: only a newer command takes effect, and only the last pulse is reported.
ImplementsController == C!Spec

-----------------------------------------------------------------------------
(* What the comments say and the code does not do *)

\* main.py: a watering is reported when its time changes from the last one seen for
\* this device.
EveryChangeAnnounced == ~missed

=============================================================================

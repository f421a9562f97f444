--------------------------- MODULE CharterProofs ---------------------------
(***************************************************************************)
(* Sessions, waterings and commands for any number of boots and seconds,   *)
(* and queues of any length.                                               *)
(***************************************************************************)
EXTENDS Charter, StreamLemmas, TLAPS

IsKey(p) == p.topic = "keys"

KeyOf(k)       == [topic |-> "keys", key |-> k]
ReportOf(k, w) == [topic |-> "telemetry", key |-> k, lastWatering |-> w]

-----------------------------------------------------------------------------
(* Types *)

LEMMA PacketFields ==
  ASSUME NEW p \in Packet
  PROVE  p.key \in Keys /\ (~IsKey(p) => p.topic = "telemetry" /\ p.lastWatering \in Seconds)
  BY DEF Packet, IsKey

LEMMA CommandFields ==
  ASSUME NEW c \in Command
  PROVE  c.timestamp \in Seconds /\ c.timestamp \in Nat
  BY DEF Command, Seconds

LEMMA PacketsMade ==
  ASSUME NEW k \in Keys, NEW w \in Seconds
  PROVE  /\ KeyOf(k) \in Packet /\ KeyOf(k).key = k /\ IsKey(KeyOf(k))
         /\ ReportOf(k, w) \in Packet /\ ReportOf(k, w).key = k /\ ~IsKey(ReportOf(k, w))
         /\ ReportOf(k, w).lastWatering = w
  BY DEF KeyOf, ReportOf, Packet, IsKey

NodeType ==
  /\ boot \in Keys /\ sSessionReady \in BOOLEAN
  /\ sLastWatering \in Seconds /\ sLastCommandTimestamp \in Seconds
  /\ clock \in Seconds /\ pulses \subseteq Seconds
KeyType == retained \in Keys \cup {None} /\ published \in Keys \cup {None}
StreamType == toCharter \in Seq(Packet) /\ toNode \in Seq(Command)
CharterType ==
  /\ connected \in BOOLEAN /\ session \in SensorSession \cup {None}
  /\ lastSent \in Seconds \cup {None} /\ sending \in Command \cup {None}
NoticeType ==
  /\ announced \in Seq(Seconds) /\ lastRead \in Packet \cup {None}
  /\ missed \in BOOLEAN /\ rejoined \in BOOLEAN /\ silent \in BOOLEAN

LEMMA TypeParts ==
  /\ TypeOK <=> NodeType /\ KeyType /\ StreamType /\ CharterType /\ NoticeType
  /\ TypeOK' <=> NodeType' /\ KeyType' /\ StreamType' /\ CharterType' /\ NoticeType'
  BY DEF TypeOK, NodeType, KeyType, StreamType, CharterType, NoticeType

LEMMA Bounds ==
  /\ MaxBoots \in Nat /\ MaxClock \in Nat /\ None \notin Nat /\ None \notin SensorSession
  /\ 1 \in Keys /\ 0 \in Seconds /\ 1 \in Seconds
  /\ \A k \in Keys : k < MaxBoots => k + 1 \in Keys
  /\ \A t \in Seconds : t < MaxClock => t + 1 \in Seconds
  BY CharterAssumption DEF Keys, Seconds

LEMMA InitType == Init => TypeOK
  <1> SUFFICES ASSUME Init PROVE TypeOK
    OBVIOUS
  <1> USE Bounds DEF Init
  <1>1. NodeType /\ KeyType
    BY DEF NodeType, KeyType
  <1>2. toCharter \in Seq(Packet) /\ toNode \in Seq(Command) /\ announced \in Seq(Seconds)
    OBVIOUS
  <1>3. StreamType /\ CharterType /\ NoticeType
    BY <1>2, Zenon DEF StreamType, CharterType, NoticeType
  <1>4. QED BY <1>1, <1>3, TypeParts

\* What Publish leaves on its way to Charter.
LEMMA PublishType ==
  ASSUME toCharter \in Seq(Packet), NEW p \in Packet, Publish(p)
  PROVE  toCharter' \in Seq(Packet)
  BY Appended DEF Publish

LEMMA ArriveType ==
  ASSUME toNode \in Seq(Command), Arrive
  PROVE  Head(toNode) \in Command /\ toNode' \in Seq(Command)
  <1>1. Head(toNode) \in Command /\ Tail(toNode) \in Seq(Command)
    BY Taken DEF Arrive
  <1> DEFINE c == [Head(toNode) EXCEPT !.again = TRUE]
  <1>2. c \in Command
    BY <1>1 DEF Command
  <1>3. toNode' = Tail(toNode) \/ toNode' = Append(Tail(toNode), c)
    BY DEF Arrive
  <1> HIDE DEF c
  <1>4. QED BY <1>1, <1>2, <1>3, Appended

LEMMA NodeTyped ==
  ASSUME TypeOK, Node
  PROVE  TypeOK'
  <1> USE DEF nodeVars, keyVars, charterVars, pumpVars, noticeVars
  <1>a. NodeType /\ KeyType /\ StreamType /\ CharterType /\ NoticeType
    BY TypeParts
  <1>b. toNode = <<>> \/ Head(toNode) \in Command
    BY <1>a, Taken DEF StreamType
  <1>1. CASE Reboot
    <2>1. NodeType' /\ KeyType'
      BY <1>1, <1>a, Bounds DEF Reboot, NodeType, KeyType
    <2>2. StreamType' /\ CharterType' /\ NoticeType'
      BY <1>1, <1>a DEF Reboot, StreamType, CharterType, NoticeType
    <2>3. QED BY <2>1, <2>2, TypeParts
  <1>2. CASE Water
    <2>1. NodeType' /\ KeyType'
      BY <1>2, <1>a, Bounds DEF Water, NodeType, KeyType
    <2>2. StreamType' /\ CharterType' /\ NoticeType'
      BY <1>2, <1>a DEF Water, StreamType, CharterType, NoticeType
    <2>3. QED BY <2>1, <2>2, TypeParts
  <1>3. CASE KeyPacket
    <2>1. NodeType' /\ KeyType'
      BY <1>3, <1>a DEF KeyPacket, NodeType, KeyType, Retained
    <2>2. Publish(KeyOf(boot)) \/ toCharter' = toCharter
      BY <1>3 DEF KeyPacket, KeyOf
    <2>3. KeyOf(boot) \in Packet
      BY <1>a, PacketsMade DEF NodeType
    <2>4. StreamType'
      BY <1>3, <1>a, <2>2, <2>3, PublishType DEF KeyPacket, StreamType
    <2>5. CharterType' /\ NoticeType'
      BY <1>3, <1>a DEF KeyPacket, CharterType, NoticeType
    <2>6. QED BY <2>1, <2>4, <2>5, TypeParts
  <1>4. CASE Report
    <2>1. NodeType' /\ KeyType'
      BY <1>4, <1>a DEF Report, NodeType, KeyType
    <2>2. Publish(ReportOf(boot, sLastWatering))
      BY <1>4 DEF Report, ReportOf
    <2>3. ReportOf(boot, sLastWatering) \in Packet
      BY <1>a, PacketsMade DEF NodeType
    <2>4. StreamType'
      BY <1>4, <1>a, <2>2, <2>3, PublishType DEF Report, StreamType
    <2>5. CharterType' /\ NoticeType'
      BY <1>4, <1>a DEF Report, CharterType, NoticeType
    <2>6. QED BY <2>1, <2>4, <2>5, TypeParts
  <1>5. CASE DropCommand \/ StaleCommand \/ TakeCommand
    <2>1. Arrive
      BY <1>5 DEF DropCommand, StaleCommand, TakeCommand
    <2>2. Head(toNode) \in Command /\ toNode' \in Seq(Command)
      BY <1>a, <2>1, ArriveType DEF StreamType
    <2>3. Head(toNode).timestamp \in Seconds
      BY <2>2 DEF Command
    <2>4. NodeType' /\ KeyType'
      BY <1>5, <1>a, <2>3 DEF DropCommand, StaleCommand, TakeCommand, NodeType, KeyType
    <2>5. StreamType' /\ CharterType'
      BY <1>5, <1>a, <2>2 DEF DropCommand, StaleCommand, TakeCommand, StreamType, CharterType
    <2>6. silent' \in BOOLEAN
      BY <1>5, <1>a, Zenon DEF DropCommand, StaleCommand, TakeCommand, NoticeType
    <2>7. NoticeType'
      BY <1>5, <1>a, <2>6 DEF DropCommand, StaleCommand, TakeCommand, NoticeType
    <2>8. QED BY <2>4, <2>5, <2>7, TypeParts
  <1>6. QED BY <1>1, <1>2, <1>3, <1>4, <1>5 DEF Node

LEMMA CharterTyped ==
  ASSUME TypeOK, Client \/ Window \/ Restart \/ Tick
  PROVE  TypeOK'
  <1> USE DEF nodeVars, keyVars, pumpVars, charterVars, noticeVars
  <1>a. NodeType /\ KeyType /\ StreamType /\ CharterType /\ NoticeType
    BY TypeParts
  <1>b. toCharter # <<>> => Head(toCharter) \in Packet /\ Tail(toCharter) \in Seq(Packet)
    BY <1>a, Taken DEF StreamType
  <1>1. CASE on_connect \/ Disconnect
    <2>1. toCharter' = <<>> \/ (retained # None /\ toCharter' = <<KeyOf(retained)>>)
      <3>1. on_connect => toCharter' = IF retained = None THEN <<>> ELSE <<KeyOf(retained)>>
        BY Zenon DEF on_connect, KeyOf
      <3>2. Disconnect => toCharter' = <<>>
        BY DEF Disconnect
      <3>3. QED BY <1>1, <3>1, <3>2
    <2>2. retained # None => KeyOf(retained) \in Packet
      BY <1>a, Bounds, PacketsMade DEF KeyType
    <2>3. toCharter' \in Seq(Packet)
      <3>1. CASE toCharter' = <<>>
        BY <3>1
      <3>2. CASE retained # None /\ toCharter' = <<KeyOf(retained)>>
        BY <2>2, <3>2, Few
      <3>3. QED BY <2>1, <3>1, <3>2
    <2>4. UNCHANGED <<nodeVars, keyVars, toNode, session, lastSent, sending, pumpVars,
                      noticeVars, silent>> /\ connected' \in BOOLEAN
      BY <1>1 DEF on_connect, Disconnect
    <2>5. NodeType' /\ KeyType' /\ StreamType' /\ CharterType' /\ NoticeType'
      BY <1>a, <2>3, <2>4 DEF NodeType, KeyType, StreamType, CharterType, NoticeType
    <2>6. QED BY <2>5, TypeParts
  <1>2. ASSUME NEW topic, Incoming(topic), session' \in SensorSession \cup {None},
               announced' \in Seq(Seconds), lastRead' \in Packet \cup {None},
               missed' \in BOOLEAN, rejoined' \in BOOLEAN
        PROVE  TypeOK'
    <2>1. toCharter' \in Seq(Packet)
          /\ UNCHANGED <<nodeVars, keyVars, toNode, connected, lastSent, sending, pumpVars, silent>>
      BY <1>b, <1>2 DEF Incoming
    <2>2. NodeType' /\ KeyType' /\ StreamType' /\ CharterType' /\ NoticeType'
      BY <1>a, <1>2, <2>1 DEF NodeType, KeyType, StreamType, CharterType, NoticeType
    <2>3. QED BY <2>2, TypeParts
  <1>3. CASE KeyMessage
    <2>1. Incoming("keys") /\ Head(toCharter).key \in Keys
      BY <1>3, <1>b, PacketFields DEF KeyMessage, Incoming
    <2>2. session' \in SensorSession
      BY <1>3, <2>1 DEF KeyMessage, SensorSession
    <2>3. UNCHANGED <<announced, lastRead, missed>> /\ rejoined' \in BOOLEAN
      BY <1>3, <1>a, Zenon DEF KeyMessage, NoticeType
    <2>4. QED BY <1>a, <1>2, <2>1, <2>2, <2>3 DEF NoticeType
  <1>4. CASE UnreadMessage
    BY <1>4, <1>a, <1>2 DEF UnreadMessage, CharterType, NoticeType
  <1>5. CASE TelemetryMessage
    <2> DEFINE p == Head(toCharter)
    <2>1. Incoming("telemetry") /\ p \in Packet /\ p.lastWatering \in Seconds
      BY <1>5, <1>b, PacketFields DEF TelemetryMessage, Incoming, IsKey
    <2>2. session \in SensorSession
      BY <1>5, <1>a DEF TelemetryMessage, Readable, CharterType
    <2>3. session' = [session EXCEPT !.last_watering_seen = p.lastWatering] /\ lastRead' = p
      BY <1>5 DEF TelemetryMessage, Seen
    <2>4. session' \in SensorSession
      BY <2>1, <2>2, <2>3 DEF SensorSession
    <2>5. announced' = announced \/ announced' = Append(announced, p.lastWatering)
      BY <1>5 DEF TelemetryMessage
    <2>6. announced' \in Seq(Seconds)
      BY <1>a, <2>1, <2>5, Appended DEF NoticeType
    <2>7. rejoined' \in BOOLEAN /\ missed' \in BOOLEAN
      BY <1>5, <1>a, Zenon DEF TelemetryMessage, NoticeType
    <2>8. QED BY <1>2, <2>1, <2>3, <2>4, <2>6, <2>7
  <1>6. CASE StampCommand
    <2>1. session \in SensorSession /\ session.key \in Keys /\ clock \in Seconds
      BY <1>6, <1>a DEF StampCommand, CharterType, NodeType, SensorSession
    <2>2. Warns \in BOOLEAN
      BY Zenon DEF Warns
    <2>3. sending' \in Command /\ lastSent' \in Seconds
      BY <1>6, <2>1, <2>2 DEF StampCommand, Command
    <2>4. NodeType' /\ KeyType' /\ StreamType' /\ CharterType' /\ NoticeType'
      BY <1>6, <1>a, <2>3
         DEF StampCommand, NodeType, KeyType, StreamType, CharterType, NoticeType
    <2>5. QED BY <2>4, TypeParts
  <1>7. CASE PublishCommand
    <2>1. sending \in Command
      BY <1>7, <1>a DEF PublishCommand, CharterType
    <2>2. toNode' \in Seq(Command)
      BY <1>7, <1>a, <2>1, Appended DEF PublishCommand, StreamType
    <2>3. NodeType' /\ KeyType' /\ StreamType' /\ CharterType' /\ NoticeType'
      BY <1>7, <1>a, <2>2
         DEF PublishCommand, NodeType, KeyType, StreamType, CharterType, NoticeType
    <2>4. QED BY <2>3, TypeParts
  <1>8. CASE Restart \/ Tick
    <2>1. clock' \in Seconds
      BY <1>8, <1>a, Bounds DEF Restart, Tick, NodeType
    <2>2. NodeType' /\ KeyType' /\ NoticeType'
      BY <1>8, <1>a, <2>1 DEF Restart, Tick, NodeType, KeyType, NoticeType
    <2>3. (toCharter' = <<>> \/ toCharter' = toCharter) /\ toNode' = toNode
      BY <1>8 DEF Restart, Tick
    <2>4. StreamType'
      <3>1. <<>> \in Seq(Packet)
        OBVIOUS
      <3>2. QED BY <1>a, <2>3, <3>1, Zenon DEF StreamType
    <2>5. CharterType'
      BY <1>8, <1>a, Zenon DEF Restart, Tick, CharterType
    <2>6. QED BY <2>2, <2>4, <2>5, TypeParts
  <1>9. QED BY <1>1, <1>3, <1>4, <1>5, <1>6, <1>7, <1>8 DEF Client, Window

LEMMA StepType == TypeOK /\ [Next]_vars => TypeOK'
  <1> SUFFICES ASSUME TypeOK, [Next]_vars PROVE TypeOK'
    OBVIOUS
  <1>1. CASE Node
    BY <1>1, NodeTyped
  <1>2. CASE Client \/ Window \/ Restart \/ Tick
    BY <1>2, CharterTyped
  <1>3. CASE UNCHANGED vars
    <2> USE DEF vars, nodeVars, keyVars, charterVars, pumpVars, noticeVars
    <2>1. NodeType' /\ KeyType' /\ StreamType'
      BY <1>3, TypeParts DEF NodeType, KeyType, StreamType
    <2>2. CharterType' /\ NoticeType'
      BY <1>3, TypeParts DEF CharterType, NoticeType
    <2>3. QED BY <2>1, <2>2, TypeParts
  <1>4. QED BY <1>1, <1>2, <1>3 DEF Next

\* Every variable keeps its type, however often either end restarts.
THEOREM TypeCorrect == Spec => []TypeOK
  BY InitType, StepType, PTL DEF Spec

-----------------------------------------------------------------------------
(* Times *)

\* SNTP and Charter agree on the time, and what has happened has happened before now.
Times ==
  /\ clock >= 1
  /\ \A p \in pulses : p <= clock
  /\ sLastWatering \in pulses \cup {0}
  /\ lastSent # None => lastSent <= clock

LEMMA InitTimes == Init => Times
  BY DEF Init, Times

LEMMA StepTimes == TypeOK /\ Times /\ [Next]_vars => Times'
  <1> SUFFICES ASSUME TypeOK, Times, [Next]_vars PROVE Times'
    OBVIOUS
  <1> USE DEF nodeVars, keyVars, charterVars, pumpVars, noticeVars
  <1>a. NodeType /\ CharterType
    BY TypeParts
  <1>b. /\ clock \in Nat /\ pulses \subseteq Nat /\ sLastWatering \in Nat
        /\ lastSent \in Nat \cup {None}
    BY <1>a, Bounds DEF NodeType, CharterType, Seconds
  <1>1. CASE Reboot
    BY <1>1 DEF Reboot, Times
  <1>2. CASE Water
    BY <1>2, <1>b DEF Water, Times
  <1>3. CASE StampCommand
    BY <1>3, <1>b DEF StampCommand, Times
  <1>4. CASE Restart
    BY <1>4, <1>b DEF Restart, Times
  <1>5. CASE Tick
    BY <1>5, <1>b DEF Tick, Times
  <1>6. CASE \/ KeyPacket \/ Report \/ DropCommand \/ StaleCommand \/ TakeCommand
             \/ Client \/ PublishCommand \/ UNCHANGED vars
    <2>1. UNCHANGED <<clock, pulses, sLastWatering, lastSent>>
      BY <1>6
         DEF KeyPacket, Report, DropCommand, StaleCommand, TakeCommand, Client, on_connect,
             Disconnect, KeyMessage, UnreadMessage, TelemetryMessage, Incoming,
             PublishCommand, vars
    <2>2. QED BY <2>1 DEF Times
  <1>7. QED BY <1>1, <1>2, <1>3, <1>4, <1>5, <1>6 DEF Next, Node, Window

LEMMA TimesAlways == Spec => []Times
  BY InitTimes, StepTimes, TypeCorrect, PTL DEF Spec

\* The node as Charter sees it is Controller, for every number of boots and seconds: only
\* a newer command takes effect, and only the last pulse is reported.
THEOREM Implements == Spec => ImplementsController
  <1> DEFINE seen == <<boot, sLastCommandTimestamp, sLastWatering, sLastWatering>>
  <1>1. Init => C!Init
    BY DEF Init, C!Init
  <1>2. TypeOK /\ Times /\ [Next]_vars => [C!Next]_seen
    <2> SUFFICES ASSUME TypeOK, Times, [Next]_vars PROVE [C!Next]_seen
      OBVIOUS
    <2> USE DEF nodeVars, keyVars, charterVars, pumpVars, noticeVars
    <2>a. NodeType /\ StreamType
      BY TypeParts
    <2>b. clock \in Nat /\ sLastWatering \in Nat /\ sLastCommandTimestamp \in Nat
      BY <2>a, Bounds DEF NodeType, Seconds
    <2>1. CASE Reboot
      BY <2>1 DEF Reboot, C!Next, C!Restart
    <2>2. CASE Water
      <3>1. sLastWatering' >= sLastWatering
        BY <2>2, <2>b DEF Water, Times
      <3>2. QED BY <2>2, <3>1 DEF Water, C!Next, C!Pulse
    <2>3. CASE TakeCommand
      <3>1. Head(toNode) \in Command
        BY <2>3, <2>a, ArriveType DEF TakeCommand, StreamType
      <3>2. Head(toNode).timestamp \in Nat
        BY <3>1, Bounds DEF Command, Seconds
      <3>3. sLastCommandTimestamp' > sLastCommandTimestamp
        BY <2>3, <2>b, <3>2 DEF TakeCommand, Stale
      <3>4. QED BY <2>3, <3>3 DEF TakeCommand, C!Next, C!Accept
    <2>4. CASE \/ KeyPacket \/ Report \/ DropCommand \/ StaleCommand
               \/ Client \/ Window \/ Restart \/ Tick \/ UNCHANGED vars
      BY <2>4
         DEF KeyPacket, Report, DropCommand, StaleCommand, Client, on_connect, Disconnect,
             KeyMessage, UnreadMessage, TelemetryMessage, Incoming, Window, StampCommand,
             PublishCommand, Restart, Tick, vars
    <2>5. QED BY <2>1, <2>2, <2>3, <2>4 DEF Next, Node
  <1>3. QED
    BY <1>1, <1>2, TypeCorrect, TimesAlways, PTL DEF Spec, ImplementsController, C!Spec

-----------------------------------------------------------------------------
(* Commands *)

\* The window compares the next command with one stamped ts, or it is stamped later anyway.
StampedBy(last, now, ts) == IF last = None THEN ts < now ELSE ts <= last

\* A command without a warning, and not a copy.
Fresh(c) == ~c.warned /\ ~c.again

\* A fresh command is newer than every command before it, taken or under way; a copy comes
\* behind its original.
QueueInOrder ==
  \A i \in DOMAIN toNode :
    /\ StampedBy(lastSent, clock, toNode[i].timestamp)
    /\ toNode[i].timestamp >= 1
    /\ Fresh(toNode[i]) =>
         /\ sLastCommandTimestamp < toNode[i].timestamp
         /\ \A j \in DOMAIN toNode : j < i => toNode[j].timestamp < toNode[i].timestamp

\* And so is the one about to be published.
SendingInOrder ==
  sending # None =>
    /\ StampedBy(lastSent, clock, sending.timestamp) /\ sending.timestamp >= 1
    /\ ~sending.again
    /\ ~sending.warned =>
         /\ sLastCommandTimestamp < sending.timestamp
         /\ \A i \in DOMAIN toNode : toNode[i].timestamp < sending.timestamp

InOrder ==
  /\ StampedBy(lastSent, clock, sLastCommandTimestamp)
  /\ QueueInOrder /\ SendingInOrder

LEMMA InitInOrder == Init => InOrder /\ NoSilentStale
  <1> SUFFICES ASSUME Init PROVE InOrder /\ NoSilentStale
    OBVIOUS
  <1>1. DOMAIN toNode = {}
    BY DEF Init
  <1>2. QED BY <1>1 DEF Init, InOrder, QueueInOrder, SendingInOrder, NoSilentStale, StampedBy

LEMMA StampedStays ==
  ASSUME TypeOK, Times, [Next]_vars
  PROVE  \A ts \in Seconds : StampedBy(lastSent, clock, ts) => StampedBy(lastSent', clock', ts)
  <1> USE DEF nodeVars, keyVars, charterVars, pumpVars, noticeVars
  <1>a. NodeType /\ CharterType
    BY TypeParts
  <1>b. clock \in Nat /\ lastSent \in Nat \cup {None} /\ None \notin Nat
    BY <1>a, Bounds DEF NodeType, CharterType, Seconds
  <1>1. \/ UNCHANGED <<lastSent, clock>>
        \/ lastSent' = clock /\ clock' = clock
        \/ lastSent' \in {lastSent, None} /\ clock' = clock + 1
    BY DEF Next, Node, Reboot, Water, KeyPacket, Report, DropCommand, StaleCommand,
           TakeCommand, Client, on_connect, Disconnect, KeyMessage, UnreadMessage,
           TelemetryMessage, Incoming, Window, StampCommand, PublishCommand, Restart, Tick, vars
  <1>2. ASSUME NEW ts \in Nat, StampedBy(lastSent, clock, ts)
        PROVE  StampedBy(lastSent', clock', ts)
    BY <1>b, <1>1, <1>2 DEF StampedBy, Times
  <1>3. QED BY <1>2, Bounds DEF Seconds

\* What is left of the queue when a command arrives.
LEMMA ArriveKeeps ==
  ASSUME toNode \in Seq(Command), Arrive
  PROVE  /\ Head(toNode) = toNode[1] /\ 1 \in DOMAIN toNode
         /\ \A i \in DOMAIN toNode' :
              \/ /\ i + 1 \in DOMAIN toNode /\ toNode'[i] = toNode[i + 1] /\ 1 < i + 1
                 /\ \A j \in DOMAIN toNode' : j < i =>
                      /\ j + 1 \in DOMAIN toNode /\ toNode'[j] = toNode[j + 1]
                      /\ j + 1 < i + 1
              \/ toNode'[i].again /\ toNode'[i].timestamp = toNode[1].timestamp
  <1> DEFINE t == Tail(toNode)
  <1> DEFINE c == [Head(toNode) EXCEPT !.again = TRUE]
  <1>1. /\ Head(toNode) \in Command /\ Head(toNode) = toNode[1] /\ 1 \in DOMAIN toNode
        /\ t \in Seq(Command)
        /\ \A i \in DOMAIN t : i + 1 \in DOMAIN toNode /\ t[i] = toNode[i + 1]
    BY Taken DEF Arrive
  <1>2. c \in Command /\ c.again /\ c.timestamp = toNode[1].timestamp
    BY <1>1 DEF Command
  <1>3. toNode' = t \/ toNode' = Append(t, c)
    BY DEF Arrive
  <1> HIDE DEF t, c
  <1>4. \A i \in DOMAIN t : i \in Nat /\ i >= 1
    BY <1>1, Positions
  <1>5. CASE toNode' = t
    BY <1>1, <1>4, <1>5
  <1>6. CASE toNode' = Append(t, c)
    <2>1. /\ toNode' \in Seq(Command)
          /\ \A i \in DOMAIN t : toNode'[i] = t[i]
          /\ \A i \in DOMAIN toNode' :
               \/ i \in DOMAIN t
               \/ i = Len(t) + 1 /\ toNode'[i] = c /\ \A j \in DOMAIN t : j < i
      BY <1>1, <1>2, <1>6, Appended
    <2>2. \A i \in DOMAIN toNode' : i \in Nat
      BY <2>1, Positions
    <2>3. \A i \in DOMAIN t, j \in DOMAIN toNode' : j < i => j \in DOMAIN t
      BY <1>4, <2>1, <2>2
    <2>4. QED BY <1>1, <1>2, <1>4, <2>1, <2>3
  <1>7. QED BY <1>1, <1>3, <1>5, <1>6

\* A command arrives, and is taken, or dropped with or without a warning.
LEMMA ArrivalInOrder ==
  ASSUME TypeOK, Times, InOrder, NoSilentStale, [Next]_vars,
         DropCommand \/ StaleCommand \/ TakeCommand
  PROVE  InOrder' /\ NoSilentStale'
  <1> USE DEF nodeVars, keyVars, charterVars, pumpVars, noticeVars
  <1>a. /\ toNode \in Seq(Command) /\ sLastCommandTimestamp \in Seconds
        /\ sending \in Command \cup {None}
    BY TypeParts DEF NodeType, StreamType, CharterType
  <1>b. /\ Arrive /\ UNCHANGED <<lastSent, clock, sending>>
        /\ sLastCommandTimestamp' \in {sLastCommandTimestamp, Head(toNode).timestamp}
    BY DEF DropCommand, StaleCommand, TakeCommand
  <1>c. /\ Head(toNode) = toNode[1] /\ 1 \in DOMAIN toNode
        /\ \A i \in DOMAIN toNode' :
             \/ /\ i + 1 \in DOMAIN toNode /\ toNode'[i] = toNode[i + 1] /\ 1 < i + 1
                /\ \A j \in DOMAIN toNode' : j < i =>
                     /\ j + 1 \in DOMAIN toNode /\ toNode'[j] = toNode[j + 1]
                     /\ j + 1 < i + 1
             \/ toNode'[i].again /\ toNode'[i].timestamp = toNode[1].timestamp
    BY <1>a, <1>b, ArriveKeeps
  <1>d. \A i \in DOMAIN toNode :
          /\ StampedBy(lastSent, clock, toNode[i].timestamp)
          /\ toNode[i].timestamp >= 1
          /\ Fresh(toNode[i]) =>
               /\ sLastCommandTimestamp < toNode[i].timestamp
               /\ \A j \in DOMAIN toNode : j < i => toNode[j].timestamp < toNode[i].timestamp
    BY DEF InOrder, QueueInOrder
  <1>e. sLastCommandTimestamp' \in {sLastCommandTimestamp, toNode[1].timestamp}
    BY <1>b, <1>c
  <1>f. \A i \in DOMAIN toNode' : ~toNode'[i].again =>
          i + 1 \in DOMAIN toNode /\ toNode'[i] = toNode[i + 1] /\ 1 < i + 1
    BY <1>c
  <1>g. \A i \in DOMAIN toNode' :
          \E j \in DOMAIN toNode : toNode'[i].timestamp = toNode[j].timestamp
    BY <1>c
  <1>1. QueueInOrder'
    <2>1. ASSUME NEW i \in DOMAIN toNode'
          PROVE  /\ StampedBy(lastSent, clock, toNode'[i].timestamp)
                 /\ toNode'[i].timestamp >= 1
      BY <1>d, <1>g
    <2>2. ASSUME NEW i \in DOMAIN toNode', Fresh(toNode'[i])
          PROVE  /\ sLastCommandTimestamp' < toNode'[i].timestamp
                 /\ \A j \in DOMAIN toNode' : j < i => toNode'[j].timestamp < toNode'[i].timestamp
      <3>1. i + 1 \in DOMAIN toNode /\ toNode'[i] = toNode[i + 1] /\ 1 < i + 1
        BY <1>f, <2>2 DEF Fresh
      <3>2. \A j \in DOMAIN toNode' : j < i =>
              j + 1 \in DOMAIN toNode /\ toNode'[j] = toNode[j + 1] /\ j + 1 < i + 1
        BY <1>c, <2>2 DEF Fresh
      <3>3. /\ sLastCommandTimestamp < toNode[i + 1].timestamp
            /\ \A j \in DOMAIN toNode : j < i + 1 => toNode[j].timestamp < toNode[i + 1].timestamp
        BY <1>d, <2>2, <3>1
      <3>4. sLastCommandTimestamp' < toNode'[i].timestamp
        BY <1>c, <1>e, <3>1, <3>3
      <3>5. \A j \in DOMAIN toNode' : j < i => toNode'[j].timestamp < toNode'[i].timestamp
        BY <3>1, <3>2, <3>3
      <3>6. QED BY <3>4, <3>5
    <2>3. QED BY <1>b, <2>1, <2>2 DEF QueueInOrder
  <1>2. SendingInOrder'
    <2>1. SUFFICES ASSUME sending # None PROVE SendingInOrder'
      BY <1>b DEF SendingInOrder
    <2>2. /\ StampedBy(lastSent, clock, sending.timestamp) /\ sending.timestamp >= 1
          /\ ~sending.again
          /\ ~sending.warned =>
               /\ sLastCommandTimestamp < sending.timestamp
               /\ \A i \in DOMAIN toNode : toNode[i].timestamp < sending.timestamp
      BY <2>1 DEF InOrder, SendingInOrder
    <2>3. ~sending.warned => sLastCommandTimestamp' < sending.timestamp
      BY <1>c, <1>e, <2>2
    <2>4. ~sending.warned => \A i \in DOMAIN toNode' : toNode'[i].timestamp < sending.timestamp
      BY <1>g, <2>2
    <2>5. QED BY <1>b, <2>2, <2>3, <2>4 DEF SendingInOrder
  <1>3. StampedBy(lastSent', clock', sLastCommandTimestamp')
    BY <1>b, <1>c, <1>d, <1>e DEF InOrder
  <1>4. NoSilentStale'
    <2>1. CASE StaleCommand
      <3>1. ~Fresh(toNode[1])
        <4>1. toNode[1].timestamp <= sLastCommandTimestamp
          BY <1>c, <2>1 DEF StaleCommand, Stale
        <4>2. toNode[1].timestamp \in Nat /\ sLastCommandTimestamp \in Nat
          <5>1. toNode[1] \in Command
            BY <1>a, <1>c
          <5>2. QED BY <1>a, <5>1, CommandFields DEF Seconds
        <4>3. QED BY <1>c, <1>d, <4>1, <4>2
      <3>2. silent' = (silent \/ Fresh(Head(toNode)))
        BY <2>1, Zenon DEF StaleCommand, Fresh
      <3>3. QED BY <1>c, <3>1, <3>2, Zenon DEF NoSilentStale
    <2>2. CASE DropCommand \/ TakeCommand
      BY <2>2 DEF DropCommand, TakeCommand, NoSilentStale
    <2>3. QED BY <2>1, <2>2
  <1>5. QED BY <1>1, <1>2, <1>3, <1>4 DEF InOrder

LEMMA StepInOrder ==
  ASSUME TypeOK, Times, InOrder, NoSilentStale, [Next]_vars
  PROVE  InOrder' /\ NoSilentStale'
  <1> USE DEF nodeVars, keyVars, charterVars, pumpVars, noticeVars
  <1>a. NodeType /\ StreamType /\ CharterType
    BY TypeParts
  <1>b. /\ \A i \in DOMAIN toNode : toNode[i].timestamp \in Seconds
        /\ sLastCommandTimestamp \in Seconds
        /\ sending # None => sending.timestamp \in Seconds
        /\ clock \in Seconds
        /\ toNode \in Seq(Command) /\ lastSent \in Seconds \cup {None}
    <2>1. /\ toNode \in Seq(Command) /\ sending \in Command \cup {None}
          /\ sLastCommandTimestamp \in Seconds /\ clock \in Seconds
          /\ lastSent \in Seconds \cup {None}
      BY <1>a DEF NodeType, StreamType, CharterType
    <2>2. \A i \in DOMAIN toNode : toNode[i] \in Command
      BY <2>1
    <2>3. QED BY <2>1, <2>2, CommandFields
  <1>c. Seconds \subseteq Nat /\ None \notin Nat /\ 0 \in Seconds
    BY Bounds DEF Seconds
  <1>d. \A ts \in Seconds : StampedBy(lastSent, clock, ts) => StampedBy(lastSent', clock', ts)
    BY StampedStays
  <1>e. /\ StampedBy(lastSent, clock, sLastCommandTimestamp)
        /\ \A i \in DOMAIN toNode : StampedBy(lastSent, clock, toNode[i].timestamp)
        /\ sending # None => StampedBy(lastSent, clock, sending.timestamp)
    BY DEF InOrder, QueueInOrder, SendingInOrder
  <1>1. CASE DropCommand \/ StaleCommand \/ TakeCommand
    BY <1>1, ArrivalInOrder
  <1>2. CASE Reboot
    <2>1. /\ toNode' = <<>> /\ sLastCommandTimestamp' = 0
          /\ UNCHANGED <<lastSent, clock, sending, silent>>
      BY <1>2 DEF Reboot
    <2>2. DOMAIN toNode' = {}
      BY <2>1
    <2>3. StampedBy(lastSent, clock, 0)
      BY <1>b, <1>c, <1>e DEF StampedBy, Times
    <2>4. QueueInOrder'
      BY <2>2 DEF QueueInOrder
    <2>5. SendingInOrder'
      <3>1. SUFFICES ASSUME sending # None PROVE SendingInOrder'
        BY <2>1 DEF SendingInOrder
      <3>2. /\ StampedBy(lastSent, clock, sending.timestamp) /\ sending.timestamp >= 1
            /\ ~sending.again /\ sending.timestamp \in Nat
        BY <1>b, <1>c, <3>1 DEF InOrder, SendingInOrder
      <3>3. 0 < sending.timestamp
        BY <3>2
      <3>4. QED BY <2>1, <2>2, <3>2, <3>3 DEF SendingInOrder
    <2>6. QED BY <2>1, <2>3, <2>4, <2>5 DEF InOrder, NoSilentStale
  <1>3. CASE StampCommand
    <2>1. /\ sending' = [key |-> session.key, timestamp |-> clock, warned |-> Warns,
                         again |-> FALSE]
          /\ lastSent' = clock
          /\ UNCHANGED <<toNode, clock, sLastCommandTimestamp, silent>>
      BY <1>3 DEF StampCommand
    <2>2. sending'.timestamp = clock /\ ~sending'.again /\ sending'.warned = Warns
      BY <2>1
    <2>3. QueueInOrder'
      BY <1>b, <1>d, <1>e, <2>1 DEF InOrder, QueueInOrder
    <2>4. ~Warns => \A ts \in Seconds : StampedBy(lastSent, clock, ts) => ts < clock
      BY <1>b, <1>c DEF Warns, StampedBy
    <2>5. SendingInOrder'
      <3>1. StampedBy(lastSent', clock', clock) /\ clock >= 1
        <4>1. clock \in Nat /\ clock # None /\ clock <= clock
          BY <1>b, <1>c
        <4>2. QED BY <2>1, <4>1 DEF StampedBy, Times
      <3>2. ~Warns => /\ sLastCommandTimestamp < clock
                      /\ \A i \in DOMAIN toNode : toNode[i].timestamp < clock
        BY <1>b, <1>e, <2>4
      <3>3. QED BY <2>1, <2>2, <3>1, <3>2 DEF SendingInOrder
    <2>6. StampedBy(lastSent', clock', sLastCommandTimestamp')
      BY <1>b, <1>d, <1>e, <2>1
    <2>7. QED BY <2>1, <2>3, <2>5, <2>6 DEF InOrder, NoSilentStale
  <1>4. CASE PublishCommand
    <2>1. /\ sending # None /\ toNode' = Append(toNode, sending) /\ sending' = None
          /\ UNCHANGED <<lastSent, clock, sLastCommandTimestamp, silent>>
          /\ sending \in Command
      BY <1>4, <1>a DEF PublishCommand, CharterType
    <2>2. /\ \A i \in DOMAIN toNode : toNode'[i] = toNode[i]
          /\ \A i \in DOMAIN toNode' :
               \/ i \in DOMAIN toNode
               \/ i = Len(toNode) + 1 /\ toNode'[i] = sending /\ \A j \in DOMAIN toNode : j < i
          /\ toNode' \in Seq(Command)
      BY <1>b, <2>1, Appended
    <2>3. \A i \in DOMAIN toNode, j \in DOMAIN toNode' : j < i => j \in DOMAIN toNode
      <3>1. \A i \in DOMAIN toNode : i \in Nat
        BY <1>b, Positions
      <3>2. \A i \in DOMAIN toNode' : i \in Nat
        BY <2>2, Positions
      <3>3. QED BY <2>2, <3>1, <3>2
    <2>4. \A i \in DOMAIN toNode' : toNode'[i] = sending => \A j \in DOMAIN toNode' : j < i =>
            j \in DOMAIN toNode \/ toNode'[j] = sending
      BY <2>2
    <2>5. /\ StampedBy(lastSent, clock, sending.timestamp) /\ sending.timestamp >= 1
          /\ Fresh(sending) =>
               /\ sLastCommandTimestamp < sending.timestamp
               /\ \A i \in DOMAIN toNode : toNode[i].timestamp < sending.timestamp
      BY <2>1 DEF InOrder, SendingInOrder, Fresh
    <2>6. QueueInOrder'
      <3>1. ASSUME NEW i \in DOMAIN toNode
            PROVE  /\ StampedBy(lastSent', clock', toNode'[i].timestamp)
                   /\ toNode'[i].timestamp >= 1
                   /\ Fresh(toNode'[i]) =>
                        /\ sLastCommandTimestamp' < toNode'[i].timestamp
                        /\ \A j \in DOMAIN toNode' : j < i =>
                             toNode'[j].timestamp < toNode'[i].timestamp
        BY <2>1, <2>2, <2>3 DEF InOrder, QueueInOrder
      <3>2. ASSUME NEW i \in DOMAIN toNode', i \notin DOMAIN toNode
            PROVE  /\ StampedBy(lastSent', clock', toNode'[i].timestamp)
                   /\ toNode'[i].timestamp >= 1
                   /\ Fresh(toNode'[i]) =>
                        /\ sLastCommandTimestamp' < toNode'[i].timestamp
                        /\ \A j \in DOMAIN toNode' : j < i =>
                             toNode'[j].timestamp < toNode'[i].timestamp
        <4>1. toNode'[i] = sending /\ i = Len(toNode) + 1
          BY <2>2, <3>2
        <4>2. \A j \in DOMAIN toNode' : j < i => j \in DOMAIN toNode
          <5>1. \A j \in DOMAIN toNode' : j \in Nat
            BY <2>2, Positions
          <5>2. QED BY <2>2, <4>1, <5>1
        <4>3. QED BY <2>1, <2>2, <2>5, <4>1, <4>2
      <3>3. QED BY <3>1, <3>2 DEF QueueInOrder
    <2>7. SendingInOrder'
      BY <2>1 DEF SendingInOrder
    <2>8. QED BY <1>e, <2>1, <2>6, <2>7 DEF InOrder, NoSilentStale
  <1>5. CASE Restart
    <2>1. sending' = None /\ UNCHANGED <<toNode, sLastCommandTimestamp, silent>>
      BY <1>5 DEF Restart
    <2>2. QueueInOrder'
      BY <1>b, <1>d, <1>e, <2>1 DEF InOrder, QueueInOrder
    <2>3. QED BY <1>b, <1>d, <1>e, <2>1, <2>2 DEF InOrder, SendingInOrder, NoSilentStale
  <1>6. CASE \/ Water \/ KeyPacket \/ Report \/ Client \/ Tick \/ UNCHANGED vars
    <2>1. UNCHANGED <<sending, toNode, sLastCommandTimestamp, silent>>
      BY <1>6
         DEF Water, KeyPacket, Report, Client, on_connect, Disconnect, KeyMessage,
             UnreadMessage, TelemetryMessage, Incoming, Tick, vars
    <2>2. QueueInOrder'
      BY <1>b, <1>d, <1>e, <2>1 DEF InOrder, QueueInOrder
    <2>3. SendingInOrder'
      BY <1>b, <1>d, <1>e, <2>1 DEF InOrder, SendingInOrder
    <2>4. QED BY <1>b, <1>d, <1>e, <2>1, <2>2, <2>3 DEF InOrder, NoSilentStale
  <1>7. QED BY <1>1, <1>2, <1>3, <1>4, <1>5, <1>6 DEF Next, Node, Window

\* What the node drops as stale the operator has been warned about, unless it is a copy.
THEOREM WarnedBeforeDropped == Spec => []NoSilentStale
  <1>1. TypeOK /\ Times /\ InOrder /\ NoSilentStale /\ [Next]_vars => InOrder' /\ NoSilentStale'
    BY StepInOrder
  <1>2. QED BY <1>1, InitInOrder, TypeCorrect, TimesAlways, PTL DEF Spec

-----------------------------------------------------------------------------
(* Sessions *)

\* No key is newer than the boot.
KeysExist ==
  /\ retained # None => retained <= boot
  /\ session # None => session.key <= boot
  /\ \A i \in DOMAIN toCharter : toCharter[i].key <= boot

\* The last key packet on its way to Charter carries k.
LastKeyIs(k) ==
  \E i \in DOMAIN toCharter :
    /\ IsKey(toCharter[i]) /\ toCharter[i].key = k
    /\ \A j \in DOMAIN toCharter : IsKey(toCharter[j]) => j <= i

NoKeyComes == \A i \in DOMAIN toCharter : ~IsKey(toCharter[i])

\* While Charter is connected, the broker's key packet is the last that it has had or will
\* have.
KeyStands ==
  /\ retained = published
  /\ connected /\ retained # None =>
       \/ session # None /\ session.key = retained /\ NoKeyComes
       \/ LastKeyIs(retained)

Sessions == KeysExist /\ KeyStands

LEMMA InitSessions == Init => Sessions
  <1> SUFFICES ASSUME Init PROVE Sessions
    OBVIOUS
  <1>1. DOMAIN toCharter = {}
    BY DEF Init
  <1>2. QED BY <1>1 DEF Init, Sessions, KeysExist, KeyStands

\* A packet with the boot's key is on its way, or lost since Charter is away.
LEMMA PublishedKeepsSessions ==
  ASSUME TypeOK, Sessions, KeyPacket \/ Report
  PROVE  Sessions'
  <1> USE DEF nodeVars, keyVars, charterVars, pumpVars, noticeVars
  <1>a. toCharter \in Seq(Packet) /\ boot \in Keys /\ sLastWatering \in Seconds
        /\ retained \in Keys \cup {None} /\ session \in SensorSession \cup {None}
    BY TypeParts DEF NodeType, KeyType, StreamType, CharterType
  <1>b. UNCHANGED <<boot, session, connected>> /\ boot \in Nat /\ boot <= boot
    BY <1>a DEF KeyPacket, Report, Keys
  <1>1. CASE UNCHANGED <<toCharter, retained, published>>
    BY <1>b, <1>1 DEF Sessions, KeysExist, KeyStands, LastKeyIs, NoKeyComes
  <1>2. CASE /\ ~connected /\ toCharter' = toCharter
             /\ retained' = published' /\ retained' \in {retained, boot}
    BY <1>b, <1>2 DEF Sessions, KeysExist, KeyStands
  <1>3. ASSUME NEW p \in Packet, toCharter' = Append(toCharter, p), p.key = boot,
               \/ IsKey(p) /\ retained' = boot /\ published' = boot
               \/ ~IsKey(p) /\ UNCHANGED <<retained, published>>
        PROVE  Sessions'
    <2>1. /\ \A i \in DOMAIN toCharter : i \in DOMAIN toCharter' /\ toCharter'[i] = toCharter[i]
          /\ \A i \in DOMAIN toCharter' :
               \/ i \in DOMAIN toCharter
               \/ /\ i = Len(toCharter) + 1 /\ toCharter'[i] = p
                  /\ \A j \in DOMAIN toCharter : j < i
          /\ Len(toCharter') \in DOMAIN toCharter' /\ toCharter'[Len(toCharter')] = p
          /\ toCharter' \in Seq(Packet)
      BY <1>a, <1>3, Appended
    <2>2. KeysExist'
      BY <1>b, <1>3, <2>1 DEF Sessions, KeysExist
    <2>3. CASE IsKey(p)
      <3>1. \A j \in DOMAIN toCharter' : j <= Len(toCharter')
        BY <2>1, Positions
      <3>2. LastKeyIs(boot)'
        BY <1>b, <1>3, <2>1, <2>3, <3>1 DEF LastKeyIs
      <3>3. QED BY <1>3, <2>2, <2>3, <3>2 DEF Sessions, KeyStands, LastKeyIs
    <2>4. CASE ~IsKey(p)
      <3>1. NoKeyComes => NoKeyComes'
        BY <2>1, <2>4 DEF NoKeyComes
      <3>2. LastKeyIs(retained) => LastKeyIs(retained)'
        BY <1>3, <2>1, <2>4 DEF LastKeyIs
      <3>3. QED BY <1>b, <1>3, <2>2, <2>4, <3>1, <3>2 DEF Sessions, KeyStands
    <2>5. QED BY <2>3, <2>4
  <1>4. CASE KeyPacket
    <2>1. \/ UNCHANGED <<toCharter, retained, published>>
          \/ Publish(KeyOf(boot)) /\ retained' = boot /\ published' = boot
      BY <1>4 DEF KeyPacket, KeyOf, Retained
    <2>2. KeyOf(boot) \in Packet /\ KeyOf(boot).key = boot /\ IsKey(KeyOf(boot))
      BY <1>a, PacketsMade
    <2>3. QED BY <1>1, <1>2, <1>3, <2>1, <2>2 DEF Publish
  <1>5. CASE Report
    <2> DEFINE p == ReportOf(boot, sLastWatering)
    <2>1. Publish(p) /\ UNCHANGED <<retained, published>>
      BY <1>5 DEF Report, ReportOf
    <2>2. p \in Packet /\ p.key = boot /\ ~IsKey(p)
      BY <1>a, PacketsMade
    <2> HIDE DEF p
    <2>3. QED BY <1>1, <1>3, <2>1, <2>2 DEF Publish
  <1>6. QED BY <1>4, <1>5

\* Charter takes a packet, and keeps its session or replaces it.
LEMMA TakenKeepsSessions ==
  ASSUME TypeOK, Sessions, KeyMessage \/ UnreadMessage \/ TelemetryMessage
  PROVE  Sessions'
  <1> USE DEF nodeVars, keyVars, charterVars, pumpVars, noticeVars
  <1> DEFINE p == Head(toCharter)
  <1>a. toCharter \in Seq(Packet) /\ toCharter # <<>> /\ toCharter' = Tail(toCharter)
        /\ session \in SensorSession \cup {None}
        /\ UNCHANGED <<boot, retained, published, connected>>
    BY TypeParts
       DEF StreamType, CharterType, KeyMessage, UnreadMessage, TelemetryMessage, Incoming
  <1>b. /\ p \in Packet /\ p = toCharter[1] /\ 1 \in DOMAIN toCharter
        /\ toCharter' \in Seq(Packet)
        /\ \A i \in DOMAIN toCharter' :
             i + 1 \in DOMAIN toCharter /\ i + 1 # 1 /\ toCharter'[i] = toCharter[i + 1]
        /\ \A i \in DOMAIN toCharter :
             i # 1 => i - 1 \in DOMAIN toCharter' /\ toCharter'[i - 1] = toCharter[i]
    BY <1>a, Taken
  <1>c. /\ \A i \in DOMAIN toCharter : i \in Nat /\ i >= 1
        /\ \A i \in DOMAIN toCharter' : i \in Nat /\ i >= 1
    BY <1>a, <1>b, Positions
  <1>d. \/ IsKey(p) /\ session' = [key |-> p.key, last_watering_seen |-> None]
        \/ ~IsKey(p) /\ session' = session
        \/ /\ ~IsKey(p) /\ session # None
           /\ session' = [session EXCEPT !.last_watering_seen = Seen(@, p.lastWatering)]
    BY DEF KeyMessage, UnreadMessage, TelemetryMessage, Readable, Incoming, IsKey
  <1>e. \/ IsKey(p) /\ session' # None /\ session'.key = p.key
        \/ ~IsKey(p) /\ (session # None => session' # None /\ session'.key = session.key)
                     /\ (session = None => session' = None)
    <2>1. [key |-> p.key, last_watering_seen |-> None] \in SensorSession
      BY <1>b, PacketFields DEF SensorSession
    <2>2. CASE /\ ~IsKey(p) /\ session # None
               /\ session' = [session EXCEPT !.last_watering_seen = Seen(@, p.lastWatering)]
      <3>1. p.lastWatering \in Seconds
        BY <1>b, <2>2, PacketFields
      <3>2. session' \in SensorSession /\ session'.key = session.key
        BY <1>a, <2>2, <3>1 DEF SensorSession, Seen
      <3>3. QED BY <2>2, <3>2, Bounds
    <2>3. CASE IsKey(p) /\ session' = [key |-> p.key, last_watering_seen |-> None]
      BY <2>1, <2>3, Bounds
    <2>4. CASE ~IsKey(p) /\ session' = session
      BY <2>4
    <2>5. QED BY <1>d, <2>2, <2>3, <2>4
  <1> HIDE DEF p
  <1>1. KeysExist'
    BY <1>a, <1>b, <1>e DEF Sessions, KeysExist
  <1>2. LastKeyIs(retained) => LastKeyIs(retained)' \/ (IsKey(p) /\ p.key = retained /\ NoKeyComes')
    <2>1. SUFFICES ASSUME NEW i \in DOMAIN toCharter,
                          IsKey(toCharter[i]), toCharter[i].key = retained,
                          \A j \in DOMAIN toCharter : IsKey(toCharter[j]) => j <= i
                   PROVE  LastKeyIs(retained)' \/ (IsKey(p) /\ p.key = retained /\ NoKeyComes')
      BY DEF LastKeyIs
    <2>2. CASE i = 1
      <3>1. \A j \in DOMAIN toCharter' : ~IsKey(toCharter'[j])
        BY <1>b, <1>c, <2>1, <2>2
      <3>2. QED BY <1>b, <2>1, <2>2, <3>1 DEF NoKeyComes
    <2>3. CASE i # 1
      <3>1. i - 1 \in DOMAIN toCharter' /\ toCharter'[i - 1] = toCharter[i]
        BY <1>b, <2>3
      <3>2. \A j \in DOMAIN toCharter' : IsKey(toCharter'[j]) => j <= i - 1
        BY <1>b, <1>c, <2>1
      <3>3. LastKeyIs(retained)'
        BY <1>a, <2>1, <3>1, <3>2 DEF LastKeyIs
      <3>4. QED BY <3>3
    <2>4. QED BY <2>2, <2>3
  <1>3. NoKeyComes => NoKeyComes' /\ ~IsKey(p)
    BY <1>b DEF NoKeyComes
  <1>4. KeyStands'
    <2>1. SUFFICES ASSUME connected, retained # None
                   PROVE  \/ session' # None /\ session'.key = retained /\ NoKeyComes'
                          \/ LastKeyIs(retained)'
      BY <1>a DEF Sessions, KeyStands
    <2>2. CASE session # None /\ session.key = retained /\ NoKeyComes
      BY <1>3, <1>e, <2>2
    <2>3. CASE LastKeyIs(retained)
      BY <1>2, <1>e, <2>3
    <2>4. QED BY <2>1, <2>2, <2>3 DEF Sessions, KeyStands
  <1>5. QED BY <1>1, <1>4 DEF Sessions

LEMMA StepSessions ==
  ASSUME TypeOK, Sessions, [Next]_vars
  PROVE  Sessions'
  <1> USE DEF nodeVars, keyVars, charterVars, pumpVars, noticeVars
  <1>a. boot \in Nat /\ retained \in Nat \cup {None} /\ session \in SensorSession \cup {None}
    BY TypeParts DEF NodeType, KeyType, CharterType, Keys
  <1>b. /\ \A i \in DOMAIN toCharter : toCharter[i].key \in Nat
        /\ session # None => session.key \in Nat
    <2>1. \A i \in DOMAIN toCharter : toCharter[i] \in Packet
      BY TypeParts DEF StreamType
    <2>2. QED BY <1>a, <2>1, PacketFields DEF SensorSession, Keys
  <1>1. CASE KeyPacket \/ Report
    BY <1>1, PublishedKeepsSessions
  <1>2. CASE KeyMessage \/ UnreadMessage \/ TelemetryMessage
    BY <1>2, TakenKeepsSessions
  <1>3. CASE Reboot
    BY <1>3, <1>a, <1>b DEF Reboot, Sessions, KeysExist, KeyStands, LastKeyIs, NoKeyComes
  <1>4. CASE on_connect
    <2>1. /\ UNCHANGED <<boot, retained, published, session>>
          /\ toCharter' = IF retained = None THEN <<>> ELSE <<KeyOf(retained)>>
      BY <1>4, Zenon DEF on_connect, KeyOf
    <2>2. CASE retained = None
      <3>1. DOMAIN toCharter' = {}
        BY <2>1, <2>2
      <3>2. QED BY <2>1, <2>2, <3>1 DEF Sessions, KeysExist, KeyStands
    <2>3. CASE retained # None
      <3>1. KeyOf(retained) \in Packet /\ KeyOf(retained).key = retained /\ IsKey(KeyOf(retained))
        BY <2>3, Bounds, PacketsMade, TypeParts DEF KeyType
      <3>2. DOMAIN toCharter' = {1} /\ toCharter'[1] = KeyOf(retained) /\ 1 <= 1
        BY <2>1, <2>3, <3>1, Few
      <3>3. LastKeyIs(retained)'
        BY <2>1, <3>1, <3>2 DEF LastKeyIs
      <3>4. QED BY <2>1, <2>3, <3>1, <3>2, <3>3 DEF Sessions, KeysExist, KeyStands
    <2>4. QED BY <2>2, <2>3
  <1>5. CASE Disconnect \/ Restart
    <2>1. /\ UNCHANGED <<boot, retained, published>> /\ toCharter' = <<>> /\ ~connected'
          /\ session' \in {session, None}
      BY <1>5 DEF Disconnect, Restart
    <2>2. DOMAIN toCharter' = {}
      BY <2>1
    <2>3. QED BY <2>1, <2>2 DEF Sessions, KeysExist, KeyStands
  <1>6. CASE \/ Water \/ DropCommand \/ StaleCommand \/ TakeCommand \/ Window \/ Tick
             \/ UNCHANGED vars
    <2>1. UNCHANGED <<boot, keyVars, connected, session, toCharter>>
      BY <1>6 DEF Water, DropCommand, StaleCommand, TakeCommand, Window, StampCommand,
                  PublishCommand, Tick, vars
    <2>2. QED BY <2>1 DEF Sessions, KeysExist, KeyStands, LastKeyIs, NoKeyComes
  <1>7. QED BY <1>1, <1>2, <1>3, <1>4, <1>5, <1>6 DEF Next, Node, Client

LEMMA SessionsAlways == Spec => []Sessions
  <1>1. TypeOK /\ Sessions /\ [Next]_vars => Sessions'
    BY StepSessions
  <1>2. QED BY <1>1, InitSessions, TypeCorrect, PTL DEF Spec

\* Charter ends up with the node's last key, however often it was away or restarted.
THEOREM SessionRetained == Spec => []SessionIsRetained
  <1>1. Sessions => SessionIsRetained
    <2>1. toCharter = <<>> => ~LastKeyIs(retained)
      BY DEF LastKeyIs
    <2>2. QED BY <2>1 DEF Sessions, KeyStands, SessionIsRetained
  <1>2. QED BY <1>1, SessionsAlways, PTL

-----------------------------------------------------------------------------
(* Reports *)

\* A report of w under key k is among the packets s.
ReportsIn(s, k, w) ==
  \E i \in DOMAIN s : ~IsKey(s[i]) /\ s[i].key = k /\ s[i].lastWatering = w

\* The last watering never goes back from one report under a key to the next.
OrderedReports(s) ==
  \A i, j \in DOMAIN s :
    ~IsKey(s[i]) /\ ~IsKey(s[j]) /\ s[i].key = s[j].key /\ i < j
      => s[i].lastWatering <= s[j].lastWatering

LEMMA ReportAppended ==
  ASSUME NEW s \in Seq(Packet), NEW p \in Packet, NEW t, t = Append(s, p), OrderedReports(s),
         ~IsKey(p) => \A w : ReportsIn(s, p.key, w) => w <= p.lastWatering
  PROVE  /\ OrderedReports(t)
         /\ \A k, w : ReportsIn(t, k, w) =>
              ReportsIn(s, k, w) \/ (~IsKey(p) /\ k = p.key /\ w = p.lastWatering)
  <1>1. /\ t \in Seq(Packet)
        /\ \A i \in DOMAIN s : i \in DOMAIN t /\ t[i] = s[i]
        /\ \A i \in DOMAIN t :
             \/ i \in DOMAIN s
             \/ i = Len(s) + 1 /\ t[i] = p /\ \A j \in DOMAIN s : j < i
    BY Appended
  <1>2. \A i \in DOMAIN t : i \in Nat
    BY <1>1, Positions
  <1>3. ASSUME NEW i \in DOMAIN t, NEW j \in DOMAIN t, i < j,
               ~IsKey(t[i]), ~IsKey(t[j]), t[i].key = t[j].key
        PROVE  t[i].lastWatering <= t[j].lastWatering
    <2>1. i \in DOMAIN s
      BY <1>1, <1>2, <1>3
    <2>2. CASE j \in DOMAIN s
      BY <1>1, <1>3, <2>1, <2>2 DEF OrderedReports
    <2>3. CASE j \notin DOMAIN s
      <3>1. t[j] = p /\ t[i] = s[i]
        BY <1>1, <2>1, <2>3
      <3>2. ReportsIn(s, p.key, s[i].lastWatering)
        BY <1>3, <2>1, <3>1 DEF ReportsIn
      <3>3. QED BY <1>3, <3>1, <3>2
    <2>4. QED BY <2>2, <2>3
  <1>4. ASSUME NEW k, NEW w, ReportsIn(t, k, w)
        PROVE  ReportsIn(s, k, w) \/ (~IsKey(p) /\ k = p.key /\ w = p.lastWatering)
    BY <1>1, <1>4 DEF ReportsIn
  <1>5. QED BY <1>3, <1>4 DEF OrderedReports

LEMMA ReportTaken ==
  ASSUME NEW s \in Seq(Packet), s # <<>>, OrderedReports(s)
  PROVE  /\ OrderedReports(Tail(s))
         /\ \A k, w : ReportsIn(Tail(s), k, w) => ReportsIn(s, k, w)
         /\ ~IsKey(Head(s)) =>
              /\ ReportsIn(s, Head(s).key, Head(s).lastWatering)
              /\ \A w : ReportsIn(Tail(s), Head(s).key, w) => Head(s).lastWatering <= w
  <1> DEFINE t == Tail(s)
  <1> DEFINE p == Head(s)
  <1>1. /\ p = s[1] /\ 1 \in DOMAIN s /\ t \in Seq(Packet)
        /\ \A i \in DOMAIN t : i + 1 \in DOMAIN s /\ i + 1 # 1 /\ t[i] = s[i + 1]
    BY Taken
  <1> HIDE DEF t, p
  <1>2. \A i \in DOMAIN t : i \in Nat /\ i >= 1
    BY <1>1, Positions
  <1>3. OrderedReports(t)
    BY <1>1, <1>2 DEF OrderedReports
  <1>4. \A k, w : ReportsIn(t, k, w) => ReportsIn(s, k, w)
    BY <1>1 DEF ReportsIn
  <1>5. ASSUME ~IsKey(p)
        PROVE  /\ ReportsIn(s, p.key, p.lastWatering)
               /\ \A w : ReportsIn(t, p.key, w) => p.lastWatering <= w
    <2>1. ReportsIn(s, p.key, p.lastWatering)
      BY <1>1, <1>5 DEF ReportsIn
    <2>2. ASSUME NEW i \in DOMAIN t, ~IsKey(t[i]), t[i].key = p.key
          PROVE  p.lastWatering <= t[i].lastWatering
      <3>1. 1 < i + 1
        BY <1>2
      <3>2. QED BY <1>1, <1>5, <2>2, <3>1 DEF OrderedReports
    <2>3. QED BY <2>1, <2>2 DEF ReportsIn
  <1>6. QED BY <1>3, <1>4, <1>5 DEF t, p

LEMMA NoReports ==
  ASSUME NEW s, DOMAIN s = {} \/ (DOMAIN s = {1} /\ IsKey(s[1]))
  PROVE  OrderedReports(s) /\ \A k, w : ~ReportsIn(s, k, w)
  BY DEF OrderedReports, ReportsIn

-----------------------------------------------------------------------------
(* Waterings *)

\* The reports that can still come: those on their way, and the node's next.
Comes(k, w) == (k = boot /\ w = sLastWatering) \/ ReportsIn(toCharter, k, w)

\* The session has the key k, and a last watering to compare with.
SeenUnder(k) == session # None /\ session.key = k /\ session.last_watering_seen # None

\* What comes is a pulse or none, in order.
ReportsReal ==
  /\ OrderedReports(toCharter)
  /\ \A w : ReportsIn(toCharter, boot, w) => w <= sLastWatering
  /\ \A k, w : Comes(k, w) => w \in pulses \cup {0}

\* What the session has seen under its key comes first.
SeenFirst == \A k, w : Comes(k, w) /\ SeenUnder(k) => session.last_watering_seen <= w

\* A pulse is reported under the key of one boot.
OneBoot == \A k, l, w : Comes(k, w) /\ Comes(l, w) /\ w # 0 => k = l

\* What has been announced and can come again is not behind anything that comes under its
\* key, nor behind what has been seen under it.
AnnouncedBehind ==
  \A a \in DOMAIN announced : \A k : Comes(k, announced[a]) =>
    /\ \A w : Comes(k, w) => announced[a] <= w
    /\ SeenUnder(k) => announced[a] <= session.last_watering_seen

Waterings ==
  ReportsReal /\ SeenFirst /\ OneBoot /\ AnnouncedBehind /\ AnnouncedAreReal /\ AnnouncedOnce

LEMMA InitWaterings == Init => Waterings
  <1> SUFFICES ASSUME Init PROVE Waterings
    OBVIOUS
  <1>1. DOMAIN toCharter = {} /\ DOMAIN announced = {}
    BY DEF Init
  <1>2. OrderedReports(toCharter) /\ \A k, w : ~ReportsIn(toCharter, k, w)
    BY <1>1, NoReports
  <1>3. ReportsReal /\ SeenFirst /\ OneBoot /\ AnnouncedBehind
    BY <1>1, <1>2 DEF Init, ReportsReal, SeenFirst, OneBoot, AnnouncedBehind, Comes, SeenUnder
  <1>4. AnnouncedAreReal /\ AnnouncedOnce
    BY <1>1 DEF AnnouncedAreReal, AnnouncedOnce, IsInjective
  <1>5. QED BY <1>3, <1>4 DEF Waterings

\* A step that brings no other report, and lets Charter see and announce nothing.
LEMMA NothingNew ==
  ASSUME Waterings, OrderedReports(toCharter'),
         \A k, w : ReportsIn(toCharter', k, w) => Comes(k, w),
         UNCHANGED <<boot, sLastWatering, announced>>, pulses \subseteq pulses',
         sLastWatering \in Nat,
         \A k : SeenUnder(k)' =>
           SeenUnder(k) /\ session'.last_watering_seen = session.last_watering_seen
  PROVE  Waterings'
  <1>1. \A k, w : Comes(k, w)' => Comes(k, w)
    BY DEF Comes
  <1>2. ReportsReal'
    <2>1. \A w : ReportsIn(toCharter', boot, w) => w <= sLastWatering
      BY DEF Waterings, ReportsReal, Comes
    <2>2. \A k, w : Comes(k, w)' => w \in pulses' \cup {0}
      BY <1>1 DEF Waterings, ReportsReal
    <2>3. QED BY <2>1, <2>2 DEF ReportsReal
  <1>3. SeenFirst'
    BY <1>1 DEF Waterings, SeenFirst
  <1>4. OneBoot'
    BY <1>1 DEF Waterings, OneBoot
  <1>5. AnnouncedBehind'
    <2>1. ASSUME NEW a \in DOMAIN announced, NEW k, Comes(k, announced[a])
          PROVE  /\ \A w : Comes(k, w)' => announced[a] <= w
                 /\ SeenUnder(k)' => announced[a] <= session'.last_watering_seen
      BY <1>1, <2>1 DEF Waterings, AnnouncedBehind
    <2>2. QED BY <1>1, <2>1 DEF AnnouncedBehind, Comes, SeenUnder
  <1>6. AnnouncedAreReal' /\ AnnouncedOnce'
    BY DEF Waterings, AnnouncedAreReal, AnnouncedOnce
  <1>7. QED BY <1>2, <1>3, <1>4, <1>5, <1>6 DEF Waterings

\* A pulse is later than every other, and than all that has been seen and announced.
LEMMA WaterKeeps ==
  ASSUME TypeOK, Times, Waterings, Water
  PROVE  Waterings'
  <1> USE DEF charterVars, noticeVars
  <1>a. /\ clock \in Nat /\ pulses \subseteq Nat /\ sLastWatering \in Nat
        /\ sLastWatering <= clock /\ clock >= 1
        /\ \A w \in pulses \cup {0} : w \in Nat /\ w <= clock
    <2>1. clock \in Nat /\ pulses \subseteq Nat /\ sLastWatering \in Nat
      BY TypeParts, Bounds DEF NodeType, Seconds
    <2>2. \A w \in pulses \cup {0} : w \in Nat /\ w <= clock
      BY <2>1 DEF Times
    <2>3. QED BY <2>1, <2>2 DEF Times
  <1>b. clock \notin pulses /\ UNCHANGED <<boot, toCharter, session, announced>>
    BY DEF Water
  <1>1. CASE sLastWatering' = 0 /\ sLastWatering = 0 /\ pulses' = pulses \cup {0}
    <2>1. \A k, w : ReportsIn(toCharter', k, w) => Comes(k, w)
      BY <1>b DEF Comes
    <2>2. \A k : SeenUnder(k)' =>
            SeenUnder(k) /\ session'.last_watering_seen = session.last_watering_seen
      BY <1>b DEF SeenUnder
    <2>3. OrderedReports(toCharter')
      BY <1>b DEF Waterings, ReportsReal
    <2>4. QED BY <1>a, <1>b, <1>1, <2>1, <2>2, <2>3, NothingNew
  <1>2. CASE sLastWatering' = clock /\ pulses' = pulses \cup {clock}
    <2>1. \A k, w : Comes(k, w)' <=> (k = boot /\ w = clock) \/ ReportsIn(toCharter, k, w)
      BY <1>b, <1>2 DEF Comes
    <2>2. \A k, w : ReportsIn(toCharter, k, w) =>
            Comes(k, w) /\ w \in Nat /\ w <= clock /\ w # clock
      <3>1. \A k, w : ReportsIn(toCharter, k, w) => Comes(k, w) /\ w \in pulses \cup {0}
        BY DEF Comes, Waterings, ReportsReal
      <3>2. \A w \in pulses \cup {0} : w \in Nat /\ w <= clock /\ w # clock
        BY <1>a, <1>b
      <3>3. QED BY <3>1, <3>2
    <2>3. \A k : SeenUnder(k)' <=> SeenUnder(k)
      BY <1>b DEF SeenUnder
    <2>4. \A a \in DOMAIN announced :
            announced[a] \in Nat /\ announced[a] <= clock /\ announced[a] # clock
      BY <1>a, <1>b DEF Waterings, AnnouncedAreReal
    <2>5. ReportsReal'
      <3>1. \A w : ReportsIn(toCharter', boot', w) => w <= sLastWatering'
        BY <1>b, <1>2, <2>2
      <3>2. \A k, w : Comes(k, w)' => w \in pulses' \cup {0}
        BY <1>2, <2>1, <2>2 DEF Waterings, ReportsReal
      <3>3. OrderedReports(toCharter')
        BY <1>b DEF Waterings, ReportsReal
      <3>4. QED BY <3>1, <3>2, <3>3 DEF ReportsReal
    <2>6. SeenFirst'
      <3>1. ASSUME SeenUnder(boot) PROVE session.last_watering_seen <= clock
        <4>1. session.last_watering_seen <= sLastWatering
          BY <3>1 DEF Comes, Waterings, SeenFirst
        <4>2. session.last_watering_seen \in Nat
          BY <3>1, TypeParts, Bounds DEF CharterType, SensorSession, Seconds, SeenUnder
        <4>3. QED BY <1>a, <4>1, <4>2
      <3>2. \A k, w : Comes(k, w)' /\ SeenUnder(k) => session.last_watering_seen <= w
        BY <2>1, <2>2, <3>1 DEF Waterings, SeenFirst
      <3>3. QED BY <1>b, <2>3, <3>2 DEF SeenFirst
    <2>7. OneBoot'
      <3>1. \A k, l, w : Comes(k, w)' /\ Comes(l, w)' /\ w # 0 => k = l
        BY <2>1, <2>2 DEF Waterings, OneBoot
      <3>2. QED BY <3>1 DEF OneBoot
    <2>8. AnnouncedBehind'
      <3>1. ASSUME NEW a \in DOMAIN announced, NEW k, ReportsIn(toCharter, k, announced[a])
            PROVE  /\ \A w : Comes(k, w)' => announced[a] <= w
                   /\ SeenUnder(k) => announced[a] <= session.last_watering_seen
        <4>1. /\ \A w : Comes(k, w) => announced[a] <= w
              /\ SeenUnder(k) => announced[a] <= session.last_watering_seen
          BY <2>2, <3>1 DEF Waterings, AnnouncedBehind
        <4>2. QED BY <2>1, <2>2, <2>4, <4>1
      <3>2. \A a \in DOMAIN announced : \A k :
              (k = boot /\ announced[a] = clock) \/ ReportsIn(toCharter, k, announced[a])
                => ReportsIn(toCharter, k, announced[a])
        BY <2>4
      <3>3. QED BY <1>b, <1>2, <3>1, <3>2 DEF AnnouncedBehind, Comes, SeenUnder
    <2>9. AnnouncedAreReal' /\ AnnouncedOnce'
      BY <1>b, <1>2 DEF Waterings, AnnouncedAreReal, AnnouncedOnce
    <2>10. QED BY <2>5, <2>6, <2>7, <2>8, <2>9 DEF Waterings
  <1>3. \/ sLastWatering' = 0 /\ sLastWatering = 0 /\ pulses' = pulses \cup {0}
        \/ sLastWatering' = clock /\ pulses' = pulses \cup {clock}
    BY DEF Water
  <1>4. QED BY <1>1, <1>2, <1>3

\* Nothing has been made or seen under the key of the next boot.
LEMMA RebootKeeps ==
  ASSUME TypeOK, Sessions, Waterings, Reboot
  PROVE  Waterings'
  <1> USE DEF charterVars, noticeVars, pumpVars
  <1>a. /\ boot \in Nat /\ toCharter \in Seq(Packet) /\ pulses \subseteq Nat
        /\ session \in SensorSession \cup {None}
    BY TypeParts, Bounds DEF NodeType, StreamType, CharterType, Keys, Seconds
  <1>b. /\ boot' = boot + 1 /\ sLastWatering' = 0
        /\ UNCHANGED <<toCharter, session, announced, pulses>>
    BY DEF Reboot
  <1>1. ~SeenUnder(boot + 1) /\ \A k : SeenUnder(k)' <=> SeenUnder(k)
    <2>1. session # None => session.key \in Nat /\ session.key <= boot
      BY <1>a DEF Sessions, KeysExist, SensorSession, Keys
    <2>2. ~SeenUnder(boot + 1)
      BY <1>a, <2>1 DEF SeenUnder
    <2>3. QED BY <1>b, <2>2 DEF SeenUnder
  <1>2. \A w : ~ReportsIn(toCharter, boot + 1, w)
    <2>1. \A i \in DOMAIN toCharter : toCharter[i].key \in Nat /\ toCharter[i].key <= boot
      <3>1. \A i \in DOMAIN toCharter : toCharter[i] \in Packet
        BY <1>a
      <3>2. QED BY <3>1, PacketFields DEF Sessions, KeysExist, Keys
    <2>2. QED BY <1>a, <2>1 DEF ReportsIn
  <1>3. \A k, w : Comes(k, w)' <=> (k = boot + 1 /\ w = 0) \/ ReportsIn(toCharter, k, w)
    BY <1>b DEF Comes
  <1>4. \A k, w : ReportsIn(toCharter, k, w) => Comes(k, w) /\ k # boot + 1
    BY <1>2 DEF Comes
  <1>5. ReportsReal'
    <2>1. \A k, w : Comes(k, w)' => w \in pulses \cup {0}
      BY <1>3, <1>4 DEF Waterings, ReportsReal
    <2>2. QED BY <1>b, <1>2, <2>1 DEF Waterings, ReportsReal
  <1>6. SeenFirst'
    <2>1. \A k, w : Comes(k, w)' /\ SeenUnder(k) => session.last_watering_seen <= w
      BY <1>1, <1>3, <1>4 DEF Waterings, SeenFirst
    <2>2. QED BY <1>1, <1>b, <2>1 DEF SeenFirst
  <1>7. OneBoot'
    <2>1. \A k, l, w : Comes(k, w)' /\ Comes(l, w)' /\ w # 0 => k = l
      BY <1>3, <1>4 DEF Waterings, OneBoot
    <2>2. QED BY <2>1 DEF OneBoot
  <1>8. AnnouncedBehind'
    <2>1. ASSUME NEW a \in DOMAIN announced, NEW k, ReportsIn(toCharter, k, announced[a])
          PROVE  /\ \A w : Comes(k, w)' => announced[a] <= w
                 /\ SeenUnder(k) => announced[a] <= session.last_watering_seen
      BY <1>3, <1>4, <2>1 DEF Waterings, AnnouncedBehind
    <2>2. \A a \in DOMAIN announced : announced[a] # 0
      BY DEF Waterings, AnnouncedAreReal
    <2>3. QED BY <1>b, <2>1, <2>2 DEF AnnouncedBehind, Comes, SeenUnder
  <1>9. AnnouncedAreReal' /\ AnnouncedOnce'
    BY <1>b DEF Waterings, AnnouncedAreReal, AnnouncedOnce
  <1>10. QED BY <1>5, <1>6, <1>7, <1>8, <1>9 DEF Waterings

\* A report is read: what is announced is a pulse later than all that was.
LEMMA TelemetryKeeps ==
  ASSUME TypeOK, Waterings, TelemetryMessage
  PROVE  Waterings'
  <1> DEFINE p == Head(toCharter)
  <1> DEFINE last == session.last_watering_seen
  <1>0. PICK key, v : key = p.key /\ v = p.lastWatering
    OBVIOUS
  <1> DEFINE new == last # None /\ v # last
  <1> USE DEF nodeVars, pumpVars
  <1>a. /\ toCharter # <<>> /\ toCharter' = Tail(toCharter) /\ ~IsKey(p)
        /\ session # None /\ key = session.key
        /\ announced' = IF new THEN Append(announced, v) ELSE announced
        /\ session' = [session EXCEPT !.last_watering_seen = v]
        /\ UNCHANGED <<boot, sLastWatering, pulses>>
    BY <1>0 DEF TelemetryMessage, Incoming, Readable, IsNew, Seen, IsKey
  <1>b. /\ toCharter \in Seq(Packet) /\ session \in SensorSession
        /\ announced \in Seq(Seconds) /\ sLastWatering \in Nat
    BY <1>a, TypeParts DEF StreamType, CharterType, NoticeType, NodeType, Seconds
  <1>c. p \in Packet /\ v \in Seconds /\ v \in Nat
    BY <1>0, <1>a, <1>b, Taken, PacketFields DEF Seconds
  <1>d. /\ session'.key = session.key /\ session'.last_watering_seen = v
        /\ v # None /\ last \in Nat \cup {None}
    BY <1>a, <1>b, <1>c, Bounds DEF SensorSession, Seconds
  <1>e. /\ OrderedReports(toCharter')
        /\ \A k, w : ReportsIn(toCharter', k, w) => ReportsIn(toCharter, k, w)
        /\ ReportsIn(toCharter, key, v)
        /\ \A w : ReportsIn(toCharter', key, w) => v <= w
    BY <1>0, <1>a, <1>b, ReportTaken DEF Waterings, ReportsReal
  <1> HIDE DEF p, last
  <1>f. Comes(key, v) /\ \A k, w : Comes(k, w)' => Comes(k, w)
    BY <1>a, <1>e DEF Comes
  <1>g. \A k : SeenUnder(k)' => k = key
    BY <1>a, <1>d DEF SeenUnder
  <1>h. \A w : Comes(key, w)' => v <= w
    <2>1. key = boot => v <= sLastWatering
      BY <1>e DEF Waterings, ReportsReal
    <2>2. QED BY <1>a, <1>e, <2>1 DEF Comes
  <1>i. new => SeenUnder(key) /\ last < v /\ v # 0 /\ v \in pulses
    <2>1. SUFFICES ASSUME new PROVE SeenUnder(key) /\ last < v /\ v # 0 /\ v \in pulses
      OBVIOUS
    <2>2. SeenUnder(key)
      BY <1>a, <2>1 DEF SeenUnder, last
    <2>3. last <= v
      BY <1>f, <2>2 DEF Waterings, SeenFirst, last
    <2>4. v \in pulses \cup {0}
      BY <1>f DEF Waterings, ReportsReal
    <2>5. last < v /\ v # 0
      BY <1>c, <1>d, <2>1, <2>3
    <2>6. QED BY <2>2, <2>4, <2>5
  <1>j. /\ announced' \in Seq(Seconds)
        /\ \A a \in DOMAIN announced : announced'[a] = announced[a]
        /\ \A a \in DOMAIN announced' :
             \/ a \in DOMAIN announced
             \/ new /\ a = Len(announced) + 1 /\ announced'[a] = v
    <2>1. CASE new
      BY <1>a, <1>b, <1>c, <2>1, Appended
    <2>2. CASE ~new
      BY <1>a, <1>b, <2>2
    <2>3. QED BY <2>1, <2>2
  <1>1. ReportsReal'
    <2>1. \A k, w : Comes(k, w)' => w \in pulses \cup {0}
      BY <1>f DEF Waterings, ReportsReal
    <2>2. \A w : ReportsIn(toCharter', boot, w) => w <= sLastWatering
      BY <1>e DEF Waterings, ReportsReal
    <2>3. QED BY <1>a, <1>e, <2>1, <2>2 DEF ReportsReal
  <1>2. SeenFirst'
    BY <1>d, <1>g, <1>h DEF SeenFirst
  <1>3. OneBoot'
    BY <1>f DEF Waterings, OneBoot
  <1>4. AnnouncedBehind'
    <2>1. ASSUME NEW a \in DOMAIN announced, NEW k, Comes(k, announced[a])
          PROVE  /\ \A w : Comes(k, w)' => announced[a] <= w
                 /\ SeenUnder(k)' => announced[a] <= v
      BY <1>f, <1>g, <2>1 DEF Waterings, AnnouncedBehind
    <2>2. ASSUME new, NEW k, Comes(k, v)
          PROVE  \A w : Comes(k, w)' => v <= w
      BY <1>f, <1>h, <1>i, <2>2 DEF Waterings, OneBoot
    <2>3. \A a \in DOMAIN announced' : \A k : Comes(k, announced'[a]) =>
            /\ \A w : Comes(k, w)' => announced'[a] <= w
            /\ SeenUnder(k)' => announced'[a] <= v
      BY <1>c, <1>j, <2>1, <2>2
    <2>4. QED BY <1>d, <1>f, <2>3 DEF AnnouncedBehind, Comes, SeenUnder
  <1>5. AnnouncedAreReal'
    BY <1>a, <1>i, <1>j DEF Waterings, AnnouncedAreReal
  <1>6. AnnouncedOnce'
    <2>1. ASSUME new, NEW a \in DOMAIN announced PROVE announced[a] # v
      <3>1. announced[a] = v => announced[a] <= last
        BY <1>f, <1>i, <2>1 DEF Waterings, AnnouncedBehind, last
      <3>2. QED BY <1>c, <1>d, <1>i, <2>1, <3>1
    <2>2. \A a, b \in DOMAIN announced : announced[a] = announced[b] => a = b
      BY DEF Waterings, AnnouncedOnce, IsInjective
    <2>3. \A a, b \in DOMAIN announced' : announced'[a] = announced'[b] => a = b
      BY <1>j, <2>1, <2>2
    <2>4. QED BY <2>3 DEF AnnouncedOnce, IsInjective
  <1>7. QED BY <1>1, <1>2, <1>3, <1>4, <1>5, <1>6 DEF Waterings

LEMMA StepWaterings ==
  ASSUME TypeOK, Times, Sessions, Waterings, [Next]_vars
  PROVE  Waterings'
  <1> USE DEF nodeVars, keyVars, charterVars, pumpVars, noticeVars
  <1>a. /\ toCharter \in Seq(Packet) /\ sLastWatering \in Nat /\ sLastWatering \in Seconds
        /\ boot \in Keys /\ retained \in Keys \cup {None}
    BY TypeParts, Bounds DEF NodeType, KeyType, StreamType, Seconds
  <1>b. OrderedReports(toCharter) /\ \A w : ReportsIn(toCharter, boot, w) => w <= sLastWatering
    BY DEF Waterings, ReportsReal
  <1>c. session' = session => \A k : SeenUnder(k)' =>
          SeenUnder(k) /\ session'.last_watering_seen = session.last_watering_seen
    BY DEF SeenUnder
  <1>1. ASSUME toCharter' = toCharter,
               UNCHANGED <<boot, sLastWatering, announced, pulses, session>>
        PROVE  Waterings'
    <2>1. OrderedReports(toCharter') /\ \A k, w : ReportsIn(toCharter', k, w) => Comes(k, w)
      BY <1>b, <1>1 DEF Comes
    <2>2. QED BY <1>a, <1>c, <1>1, <2>1, NothingNew
  <1>2. ASSUME NEW p \in Packet, toCharter' = Append(toCharter, p),
               IsKey(p) \/ (p.key = boot /\ p.lastWatering = sLastWatering),
               UNCHANGED <<boot, sLastWatering, announced, pulses, session>>
        PROVE  Waterings'
    <2>1. /\ OrderedReports(toCharter')
          /\ \A k, w : ReportsIn(toCharter', k, w) =>
               ReportsIn(toCharter, k, w) \/ (~IsKey(p) /\ k = p.key /\ w = p.lastWatering)
      <3>1. ~IsKey(p) => \A w : ReportsIn(toCharter, p.key, w) => w <= p.lastWatering
        BY <1>b, <1>2
      <3>2. QED BY <1>a, <1>b, <1>2, <3>1, ReportAppended
    <2>2. \A k, w : ReportsIn(toCharter', k, w) => Comes(k, w)
      BY <1>2, <2>1 DEF Comes
    <2>3. QED BY <1>a, <1>c, <1>2, <2>1, <2>2, NothingNew
  <1>3. CASE KeyPacket
    <2>1. UNCHANGED <<boot, sLastWatering, announced, pulses, session>>
      BY <1>3 DEF KeyPacket
    <2>2. toCharter' = toCharter \/ toCharter' = Append(toCharter, KeyOf(boot))
      <3>1. toCharter' = toCharter \/ Publish(KeyOf(boot))
        BY <1>3 DEF KeyPacket, KeyOf
      <3>2. QED BY <3>1 DEF Publish
    <2>3. KeyOf(boot) \in Packet /\ IsKey(KeyOf(boot))
      BY <1>a, PacketsMade
    <2>4. QED BY <1>1, <1>2, <2>1, <2>2, <2>3
  <1>4. CASE Report
    <2> DEFINE p == ReportOf(boot, sLastWatering)
    <2>1. UNCHANGED <<boot, sLastWatering, announced, pulses, session>>
      BY <1>4 DEF Report
    <2>2. toCharter' = toCharter \/ toCharter' = Append(toCharter, p)
      BY <1>4 DEF Report, ReportOf, Publish
    <2>3. p \in Packet /\ p.key = boot /\ p.lastWatering = sLastWatering
      BY <1>a, PacketsMade
    <2> HIDE DEF p
    <2>4. QED BY <1>1, <1>2, <2>1, <2>2, <2>3
  <1>5. CASE Water
    BY <1>5, WaterKeeps
  <1>6. CASE Reboot
    BY <1>6, RebootKeeps
  <1>7. CASE TelemetryMessage
    BY <1>7, TelemetryKeeps
  <1>8. CASE KeyMessage \/ UnreadMessage
    <2>1. /\ toCharter # <<>> /\ toCharter' = Tail(toCharter)
          /\ UNCHANGED <<boot, sLastWatering, announced, pulses>>
          /\ \/ session' = session
             \/ session' = [key |-> Head(toCharter).key, last_watering_seen |-> None]
      BY <1>8 DEF KeyMessage, UnreadMessage, Incoming
    <2>2. OrderedReports(toCharter') /\ \A k, w : ReportsIn(toCharter', k, w) => Comes(k, w)
      BY <1>a, <1>b, <2>1, ReportTaken DEF Comes
    <2>3. \A k : SeenUnder(k)' =>
            SeenUnder(k) /\ session'.last_watering_seen = session.last_watering_seen
      BY <1>c, <2>1 DEF SeenUnder
    <2>4. QED BY <1>a, <2>1, <2>2, <2>3, NothingNew
  <1>9. CASE on_connect \/ Disconnect \/ Restart
    <2>1. UNCHANGED <<boot, sLastWatering, announced, pulses>>
          /\ (session' = session \/ session' = None)
      BY <1>9 DEF on_connect, Disconnect, Restart
    <2>2. toCharter' = <<>> \/ (retained # None /\ toCharter' = <<KeyOf(retained)>>)
      <3>1. on_connect => toCharter' = IF retained = None THEN <<>> ELSE <<KeyOf(retained)>>
        BY Zenon DEF on_connect, KeyOf
      <3>2. Disconnect \/ Restart => toCharter' = <<>>
        BY DEF Disconnect, Restart
      <3>3. QED BY <1>9, <3>1, <3>2
    <2>3. DOMAIN toCharter' = {} \/ (DOMAIN toCharter' = {1} /\ IsKey(toCharter'[1]))
      <3>1. CASE toCharter' = <<>>
        BY <3>1
      <3>2. CASE retained # None /\ toCharter' = <<KeyOf(retained)>>
        <4>1. KeyOf(retained) \in Packet /\ IsKey(KeyOf(retained))
          BY <1>a, <3>2, PacketsMade
        <4>2. QED BY <3>2, <4>1, Few
      <3>3. QED BY <2>2, <3>1, <3>2
    <2>4. OrderedReports(toCharter') /\ \A k, w : ReportsIn(toCharter', k, w) => Comes(k, w)
      BY <2>3, NoReports
    <2>5. \A k : SeenUnder(k)' =>
            SeenUnder(k) /\ session'.last_watering_seen = session.last_watering_seen
      BY <1>c, <2>1 DEF SeenUnder
    <2>6. QED BY <1>a, <2>1, <2>4, <2>5, NothingNew
  <1>10. CASE \/ DropCommand \/ StaleCommand \/ TakeCommand \/ Window \/ Tick \/ UNCHANGED vars
    <2>1. UNCHANGED <<boot, sLastWatering, announced, pulses, session, toCharter>>
      BY <1>10 DEF DropCommand, StaleCommand, TakeCommand, Window, StampCommand,
                   PublishCommand, Tick, vars
    <2>2. QED BY <1>1, <2>1
  <1>11. QED BY <1>3, <1>4, <1>5, <1>6, <1>7, <1>8, <1>9, <1>10 DEF Next, Node, Client

LEMMA WateringsAlways == Spec => []Waterings
  <1>1. TypeOK /\ Times /\ Sessions /\ Waterings /\ [Next]_vars => Waterings'
    BY StepWaterings
  <1>2. QED BY <1>1, InitWaterings, TypeCorrect, TimesAlways, SessionsAlways, PTL DEF Spec

\* What Charter announces is a pulse of the pump at a known time, across any restarts.
THEOREM AnnouncedReal == Spec => []AnnouncedAreReal
  <1>1. Waterings => AnnouncedAreReal
    BY DEF Waterings
  <1>2. QED BY <1>1, WateringsAlways, PTL

\* Nothing is announced twice, across any restarts.
THEOREM Once == Spec => []AnnouncedOnce
  <1>1. Waterings => AnnouncedOnce
    BY DEF Waterings
  <1>2. QED BY <1>1, WateringsAlways, PTL

-----------------------------------------------------------------------------
(* Missed waterings *)

\* Unless the key packet of the last report read has come back since, a session under
\* that key has seen this report.
Remembers ==
  /\ lastRead # None => ~IsKey(lastRead)
  /\ \/ rejoined
     \/ lastRead # None /\ session # None /\ lastRead.key = session.key
          => session.last_watering_seen = lastRead.lastWatering

\* A step keeps the memory; one that reads a report announces a change it remembers.
LEMMA StepRemembers ==
  ASSUME TypeOK, Remembers, [Next]_vars
  PROVE  Remembers' /\ (Unannounced => rejoined)
  <1> USE DEF nodeVars, keyVars, charterVars, pumpVars, noticeVars
  <1>a. /\ toCharter \in Seq(Packet) /\ session \in SensorSession \cup {None}
        /\ lastRead \in Packet \cup {None} /\ announced \in Seq(Seconds)
    BY TypeParts DEF StreamType, CharterType, NoticeType
  <1>1. CASE KeyMessage
    <2>1. /\ session'.key = Head(toCharter).key
          /\ rejoined' = (rejoined \/ (lastRead # None /\ lastRead.key = Head(toCharter).key))
          /\ UNCHANGED lastRead
      BY <1>1 DEF KeyMessage
    <2>2. QED BY <2>1 DEF Remembers, Unannounced
  <1>2. CASE TelemetryMessage
    <2> DEFINE p == Head(toCharter)
    <2>0. /\ toCharter # <<>> /\ p.topic = "telemetry" /\ session # None /\ p.key = session.key
          /\ session' = [session EXCEPT !.last_watering_seen = p.lastWatering]
          /\ lastRead' = p
      BY <1>2 DEF TelemetryMessage, Incoming, Readable, Seen
    <2>1. announced' = IF IsNew(session.last_watering_seen, p.lastWatering)
                       THEN Append(announced, p.lastWatering) ELSE announced
      BY <1>2 DEF TelemetryMessage
    <2>2. p \in Packet /\ ~IsKey(p)
      BY <1>a, <2>0, Taken DEF IsKey
    <2>3. session'.last_watering_seen = p.lastWatering
      BY <1>a, <2>0 DEF SensorSession
    <2>4. p.lastWatering \in Seconds
      BY <2>2, PacketFields
    <2> HIDE DEF p
    <2>5. Remembers'
      BY <2>0, <2>2, <2>3 DEF Remembers
    <2>6. ASSUME Unannounced, ~rejoined PROVE FALSE
      <3>1. /\ lastRead # None /\ lastRead.key = session.key /\ ~IsKey(lastRead)
            /\ lastRead.lastWatering # p.lastWatering
        BY <2>0, <2>6 DEF Unannounced, Remembers
      <3>2. session.last_watering_seen = lastRead.lastWatering
        BY <2>0, <2>6, <3>1 DEF Remembers
      <3>3. lastRead.lastWatering # None
        BY <1>a, <3>1, PacketFields, Bounds DEF Seconds
      <3>4. IsNew(session.last_watering_seen, p.lastWatering)
        BY <3>1, <3>2, <3>3 DEF IsNew
      <3>5. announced' = Append(announced, p.lastWatering) /\ announced' # announced
        BY <1>a, <2>1, <2>4, <3>4, Appended
      <3>6. QED BY <2>6, <3>5 DEF Unannounced
    <2>7. QED BY <2>5, <2>6
  <1>3. CASE Restart
    BY <1>3 DEF Restart, Remembers, Unannounced
  <1>4. CASE \/ Node \/ on_connect \/ Disconnect \/ UnreadMessage \/ Window \/ Tick
             \/ UNCHANGED vars
    <2>1. UNCHANGED <<session, lastRead, rejoined>>
      BY <1>4
         DEF Node, Reboot, Water, KeyPacket, Report, DropCommand, StaleCommand, TakeCommand,
             on_connect, Disconnect, UnreadMessage, Incoming, Window, StampCommand,
             PublishCommand, Tick, vars
    <2>2. QED BY <2>1 DEF Remembers, Unannounced
  <1>5. QED BY <1>1, <1>2, <1>3, <1>4 DEF Next, Client

\* A change between two reports of a boot read one after the other is announced, unless
\* its key packet came back between these two, whatever happened before.
THEOREM OnlyAfterRejoin == Spec => MissedOnlyAfterRejoin
  <1>1. Init => Remembers
    BY DEF Init, Remembers
  <1>2. TypeOK /\ Remembers /\ [Next]_vars => Remembers' /\ [Unannounced => rejoined]_vars
    BY StepRemembers
  <1>3. QED BY <1>1, <1>2, TypeCorrect, PTL DEF Spec, MissedOnlyAfterRejoin

=============================================================================

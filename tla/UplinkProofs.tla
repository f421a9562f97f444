---------------------------- MODULE UplinkProofs ----------------------------
(***************************************************************************)
(* The uplink under every combination of faults, for queues of any length, *)
(* any number of polls and anything that others may say on the topic.      *)
(***************************************************************************)
EXTENDS Uplink, StreamLemmas, SequenceTheorems, TLAPS

\* The item is counted by ack_callback.
IsAck(item) == item.kind # "ra"

\* Without a live connection nothing is under way, and before it there is none.
Streams ==
  /\ handle # "live" => up = <<>> /\ down = <<>>
  /\ pc \in {"network", "connect"} => handle = "none" /\ answered = {}
  /\ pc = "poll" => polls # 0

\* The topics whose subscription has left the node.
Sent == CASE pc = "subscribeAttestation" -> {"commands"}
          [] pc = "subAcks"              -> Topics
          [] OTHER                       -> {}

\* While the node subscribes, each subscription it has sent is in one place: on its way,
\* as an acknowledgement on its way back, or counted.
Subscribing ==
  pc \in {"subscribeCommands", "subscribeAttestation", "subAcks"} =>
    /\ expected = 2
    /\ sAckReceived = IF answered = {} THEN 0 ELSE IF answered = Topics THEN 2 ELSE 1
    /\ pc # "subAcks" => answered = {}
    /\ \A i \in DOMAIN up : up[i].of \in Sent \ answered
    /\ \A i \in DOMAIN down : IsAck(down[i]) => down[i].of \in Sent \ answered
    /\ \A i, j \in DOMAIN up : up[i].of = up[j].of => i = j
    /\ \A i, j \in DOMAIN down :
         IsAck(down[i]) /\ IsAck(down[j]) /\ down[i].of = down[j].of => i = j
    /\ \A i \in DOMAIN up, j \in DOMAIN down : IsAck(down[j]) => up[i].of # down[j].of

\* No acknowledgement is to come.
Quiet == up = <<>> /\ \A i \in DOMAIN down : ~IsAck(down[i])

\* At most one is to come, and it is not late.
OneUnderWay ==
  /\ Len(up) <= 1
  /\ \A i \in DOMAIN up : ~up[i].late
  /\ \A i \in DOMAIN down : IsAck(down[i]) => ~down[i].late
  /\ \A i, j \in DOMAIN down : IsAck(down[i]) /\ IsAck(down[j]) => i = j
  /\ \A i \in DOMAIN up, j \in DOMAIN down : ~IsAck(down[j])

\* As long as no publish has failed, a wait starts with nothing under way but its own
\* packet.
Counting ==
  failed = {} =>
    /\ pc \in Publishes \cup {"poll"} => Quiet
    /\ pc \in Waits \ {"subAcks"} =>
         /\ expected = 1
         /\ \/ sAckReceived = 0 /\ OneUnderWay
            \/ sAckReceived = 1 /\ acked /\ Quiet

\* Where a confirmation can be before telemetry_loop acts on it; what the slot holds
\* has been heard since it was drained, and it is free only while nothing has been.
Gate ==
  /\ sAttested => confirmed
  /\ slot \in Confirmations => confirmed
  /\ slot = "empty" => heard = {}
  /\ slot # "empty" => slot \in heard

HasTelemetry(s) == \E i \in DOMAIN s : s[i].of = "telemetry"

\* The key is under way, before any report.
KeyComes(s) ==
  \E i \in DOMAIN s : /\ s[i].of = "key"
                      /\ \A j \in DOMAIN s : s[j].of = "telemetry" => i < j

KeyFirst ==
  /\ pc \in Connecting \cup {"ping", "pingAck", "key"} => ~sSessionReady
  /\ ~sSessionReady => ~telemetryAtBroker /\ ~HasTelemetry(up)
  /\ sSessionReady /\ handle = "live" => keyAtBroker \/ "key" \in failed \/ KeyComes(up)

Inv ==
  /\ TypeOK /\ Streams /\ Subscribing /\ Counting /\ Gate /\ KeyFirst
  /\ ConnectAwaitsBoth /\ CountTrueUntilFailure /\ TelemetryGated /\ KeyBeforeTelemetry

-----------------------------------------------------------------------------
(* Sequences *)

\* What the broker adds: an acknowledgement, perhaps with an echo at either side of it.
LEMMA Delivered ==
  ASSUME NEW s \in Seq(Item), NEW a \in Item, NEW e \in Item, IsAck(a), ~IsAck(e),
         NEW t \in {s \o <<a>> \o <<>>, s \o <<>> \o <<a>>,
                    s \o <<a>> \o <<e>>, s \o <<e>> \o <<a>>}
  PROVE  /\ t \in Seq(Item)
         /\ \A i \in DOMAIN t : IsAck(t[i]) => t[i] = a \/ (i \in DOMAIN s /\ t[i] = s[i])
         /\ \A i, j \in DOMAIN t : IsAck(t[i]) /\ IsAck(t[j]) =>
              \/ i = j
              \/ i \in DOMAIN s /\ t[i] = s[i]
              \/ j \in DOMAIN s /\ t[j] = s[j]
  <1>1. CASE t = s \o <<a>> \o <<>>
    BY <1>1
  <1>2. CASE t = s \o <<>> \o <<a>>
    BY <1>2
  <1>3. CASE t = s \o <<a>> \o <<e>>
    BY <1>3
  <1>4. CASE t = s \o <<e>> \o <<a>>
    BY <1>4
  <1>5. QED BY <1>1, <1>2, <1>3, <1>4

LEMMA Marked ==
  ASSUME NEW T \in {Packet, Item}, NEW s \in Seq(T)
  PROVE  /\ MarkLate(s) \in Seq(T) /\ DOMAIN MarkLate(s) = DOMAIN s
         /\ \A i \in DOMAIN s : MarkLate(s)[i].of = s[i].of
         /\ s = <<>> => MarkLate(s) = <<>>
  <1>1. ASSUME NEW i \in DOMAIN s
        PROVE  /\ MarkLate(s)[i] \in T
               /\ MarkLate(s)[i].of = s[i].of
    <2>1. s[i] \in T OBVIOUS
    <2>2. CASE T = Packet
      BY <2>1, <2>2 DEF MarkLate, Packet
    <2>3. CASE T = Item
      <3>1. "yes" \notin Topics \cup Publishes /\ "otherYes" \notin Topics \cup Publishes
            /\ "no" \notin Topics \cup Publishes /\ "echo" \notin Topics \cup Publishes
        BY DEF Topics, Publishes
      <3>2. QED BY <2>1, <2>3, <3>1 DEF MarkLate, Item, Replies
    <2>4. QED BY <2>2, <2>3
  <1>2. Len(s) \in Nat /\ DOMAIN s = 1 .. Len(s)
    OBVIOUS
  <1>3. MarkLate(s) \in [1 .. Len(s) -> T]
    BY <1>1, <1>2 DEF MarkLate
  <1>4. MarkLate(s) \in Seq(T) /\ Len(MarkLate(s)) = Len(s)
    BY <1>2, <1>3
  <1>5. QED BY <1>1, <1>2, <1>3, <1>4

-----------------------------------------------------------------------------
(* Steps of the thread that send nothing *)

\* Where telemetry_loop is before, while and after it publishes.
LEMMA Places ==
  ASSUME NEW p \in Publishes
  PROVE  /\ WaitOf(p) \in Waits \ {"subAcks"} /\ After(p) \in Publishes \cup {"poll"}
         /\ {WaitOf(p), After(p), p} \subseteq PCs \ Connecting
         /\ WaitOf(p) \notin Publishes \cup {"poll"} /\ After(p) \notin Waits \cup {"ping"}
         /\ WaitOf(p) = "pingAck" <=> p = "ping"
         /\ After(p) = "key" <=> p = "ping"
         /\ After(p) = "poll" <=> p = "telemetry"
  BY DEF Publishes, WaitOf, After, Waits, PCs, Connecting

StreamType == up \in Seq(Packet) /\ down \in Seq(Item)
PlaceType  == pc \in PCs /\ handle \in {"none", "live", "dead"} /\ polls \in 0 .. PollsPerCycle
CountType  ==
  /\ sAckReceived \in Nat /\ expected \in Nat
  /\ acked \in BOOLEAN /\ okUnacked \in BOOLEAN /\ failed \subseteq Publishes
AnswerType ==
  /\ slot \in Replies \cup {"empty"} /\ confirmed \in BOOLEAN /\ heard \subseteq Replies
  /\ sAttested \in BOOLEAN /\ sSessionReady \in BOOLEAN
  /\ subscribed \subseteq Topics /\ asked \in 0 .. MaxQueue /\ answered \subseteq Topics
  /\ keyAtBroker \in BOOLEAN /\ telemetryAtBroker \in BOOLEAN

LEMMA TypeParts ==
  /\ TypeOK <=> StreamType /\ PlaceType /\ CountType /\ AnswerType
  /\ TypeOK' <=> StreamType' /\ PlaceType' /\ CountType' /\ AnswerType'
  BY DEF TypeOK, StreamType, PlaceType, CountType, AnswerType

LEMMA InitInv == Init => Inv
  <1> SUFFICES ASSUME Init PROVE Inv
    OBVIOUS
  <1> USE UplinkAssumption DEF Init
  <1>1. TypeOK
    <2>1. StreamType BY DEF StreamType
    <2>2. PlaceType BY DEF PlaceType, PCs, Connecting
    <2>3. CountType BY DEF CountType
    <2>4. 0 \in 0 .. MaxQueue BY SMT
    <2>5. AnswerType BY <2>4, Zenon DEF AnswerType
    <2>6. QED BY <2>1, <2>2, <2>3, <2>5, TypeParts
  <1>2. Streams /\ Subscribing /\ Counting
    BY DEF Streams, Subscribing, Counting, Publishes, Waits
  <1>3. Gate /\ KeyFirst
    BY DEF Gate, KeyFirst, Confirmations, HasTelemetry
  <1>4. ConnectAwaitsBoth /\ CountTrueUntilFailure /\ TelemetryGated /\ KeyBeforeTelemetry
    BY DEF ConnectAwaitsBoth, CountTrueUntilFailure, TelemetryGated, KeyBeforeTelemetry,
           Connecting
  <1>5. QED BY <1>1, <1>2, <1>3, <1>4 DEF Inv

\* Steps to another place that leave the counts and the streams alone.
LEMMA QuietStep ==
  ASSUME Inv, UNCHANGED <<ackVars, netVars>>,
         \/ Synchronise \/ ConnectRefused \/ Subscribed \/ NoSession \/ SkipQuery
         \/ Withhold \/ Drain
  PROVE  Inv'
  <1> USE DEF ackVars, netVars, connVars, raVars, cycleVars
  <1>a. TypeOK /\ Streams /\ Subscribing /\ Counting /\ Gate /\ KeyFirst
    BY DEF Inv
  <1>b. StreamType /\ PlaceType /\ CountType /\ AnswerType
    BY <1>a, TypeParts
  <1>1. TypeOK'
    <2>1. StreamType' /\ CountType'
      BY <1>b DEF StreamType, CountType
    <2>2. PlaceType'
      BY <1>a, <1>b, UplinkAssumption
         DEF PlaceType, Streams, PCs, Connecting, Waits, Publishes, After,
             Synchronise, ConnectRefused, Subscribed, NoSession, SkipQuery, Withhold, Drain
    <2>3. AnswerType'
      BY <1>b
         DEF AnswerType, Confirms,
             Synchronise, ConnectRefused, Subscribed, NoSession, SkipQuery, Withhold, Drain
    <2>4. QED BY <2>1, <2>2, <2>3, TypeParts
  <1>2. Streams'
      BY <1>a, <1>b, UplinkAssumption
         DEF PlaceType, Streams, After,
             Synchronise, ConnectRefused, Subscribed, NoSession, SkipQuery, Withhold, Drain
  <1>3. Subscribing'
      BY <1>a
         DEF Subscribing, After,
             Synchronise, ConnectRefused, Subscribed, NoSession, SkipQuery, Withhold, Drain
  <1>4. Counting'
    <2>1. Quiet' = Quiet /\ OneUnderWay' = OneUnderWay
      BY DEF Quiet, OneUnderWay
    <2>2. CASE Subscribed
      <3>1. answered = Topics /\ Sent = Topics /\ pc' = "ping"
        BY <1>a, <2>2 DEF Subscribed, Subscribing, Sent
      <3>2. Quiet
        BY <1>a, <1>b, <2>2, <3>1 DEF Subscribed, Subscribing, Quiet, StreamType
      <3>3. QED BY <2>1, <3>1, <3>2 DEF Counting, Waits
    <2>3. CASE ~Subscribed
      <3>1. \/ pc \in Publishes \cup {"poll"} /\ pc' \in Publishes \cup {"poll"}
            \/ pc' \in {"network", "connect"}
        BY <2>3
           DEF Synchronise, ConnectRefused, NoSession, SkipQuery, Withhold, Drain,
               Publishes, After
      <3>2. QED BY <1>a, <2>1, <3>1 DEF Counting, Waits, Publishes
    <2>4. QED BY <2>2, <2>3
  <1>5. Gate'
    <2>1. CASE Drain
      <3>1. Confirms(slot) => slot \in Confirmations
        BY DEF Confirms, Confirmations
      <3>2. /\ slot' = "empty" /\ heard' = {} /\ confirmed' = confirmed
            /\ sAttested' => sAttested \/ Confirms(slot)
        BY <2>1, Zenon DEF Drain
      <3>3. QED BY <1>a, <3>1, <3>2 DEF Gate, Confirmations
    <2>2. CASE ~Drain
      BY <1>a, <2>2
         DEF Gate, Synchronise, ConnectRefused, Subscribed, NoSession, SkipQuery, Withhold
    <2>3. QED BY <2>1, <2>2
  <1>6. KeyFirst'
    <2>1. HasTelemetry(up)' = HasTelemetry(up) /\ KeyComes(up)' = KeyComes(up)
      BY DEF HasTelemetry, KeyComes
    <2>2. pc' \in Connecting \cup {"ping", "pingAck", "key"}
            => pc \in Connecting \cup {"ping", "pingAck", "key"}
      BY <1>b
         DEF Connecting, After,
             Synchronise, ConnectRefused, Subscribed, NoSession, SkipQuery, Withhold, Drain
    <2>3. UNCHANGED <<sSessionReady, handle>>
      BY DEF Synchronise, ConnectRefused, Subscribed, NoSession, SkipQuery, Withhold, Drain
    <2>4. QED BY <1>a, <2>1, <2>2, <2>3 DEF KeyFirst
  <1>7. ConnectAwaitsBoth'
    <2>1. CASE Subscribed
      BY <1>a, <2>1 DEF Subscribed, Subscribing, ConnectAwaitsBoth
    <2>2. CASE ~Subscribed
      BY <2>2
         DEF Inv, ConnectAwaitsBoth, Connecting, After,
             Synchronise, ConnectRefused, NoSession, SkipQuery, Withhold, Drain
    <2>3. QED BY <2>1, <2>2
  <1>8. CountTrueUntilFailure' /\ KeyBeforeTelemetry'
    BY DEF Inv, CountTrueUntilFailure, KeyBeforeTelemetry
  <1>9. TelemetryGated'
    <2>1. UNCHANGED confirmed
      BY DEF Synchronise, ConnectRefused, Subscribed, NoSession, SkipQuery, Withhold, Drain
    <2>2. QED BY <2>1 DEF Inv, TelemetryGated
  <1>10. QED BY <1>1, <1>2, <1>3, <1>4, <1>5, <1>6, <1>7, <1>8, <1>9 DEF Inv

\* The connection is made.
LEMMA ConnectStep ==
  ASSUME Inv, Connect
  PROVE  Inv'
  <1> USE DEF Connect, FirstAcks, netVars, raVars, cycleVars
  <1>a. TypeOK /\ Streams /\ KeyFirst /\ Gate
    BY DEF Inv
  <1>b. StreamType /\ PlaceType /\ CountType /\ AnswerType
    BY <1>a, TypeParts
  <1>c. up = <<>> /\ down = <<>> /\ answered = {} /\ ~sSessionReady
    BY <1>a DEF Streams, KeyFirst, Connecting
  <1>1. StreamType' /\ PlaceType'
    BY <1>b DEF StreamType, PlaceType, PCs, Connecting
  <1>2. CountType' /\ AnswerType'
    BY <1>b DEF CountType, AnswerType
  <1>3. TypeOK'
    BY <1>1, <1>2, TypeParts
  <1>4. Streams' /\ Subscribing'
    BY <1>c DEF Streams, Subscribing
  <1>5. Counting'
    BY DEF Counting, Publishes, Waits
  <1>6. Gate'
    BY <1>a DEF Gate
  <1>7. KeyFirst'
    BY <1>a, <1>c DEF KeyFirst, HasTelemetry
  <1>8. ConnectAwaitsBoth'
    BY DEF ConnectAwaitsBoth, Connecting
  <1>9. CountTrueUntilFailure' /\ TelemetryGated' /\ KeyBeforeTelemetry'
    BY DEF Inv, CountTrueUntilFailure, TelemetryGated, KeyBeforeTelemetry
  <1>10. QED BY <1>3, <1>4, <1>5, <1>6, <1>7, <1>8, <1>9 DEF Inv

\* A subscription goes out, behind what is under way.
LEMMA SubscribeKeeps ==
  ASSUME Inv, NEW topic, NEW from, NEW to,
         \/ /\ topic = "commands"
            /\ from = "subscribeCommands" /\ to = "subscribeAttestation"
         \/ /\ topic = "attestation"
            /\ from = "subscribeAttestation" /\ to = "subAcks",
         Subscribe(topic, from, to)
  PROVE  Inv'
  <1> DEFINE e == [of |-> topic, late |-> FALSE]
  <1> USE DEF Subscribe, Send, connVars, ackVars, raVars, cycleVars
  <1>a. TypeOK /\ Streams /\ KeyFirst /\ Gate /\ Subscribing
    BY DEF Inv
  <1>b. StreamType /\ PlaceType /\ CountType /\ AnswerType
    BY <1>a, TypeParts
  <1>c. e \in Packet /\ up \in Seq(Packet) /\ up' = Append(up, e) /\ down' = down
    BY <1>b DEF Packet, Topics, StreamType
  <1> HIDE DEF e
  <1>d. /\ up' \in Seq(Packet)
        /\ DOMAIN up \subseteq DOMAIN up'
        /\ \A i \in DOMAIN up : up'[i] = up[i]
        /\ \A i \in DOMAIN up' :
             \/ i \in DOMAIN up
             \/ i = Len(up) + 1 /\ up'[i] = e /\ \A j \in DOMAIN up : j < i
    BY <1>c, Appended
  <1>0. StreamType'
    BY <1>b, <1>c, <1>d DEF StreamType
  <1>1. PlaceType'
    <2>1. pc' \in PCs
      BY DEF PCs, Connecting, Waits
    <2>2. QED BY <1>b, <2>1 DEF PlaceType
  <1>2. CountType' /\ AnswerType'
    BY <1>b DEF CountType, AnswerType
  <1>3. TypeOK'
    BY <1>0, <1>1, <1>2, TypeParts
  <1>4. Streams'
    BY <1>a DEF Streams
  <1>5. Subscribing'
    <2>1. topic \notin Sent /\ Sent' = Sent \cup {topic} /\ answered = {} /\ answered' = {}
      BY <1>a DEF Sent, Subscribing, Topics
    <2>2. \A i \in DOMAIN up : up[i].of \in Sent /\ up[i].of # topic
      BY <1>a, <2>1 DEF Subscribing
    <2>3. \A i \in DOMAIN down : IsAck(down[i]) => down[i].of \in Sent /\ down[i].of # topic
      BY <1>a, <2>1 DEF Subscribing
    <2>0. e.of = topic
      BY DEF e
    <2>4. \A i \in DOMAIN up' : up'[i].of \in Sent' \ answered'
      BY <1>d, <2>0, <2>1, <2>2
    <2>5. \A i, j \in DOMAIN up' : up'[i].of = up'[j].of => i = j
      BY <1>a, <1>d, <2>0, <2>2 DEF Subscribing
    <2>6. \A i \in DOMAIN up', j \in DOMAIN down :
            IsAck(down[j]) => up'[i].of # down[j].of
      BY <1>a, <1>d, <2>0, <2>3 DEF Subscribing
    <2>7. QED BY <1>a, <1>c, <2>1, <2>3, <2>4, <2>5, <2>6 DEF Subscribing
  <1>6. Counting'
    BY DEF Counting, Publishes, Waits
  <1>7. Gate'
    BY <1>a DEF Gate
  <1>8. KeyFirst'
    <2>1. ~sSessionReady /\ ~HasTelemetry(up)
      BY <1>a DEF KeyFirst, Connecting
    <2>2. ~HasTelemetry(up')
      BY <1>d, <2>1 DEF HasTelemetry, e
    <2>3. QED BY <1>a, <2>1, <2>2 DEF KeyFirst, Connecting, HasTelemetry
  <1>9. TelemetryGated'
    <2>1. HasTelemetry(up') => HasTelemetry(up)
      BY <1>d DEF HasTelemetry, e
    <2>2. QED BY <2>1 DEF Inv, TelemetryGated, HasTelemetry
  <1>10. ConnectAwaitsBoth'
    BY DEF ConnectAwaitsBoth, Connecting
  <1>11. CountTrueUntilFailure' /\ KeyBeforeTelemetry'
    BY DEF Inv, CountTrueUntilFailure, KeyBeforeTelemetry
  <1>12. QED BY <1>3, <1>4, <1>5, <1>6, <1>7, <1>8, <1>9, <1>10, <1>11 DEF Inv

\* The attempt is given up, and the connection closed.
LEMMA GiveUpStep ==
  ASSUME Inv, GiveUp
  PROVE  Inv'
  <1> USE DEF GiveUp, ackVars, raVars, cycleVars
  <1>a. TypeOK /\ Streams /\ KeyFirst /\ Gate
    BY DEF Inv
  <1>b. StreamType /\ PlaceType /\ CountType /\ AnswerType
    BY <1>a, TypeParts
  <1>1. StreamType' /\ PlaceType'
    BY <1>b DEF StreamType, PlaceType, PCs, Connecting
  <1>2. CountType' /\ AnswerType'
    BY <1>b DEF CountType, AnswerType
  <1>3. TypeOK'
    BY <1>1, <1>2, TypeParts
  <1>4. Streams' /\ Subscribing' /\ Counting'
    BY DEF Streams, Subscribing, Counting, Publishes, Waits
  <1>5. Gate'
    BY <1>a DEF Gate
  <1>6. KeyFirst'
    BY <1>a DEF KeyFirst, HasTelemetry, Connecting
  <1>7. ConnectAwaitsBoth' /\ CountTrueUntilFailure' /\ KeyBeforeTelemetry'
    BY DEF Inv, ConnectAwaitsBoth, Connecting, CountTrueUntilFailure, KeyBeforeTelemetry
  <1>8. TelemetryGated'
    BY DEF Inv, TelemetryGated
  <1>9. QED BY <1>3, <1>4, <1>5, <1>6, <1>7, <1>8 DEF Inv

-----------------------------------------------------------------------------
(* Publishing *)

\* t is s, perhaps with packets about p behind it.
Grows(s, t, p) ==
  /\ DOMAIN s \subseteq DOMAIN t
  /\ \A i \in DOMAIN s : t[i] = s[i]
  /\ \A i \in DOMAIN t : i \notin DOMAIN s => t[i].of = p /\ \A j \in DOMAIN s : j < i

LEMMA SentGrows ==
  ASSUME NEW s \in Seq(Packet), NEW e \in Packet, NEW t, t = Append(s, e)
  PROVE  /\ t \in Seq(Packet) /\ Len(t) = Len(s) + 1 /\ Grows(s, t, e.of)
         /\ t[Len(t)] = e /\ Len(t) \in DOMAIN t /\ Len(t) \notin DOMAIN s
  <1>1. /\ t \in Seq(Packet) /\ Len(t) = Len(s) + 1 /\ t[Len(t)] = e
        /\ Len(t) \in DOMAIN t /\ Len(t) \notin DOMAIN s
    OBVIOUS
  <1>2. Grows(s, t, e.of)
    BY Appended DEF Grows
  <1>3. QED BY <1>1, <1>2

LEMMA GrowsKeeps ==
  ASSUME NEW s, NEW t, NEW p, Grows(s, t, p)
  PROVE  /\ HasTelemetry(t) => HasTelemetry(s) \/ p = "telemetry"
         /\ KeyComes(s) => KeyComes(t)
  <1>1. HasTelemetry(t) => HasTelemetry(s) \/ p = "telemetry"
    BY DEF Grows, HasTelemetry
  <1>2. ASSUME KeyComes(s) PROVE KeyComes(t)
    <2>1. PICK i \in DOMAIN s : /\ s[i].of = "key"
                                /\ \A j \in DOMAIN s : s[j].of = "telemetry" => i < j
      BY <1>2 DEF KeyComes
    <2>2. i \in DOMAIN t /\ t[i].of = "key"
      BY <2>1 DEF Grows
    <2>3. ASSUME NEW j \in DOMAIN t, t[j].of = "telemetry" PROVE i < j
      BY <2>1, <2>3 DEF Grows
    <2>4. QED BY <2>2, <2>3 DEF KeyComes
  <1>3. QED BY <1>1, <1>2

\* What the loop has done before it publishes p, and after.
Allowed(p) ==
  /\ p # "key" => sSessionReady' = sSessionReady
  /\ p = "key" => sSessionReady' = TRUE
  /\ p = "telemetry" => sAttested /\ sSessionReady /\ polls' = PollsPerCycle
  /\ polls' \in {polls, PollsPerCycle}
  /\ UNCHANGED <<connVars, raVars>>

LEMMA PublishKeeps ==
  ASSUME Inv, NEW p \in Publishes, Publish(p), Allowed(p)
  PROVE  Inv'
  <1> USE DEF connVars, raVars
  <1>a. TypeOK /\ Streams /\ Counting /\ Gate /\ KeyFirst /\ ConnectAwaitsBoth
    BY DEF Inv
  <1>b. StreamType /\ PlaceType /\ CountType /\ AnswerType
    BY <1>a, TypeParts
  <1>c. /\ pc = p /\ pc' = WaitOf(p) /\ pc' \in PCs /\ pc \notin Connecting /\ pc' \notin Connecting
        /\ pc' \notin Publishes \cup {"poll"} /\ pc' \in Waits \ {"subAcks"}
        /\ pc' = "pingAck" => p = "ping"
    BY Places DEF Publish
  <1>d. /\ handle = "live" /\ up' = Append(up, [of |-> p, late |-> FALSE])
        /\ UNCHANGED <<down, asked, keyAtBroker, telemetryAtBroker, failed, okUnacked>>
        /\ sAckReceived' = 0 /\ expected' = 1 /\ acked' = FALSE
    BY DEF Publish, Send, StartCount, Wanted
  <1>e. UNCHANGED <<handle, subscribed, answered, slot, sAttested, confirmed, heard>>
    BY DEF Allowed
  <1>f. /\ up' \in Seq(Packet) /\ Len(up') = Len(up) + 1 /\ Grows(up, up', p)
        /\ up'[Len(up')] = [of |-> p, late |-> FALSE] /\ Len(up') \in DOMAIN up'
        /\ Len(up') \notin DOMAIN up
    <2> DEFINE e == [of |-> p, late |-> FALSE]
    <2>1. up \in Seq(Packet) /\ e \in Packet /\ e.of = p
      BY <1>b DEF StreamType, Packet
    <2>2. up' = Append(up, e)
      BY <1>d
    <2> HIDE DEF e
    <2>3. /\ up' \in Seq(Packet) /\ Len(up') = Len(up) + 1 /\ Grows(up, up', e.of)
          /\ up'[Len(up')] = e /\ Len(up') \in DOMAIN up' /\ Len(up') \notin DOMAIN up
      BY <2>1, <2>2, SentGrows
    <2>4. Grows(up, up', p)
      BY <2>1, <2>3
    <2>5. QED BY <2>3, <2>4 DEF e
  <1>g. sSessionReady' \in BOOLEAN /\ polls' \in 0 .. PollsPerCycle
    <2>1. PollsPerCycle \in 0 .. PollsPerCycle /\ polls \in 0 .. PollsPerCycle
      BY <1>b, UplinkAssumption DEF PlaceType
    <2>2. sSessionReady \in BOOLEAN
      BY <1>b DEF AnswerType
    <2>3. QED BY <2>1, <2>2, Zenon DEF Allowed
  <1>1. TypeOK'
    <2>1. StreamType' /\ PlaceType'
      BY <1>b, <1>c, <1>d, <1>e, <1>f, <1>g DEF StreamType, PlaceType
    <2>2. CountType'
      BY <1>b, <1>d DEF CountType
    <2>3. AnswerType'
      BY <1>b, <1>d, <1>e, <1>g DEF AnswerType
    <2>4. QED BY <2>1, <2>2, <2>3, TypeParts
  <1>2. Streams' /\ Subscribing'
    BY <1>c, <1>d, <1>e DEF Streams, Subscribing, Connecting
  <1>3. Counting'
    <2>1. SUFFICES ASSUME failed = {} PROVE OneUnderWay'
      BY <1>c, <1>d DEF Counting
    <2>2. up = <<>> /\ \A i \in DOMAIN down : ~IsAck(down[i])
      BY <1>a, <1>c, <2>1 DEF Counting, Quiet
    <2>3. Len(up') = 1 /\ up'[1] = [of |-> p, late |-> FALSE] /\ DOMAIN up' = {1}
      BY <1>f, <2>2
    <2>4. QED BY <1>d, <2>2, <2>3 DEF OneUnderWay
  <1>4. Gate'
    BY <1>a, <1>e DEF Gate
  <1>5. KeyFirst'
    <2>1. pc' \in Connecting \cup {"ping", "pingAck", "key"} => ~sSessionReady'
      BY <1>a, <1>c DEF KeyFirst, Allowed, Waits
    <2>2. ~sSessionReady' => ~telemetryAtBroker' /\ ~HasTelemetry(up')
      BY <1>a, <1>d, <1>f, GrowsKeeps DEF KeyFirst, Allowed
    <2>3. CASE p = "key"
      <3>1. ~HasTelemetry(up)
        BY <1>a, <1>c, <2>3 DEF KeyFirst
      <3>2. ~HasTelemetry(up')
        BY <1>f, <2>3, <3>1, GrowsKeeps
      <3>3. KeyComes(up')
        BY <1>f, <2>3, <3>2 DEF KeyComes, HasTelemetry
      <3>4. QED BY <2>1, <2>2, <3>3 DEF KeyFirst, HasTelemetry, KeyComes
    <2>4. CASE p # "key"
      <3>1. sSessionReady' => keyAtBroker' \/ "key" \in failed' \/ KeyComes(up')
        BY <1>a, <1>d, <1>f, <2>4, GrowsKeeps DEF KeyFirst, Allowed
      <3>2. QED BY <2>1, <2>2, <3>1 DEF KeyFirst, HasTelemetry, KeyComes
    <2>5. QED BY <2>3, <2>4
  <1>6. ConnectAwaitsBoth'
    BY <1>a, <1>c, <1>e DEF ConnectAwaitsBoth
  <1>7. CountTrueUntilFailure' /\ KeyBeforeTelemetry'
    BY <1>d DEF Inv, CountTrueUntilFailure, KeyBeforeTelemetry
  <1>8. TelemetryGated'
    <2>1. HasTelemetry(up') => HasTelemetry(up) \/ sAttested
      BY <1>f, GrowsKeeps DEF Allowed
    <2>2. QED BY <1>a, <1>d, <1>e, <2>1
              DEF Inv, TelemetryGated, HasTelemetry, Gate, Confirmations
  <1>9. QED BY <1>1, <1>2, <1>3, <1>4, <1>5, <1>6, <1>7, <1>8 DEF Inv

\* A publish that fails, with its packet gone out or not.
LEMMA PublishFailsKeeps ==
  ASSUME Inv, NEW p \in Publishes, PublishFails(p), Allowed(p)
  PROVE  Inv'
  <1> USE DEF connVars, raVars
  <1>a. TypeOK /\ Streams /\ Gate /\ KeyFirst /\ ConnectAwaitsBoth
    BY DEF Inv
  <1>b. StreamType /\ PlaceType /\ CountType /\ AnswerType
    BY <1>a, TypeParts
  <1>c. /\ pc = p /\ pc' = After(p) /\ pc' \in PCs /\ pc \notin Connecting /\ pc' \notin Connecting
        /\ pc' \notin Waits \cup {"ping"}
        /\ pc' = "poll" => p = "telemetry"
        /\ pc' = "key" => p = "ping"
    BY Places DEF PublishFails
  <1>d. /\ UNCHANGED <<down, asked, keyAtBroker, telemetryAtBroker, okUnacked>>
        /\ sAckReceived' = 0 /\ expected' = 1 /\ acked' = FALSE /\ failed' = failed \cup {p}
    BY DEF PublishFails, StartCount, Wanted
  <1>e. UNCHANGED <<handle, subscribed, answered, slot, sAttested, confirmed, heard>>
    BY DEF Allowed
  <1>f. up' \in Seq(Packet) /\ Grows(up, up', p) /\ (handle # "live" => up' = up)
    <2> DEFINE e == [of |-> p, late |-> TRUE]
    <2>1. up \in Seq(Packet) /\ e \in Packet /\ e.of = p
      BY <1>b DEF StreamType, Packet
    <2>2. \/ up' = up
          \/ handle = "live" /\ up' = Append(up, e)
      BY DEF PublishFails
    <2> HIDE DEF e
    <2>3. CASE up' = up
      BY <2>1, <2>3 DEF Grows
    <2>4. CASE handle = "live" /\ up' = Append(up, e)
      <3>1. up' \in Seq(Packet) /\ Grows(up, up', e.of)
        BY <2>1, <2>4, SentGrows
      <3>2. QED BY <2>1, <2>4, <3>1
    <2>5. QED BY <2>2, <2>3, <2>4
  <1>g. sSessionReady' \in BOOLEAN /\ polls' \in 0 .. PollsPerCycle /\ PollsPerCycle # 0
    <2>1. PollsPerCycle \in 0 .. PollsPerCycle /\ polls \in 0 .. PollsPerCycle /\ PollsPerCycle # 0
      BY <1>b, UplinkAssumption DEF PlaceType
    <2>2. sSessionReady \in BOOLEAN
      BY <1>b DEF AnswerType
    <2>3. QED BY <2>1, <2>2, Zenon DEF Allowed
  <1>1. TypeOK'
    <2>1. StreamType' /\ PlaceType'
      BY <1>b, <1>c, <1>d, <1>e, <1>f, <1>g DEF StreamType, PlaceType
    <2>2. CountType'
      BY <1>b, <1>d DEF CountType
    <2>3. AnswerType'
      BY <1>b, <1>d, <1>e, <1>g DEF AnswerType
    <2>4. QED BY <2>1, <2>2, <2>3, TypeParts
  <1>2. Streams'
    <2>1. pc' = "poll" => polls' # 0
      BY <1>c, <1>g DEF Allowed
    <2>2. QED BY <1>a, <1>c, <1>d, <1>e, <1>f, <2>1 DEF Streams, Connecting
  <1>3. Subscribing' /\ Counting'
    BY <1>c, <1>d DEF Subscribing, Counting, Connecting
  <1>4. Gate'
    BY <1>a, <1>e DEF Gate
  <1>5. KeyFirst'
    <2>1. pc' \in Connecting \cup {"ping", "pingAck", "key"} => ~sSessionReady'
      BY <1>a, <1>c DEF KeyFirst, Allowed, Waits
    <2>2. ~sSessionReady' => ~telemetryAtBroker' /\ ~HasTelemetry(up')
      BY <1>a, <1>d, <1>f, GrowsKeeps DEF KeyFirst, Allowed
    <2>3. sSessionReady' /\ handle' = "live"
            => keyAtBroker' \/ "key" \in failed' \/ KeyComes(up')
      BY <1>a, <1>d, <1>e, <1>f, GrowsKeeps DEF KeyFirst, Allowed
    <2>4. QED BY <2>1, <2>2, <2>3 DEF KeyFirst, HasTelemetry, KeyComes
  <1>6. ConnectAwaitsBoth'
    BY <1>a, <1>c, <1>e DEF ConnectAwaitsBoth
  <1>7. CountTrueUntilFailure' /\ KeyBeforeTelemetry'
    BY <1>d DEF Inv, CountTrueUntilFailure, KeyBeforeTelemetry
  <1>8. TelemetryGated'
    <2>1. HasTelemetry(up') => HasTelemetry(up) \/ sAttested
      BY <1>f, GrowsKeeps DEF Allowed
    <2>2. QED BY <1>a, <1>d, <1>e, <2>1
              DEF Inv, TelemetryGated, HasTelemetry, Gate, Confirmations
  <1>9. QED BY <1>1, <1>2, <1>3, <1>4, <1>5, <1>6, <1>7, <1>8 DEF Inv

\* What the loop does when a wait ends.
Resumes(p) ==
  /\ UNCHANGED <<connVars, raVars, sSessionReady>>
  /\ p = "telemetry" => polls' = PollsPerCycle
  /\ polls' \in {polls, PollsPerCycle}

\* The count has been reached: while no publish has failed, by the packet's own
\* acknowledgement.
LEMMA AcknowledgedKeeps ==
  ASSUME Inv, NEW p \in Publishes, Acknowledged(p), Resumes(p)
  PROVE  Inv'
  <1> USE DEF connVars, raVars, netVars
  <1>a. TypeOK /\ Streams /\ Counting /\ Gate /\ KeyFirst /\ ConnectAwaitsBoth
    BY DEF Inv
  <1>b. StreamType /\ PlaceType /\ CountType /\ AnswerType
    BY <1>a, TypeParts
  <1>c. /\ pc = WaitOf(p) /\ pc' = After(p) /\ pc' \in PCs /\ pc \notin Connecting
        /\ pc' \notin Connecting /\ pc \in Waits \ {"subAcks"}
        /\ pc' \notin Waits \cup {"ping"}
        /\ pc' = "poll" => p = "telemetry"
        /\ pc' = "key" => pc = "pingAck"
    BY Places DEF Acknowledged
  <1>d. /\ UNCHANGED <<up, down, asked, keyAtBroker, telemetryAtBroker,
                       sAckReceived, expected, acked, failed>>
        /\ sAckReceived >= expected /\ okUnacked' \in BOOLEAN
        /\ okUnacked' => okUnacked \/ ~acked
    BY <1>b, Zenon DEF Acknowledged, CountType
  <1>e. UNCHANGED <<handle, subscribed, answered, slot, sAttested, confirmed, heard, sSessionReady>>
    BY DEF Resumes
  <1>f. failed = {} => acked /\ Quiet
    BY <1>a, <1>c, <1>d DEF Counting
  <1>g. polls' \in 0 .. PollsPerCycle /\ PollsPerCycle # 0
    <2>1. PollsPerCycle \in 0 .. PollsPerCycle /\ polls \in 0 .. PollsPerCycle /\ PollsPerCycle # 0
      BY <1>b, UplinkAssumption DEF PlaceType
    <2>2. QED BY <2>1, Zenon DEF Resumes
  <1>1. TypeOK'
    <2>1. StreamType' /\ PlaceType'
      BY <1>b, <1>c, <1>d, <1>e, <1>g DEF StreamType, PlaceType
    <2>2. CountType' /\ AnswerType'
      BY <1>b, <1>d, <1>e DEF CountType, AnswerType
    <2>3. QED BY <2>1, <2>2, TypeParts
  <1>2. Streams'
    <2>1. pc' = "poll" => polls' # 0
      BY <1>c, <1>g DEF Resumes
    <2>2. QED BY <1>a, <1>c, <1>d, <1>e, <2>1 DEF Streams, Connecting
  <1>3. Subscribing'
    BY <1>c DEF Subscribing, Connecting
  <1>4. Counting'
    BY <1>c, <1>d, <1>f DEF Counting, Quiet
  <1>5. Gate'
    BY <1>a, <1>e DEF Gate
  <1>6. KeyFirst'
    BY <1>a, <1>c, <1>d, <1>e DEF KeyFirst, HasTelemetry, KeyComes, Waits
  <1>7. ConnectAwaitsBoth'
    BY <1>a, <1>c, <1>e DEF ConnectAwaitsBoth
  <1>8. CountTrueUntilFailure' /\ KeyBeforeTelemetry'
    BY <1>d, <1>f DEF Inv, CountTrueUntilFailure, KeyBeforeTelemetry
  <1>9. TelemetryGated'
    BY <1>d, <1>e DEF Inv, TelemetryGated
  <1>10. QED BY <1>1, <1>2, <1>3, <1>4, <1>5, <1>6, <1>7, <1>8, <1>9 DEF Inv

\* A wait is given up.
LEMMA WaitFailsKeeps ==
  ASSUME Inv, NEW p \in Publishes, WaitFails(p), Resumes(p)
  PROVE  Inv'
  <1> USE DEF connVars, raVars
  <1>a. TypeOK /\ Streams /\ Gate /\ KeyFirst /\ ConnectAwaitsBoth
    BY DEF Inv
  <1>b. StreamType /\ PlaceType /\ CountType /\ AnswerType
    BY <1>a, TypeParts
  <1>c. /\ pc' = After(p) /\ pc' \in PCs /\ pc \notin Connecting /\ pc' \notin Connecting
        /\ pc' \notin Waits \cup {"ping"}
        /\ pc' = "poll" => p = "telemetry"
        /\ pc' = "key" => pc = "pingAck"
    BY Places DEF WaitFails
  <1>d. /\ UNCHANGED <<asked, keyAtBroker, telemetryAtBroker,
                       sAckReceived, expected, acked, okUnacked>>
        /\ failed' = failed \cup {p}
    BY DEF WaitFails
  <1>e. UNCHANGED <<handle, subscribed, answered, slot, sAttested, confirmed, heard, sSessionReady>>
    BY DEF Resumes
  <1>f. /\ up' \in Seq(Packet) /\ DOMAIN up' = DOMAIN up /\ (up = <<>> => up' = <<>>)
        /\ \A i \in DOMAIN up : up'[i].of = up[i].of
        /\ down' \in Seq(Item) /\ (down = <<>> => down' = <<>>)
    BY <1>b, Marked DEF WaitFails, StreamType
  <1>g. polls' \in 0 .. PollsPerCycle /\ PollsPerCycle # 0
    <2>1. PollsPerCycle \in 0 .. PollsPerCycle /\ polls \in 0 .. PollsPerCycle /\ PollsPerCycle # 0
      BY <1>b, UplinkAssumption DEF PlaceType
    <2>2. QED BY <2>1, Zenon DEF Resumes
  <1>h. (HasTelemetry(up') <=> HasTelemetry(up)) /\ (KeyComes(up) => KeyComes(up'))
    BY <1>f DEF HasTelemetry, KeyComes
  <1>1. TypeOK'
    <2>1. StreamType' /\ PlaceType'
      BY <1>b, <1>c, <1>e, <1>f, <1>g DEF StreamType, PlaceType
    <2>2. CountType' /\ AnswerType'
      BY <1>b, <1>d, <1>e DEF CountType, AnswerType
    <2>3. QED BY <2>1, <2>2, TypeParts
  <1>2. Streams'
    <2>1. pc' = "poll" => polls' # 0
      BY <1>c, <1>g DEF Resumes
    <2>2. QED BY <1>a, <1>c, <1>e, <1>f, <2>1 DEF Streams, Connecting
  <1>3. Subscribing' /\ Counting'
    BY <1>c, <1>d DEF Subscribing, Counting, Connecting
  <1>4. Gate'
    BY <1>a, <1>e DEF Gate
  <1>5. KeyFirst'
    <2>1. pc' \in Connecting \cup {"ping", "pingAck", "key"} => ~sSessionReady'
      BY <1>a, <1>c, <1>e DEF KeyFirst, Waits
    <2>2. ~sSessionReady' => ~telemetryAtBroker' /\ ~HasTelemetry(up')
      BY <1>a, <1>d, <1>e, <1>h DEF KeyFirst
    <2>3. sSessionReady' /\ handle' = "live"
            => keyAtBroker' \/ "key" \in failed' \/ KeyComes(up')
      BY <1>a, <1>d, <1>e, <1>h DEF KeyFirst
    <2>4. QED BY <2>1, <2>2, <2>3 DEF KeyFirst, HasTelemetry, KeyComes
  <1>6. ConnectAwaitsBoth'
    BY <1>a, <1>c, <1>e DEF ConnectAwaitsBoth
  <1>7. CountTrueUntilFailure' /\ KeyBeforeTelemetry'
    BY <1>d DEF Inv, CountTrueUntilFailure, KeyBeforeTelemetry
  <1>8. TelemetryGated'
    BY <1>d, <1>e, <1>h DEF Inv, TelemetryGated, HasTelemetry
  <1>9. QED BY <1>1, <1>2, <1>3, <1>4, <1>5, <1>6, <1>7, <1>8 DEF Inv

\* The four publishes of the loop.
LEMMA PublishingStep ==
  ASSUME Inv, Ping \/ NewSession \/ KeyWait \/ Query \/ Telemetry
  PROVE  Inv'
  <1>a. /\ "ping" \in Publishes /\ "key" \in Publishes
        /\ "query" \in Publishes /\ "telemetry" \in Publishes
    BY DEF Publishes
  <1>1. ASSUME NEW p \in {"ping", "query", "telemetry"}, PublishStep(p),
               UNCHANGED <<connVars, raVars, sSessionReady>>, polls' \in {polls, PollsPerCycle},
               p = "telemetry" => sAttested /\ sSessionReady /\ polls' = PollsPerCycle
        PROVE  Inv'
    <2>1. p \in Publishes /\ Allowed(p) /\ Resumes(p)
      BY <1>a, <1>1 DEF Allowed, Resumes
    <2>2. QED BY <1>1, <2>1, PublishKeeps, PublishFailsKeeps, AcknowledgedKeeps, WaitFailsKeeps
              DEF PublishStep
  <1>2. CASE Ping
    BY <1>1, <1>2 DEF Ping, cycleVars
  <1>3. CASE Query
    BY <1>1, <1>3 DEF Query, cycleVars
  <1>4. CASE Telemetry
    BY <1>1, <1>4 DEF Telemetry
  <1>5. CASE NewSession
    <2>1. Allowed("key")
      BY <1>5 DEF NewSession, Allowed
    <2>2. QED BY <1>a, <1>5, <2>1, PublishKeeps, PublishFailsKeeps DEF NewSession, KeyPublish
  <1>6. CASE KeyWait
    <2>1. Resumes("key")
      BY <1>6 DEF KeyWait, Resumes, cycleVars
    <2>2. QED BY <1>a, <1>6, <2>1, AcknowledgedKeeps, WaitFailsKeeps DEF KeyWait
  <1>7. QED BY <1>2, <1>3, <1>4, <1>5, <1>6

-----------------------------------------------------------------------------
(* Receiving *)

LEMMA ReceiveStep ==
  ASSUME Inv, Receive
  PROVE  Inv'
  <1> DEFINE item == Head(down)
  <1> USE DEF Receive, cycleVars
  <1>a. TypeOK /\ Streams /\ Subscribing /\ Counting /\ Gate /\ KeyFirst /\ ConnectAwaitsBoth
    BY DEF Inv
  <1>b. StreamType /\ PlaceType /\ CountType /\ AnswerType
    BY <1>a, TypeParts
  <1>c. /\ pc' = pc /\ pc \in Waits \cup {"poll"} /\ handle = "live"
        /\ UNCHANGED <<handle, subscribed, up, asked, keyAtBroker, telemetryAtBroker,
                       sSessionReady, polls>>
    OBVIOUS
  <1>d. /\ item \in Item /\ item = down[1] /\ 1 \in DOMAIN down
        /\ down' \in Seq(Item)
        /\ \A i \in DOMAIN down' : i + 1 \in DOMAIN down /\ i + 1 # 1 /\ down'[i] = down[i + 1]
    BY <1>b, Taken DEF StreamType
  <1>e. /\ IsAck(item) => ack_callback(item) /\ item.of \in Topics \cup Publishes
        /\ ~IsAck(item) => /\ publish_callback(item.of) \/ Unclaimed
                           /\ item.of \in Replies \cup {"echo"}
        /\ item.late \in BOOLEAN
    BY <1>d DEF IsAck, Item
  <1> HIDE DEF item, Receive
  <1>f. UNCHANGED <<expected, okUnacked, failed, sAttested>>
    BY <1>e DEF ack_callback, publish_callback, Unclaimed, ackVars, raVars
  <1>g. /\ IsAck(item) => /\ sAckReceived' = sAckReceived + 1
                          /\ acked' = (acked \/ ~item.late)
                          /\ answered' = answered \cup ({item.of} \cap Topics)
                          /\ UNCHANGED <<slot, confirmed, heard>>
        /\ ~IsAck(item) => UNCHANGED <<sAckReceived, acked, answered>>
    BY <1>e DEF ack_callback, publish_callback, Unclaimed, ackVars, raVars
  <1>h. /\ confirmed => confirmed'
        /\ \/ UNCHANGED <<slot, confirmed, heard>>
           \/ /\ item.of \in Replies \cup {"echo"}
              /\ confirmed' = (confirmed \/ item.of \in Confirmations)
              /\ heard' = heard \cup ({item.of} \cap Replies)
              /\ slot' = IF item.of = "echo" \/ slot # "empty" THEN slot ELSE item.of
    <2>1. CASE IsAck(item)
      BY <1>g, <2>1
    <2>2. CASE ~IsAck(item) /\ Unclaimed
      BY <2>2 DEF Unclaimed, raVars
    <2>3. CASE ~IsAck(item) /\ publish_callback(item.of)
      BY <1>e, <2>3, Zenon DEF publish_callback, Ignored, Full
    <2>4. QED BY <1>e, <2>1, <2>2, <2>3
  <1>1. TypeOK'
    <2>1. StreamType' /\ PlaceType'
      BY <1>b, <1>c, <1>d DEF StreamType, PlaceType
    <2>2. CountType'
      <3>1. sAckReceived' \in Nat
        BY <1>b, <1>g DEF CountType
      <3>2. acked' \in BOOLEAN
        BY <1>b, <1>g, Zenon DEF CountType
      <3>3. QED BY <1>b, <1>f, <3>1, <3>2 DEF CountType
    <2>3. slot' \in Replies \cup {"empty"}
      BY <1>b, <1>h DEF AnswerType
    <2>4. heard' \subseteq Replies /\ answered' \subseteq Topics
      BY <1>b, <1>e, <1>g, <1>h DEF AnswerType
    <2>7. confirmed' \in BOOLEAN
      BY <1>b, <1>h, Zenon DEF AnswerType
    <2>5. AnswerType'
      BY <1>b, <1>c, <1>f, <2>3, <2>4, <2>7 DEF AnswerType
    <2>6. QED BY <2>1, <2>2, <2>5, TypeParts
  <1>2. Streams'
    BY <1>a, <1>c DEF Streams, Waits
  <1>3. Subscribing'
    <2>1. SUFFICES ASSUME pc = "subAcks" PROVE Subscribing'
      BY <1>c DEF Subscribing, Waits
    <2>2. Sent = Topics /\ Sent' = Topics
      BY <1>c, <2>1 DEF Sent
    <2>3. /\ expected = 2
          /\ sAckReceived = IF answered = {} THEN 0 ELSE IF answered = Topics THEN 2 ELSE 1
          /\ \A i \in DOMAIN up : up[i].of \in Topics \ answered
          /\ \A i \in DOMAIN down : IsAck(down[i]) => down[i].of \in Topics \ answered
          /\ \A i, j \in DOMAIN up : up[i].of = up[j].of => i = j
          /\ \A i, j \in DOMAIN down :
               IsAck(down[i]) /\ IsAck(down[j]) /\ down[i].of = down[j].of => i = j
          /\ \A i \in DOMAIN up, j \in DOMAIN down : IsAck(down[j]) => up[i].of # down[j].of
      BY <1>a, <2>1, <2>2 DEF Subscribing
    <2>4. /\ \A i, j \in DOMAIN down' :
               IsAck(down'[i]) /\ IsAck(down'[j]) /\ down'[i].of = down'[j].of => i = j
          /\ \A i \in DOMAIN up, j \in DOMAIN down' : IsAck(down'[j]) => up[i].of # down'[j].of
      <3>1. \A i \in DOMAIN down' : i \in Nat
        BY <1>d
      <3>2. QED BY <1>d, <2>3, <3>1
    <2>5. CASE IsAck(item)
      <3>1. item.of \in Topics \ answered /\ answered' = answered \cup {item.of}
        BY <1>d, <1>g, <2>3, <2>5
      <3>2. \A i \in DOMAIN up : up[i].of \in Topics \ answered'
        BY <1>d, <2>3, <2>5, <3>1
      <3>3. \A i \in DOMAIN down' : IsAck(down'[i]) => down'[i].of \in Topics \ answered'
        BY <1>d, <2>3, <2>5, <3>1
      <3>4. sAckReceived' = IF answered' = {} THEN 0 ELSE IF answered' = Topics THEN 2 ELSE 1
        <4>1. answered \in {{}, {"commands"}, {"attestation"}, Topics}
          BY <1>b DEF AnswerType, Topics
        <4>2. QED BY <1>b, <1>g, <2>3, <2>5, <3>1, <4>1 DEF Topics, CountType
      <3>5. QED BY <1>c, <1>f, <2>1, <2>2, <2>3, <2>4, <3>2, <3>3, <3>4 DEF Subscribing
    <2>6. CASE ~IsAck(item)
      <3>1. \A i \in DOMAIN down' : IsAck(down'[i]) => down'[i].of \in Topics \ answered
        BY <1>d, <2>3
      <3>2. QED BY <1>c, <1>f, <1>g, <2>1, <2>2, <2>3, <2>4, <2>6, <3>1 DEF Subscribing
    <2>7. QED BY <2>5, <2>6
  <1>4. Counting'
    <2>1. SUFFICES ASSUME failed = {} PROVE Counting'
      BY <1>f DEF Counting
    <2>2. Quiet => Quiet' /\ ~IsAck(item)
      BY <1>c, <1>d DEF Quiet
    <2>3. CASE pc = "poll"
      BY <1>a, <1>c, <2>1, <2>2, <2>3 DEF Counting, Waits
    <2>4. CASE pc = "subAcks"
      BY <1>c, <2>4 DEF Counting, Publishes
    <2>5. CASE pc \in Waits \ {"subAcks"}
      <3>1. pc \notin Publishes \cup {"poll"}
        BY <2>5 DEF Waits, Publishes
      <3>2. expected = 1
        BY <1>a, <2>1, <2>5 DEF Counting
      <3>3. CASE sAckReceived = 1 /\ acked /\ Quiet
        BY <1>c, <1>f, <1>g, <2>2, <3>1, <3>2, <3>3 DEF Counting
      <3>4. CASE sAckReceived = 0 /\ OneUnderWay /\ ~IsAck(item)
        <4>1. OneUnderWay'
          <5>1. \A i \in DOMAIN down' : i \in Nat
            BY <1>d
          <5>2. QED BY <1>c, <1>d, <3>4, <5>1 DEF OneUnderWay
        <4>2. QED BY <1>c, <1>f, <1>g, <3>1, <3>2, <3>4, <4>1 DEF Counting
      <3>5. CASE sAckReceived = 0 /\ OneUnderWay /\ IsAck(item)
        <4>1. up = <<>>
          <5>1. DOMAIN up = {}
            BY <1>d, <3>5 DEF OneUnderWay
          <5>2. QED BY <1>b, <5>1 DEF StreamType
        <4>2. \A i \in DOMAIN down' : ~IsAck(down'[i])
          BY <1>d, <3>5 DEF OneUnderWay
        <4>3. ~item.late
          BY <1>d, <3>5 DEF OneUnderWay
        <4>4. sAckReceived' = 1 /\ acked' /\ Quiet'
          <5>1. sAckReceived' = 1
            BY <1>g, <3>5
          <5>2. acked'
            BY <1>g, <3>5, <4>3, Zenon
          <5>3. Quiet'
            BY <1>c, <4>1, <4>2 DEF Quiet
          <5>4. QED BY <5>1, <5>2, <5>3
        <4>5. QED BY <1>c, <1>f, <3>1, <3>2, <4>4 DEF Counting
      <3>6. QED BY <1>a, <2>1, <2>5, <3>3, <3>4, <3>5 DEF Counting
    <2>6. QED BY <1>c, <2>3, <2>4, <2>5
  <1>5. Gate'
    <2>1. CASE UNCHANGED <<slot, confirmed, heard>>
      BY <1>a, <1>f, <2>1 DEF Gate
    <2>2. CASE /\ item.of \in Replies \cup {"echo"}
               /\ confirmed' = (confirmed \/ item.of \in Confirmations)
               /\ heard' = heard \cup ({item.of} \cap Replies)
               /\ slot' = IF item.of = "echo" \/ slot # "empty" THEN slot ELSE item.of
      <3>1. sAttested' => confirmed'
        BY <1>a, <1>f, <1>h DEF Gate
      <3>2. slot' \in Confirmations => confirmed'
        BY <1>a, <1>h, <2>2, Zenon DEF Gate
      <3>3. "echo" \notin Replies /\ "empty" \notin Replies
        BY DEF Replies
      <3>4. (slot' = "empty" => heard' = {}) /\ (slot' # "empty" => slot' \in heard')
        BY <1>a, <2>2, <3>3 DEF Gate
      <3>5. QED BY <3>1, <3>2, <3>4 DEF Gate
    <2>3. QED BY <1>h, <2>1, <2>2
  <1>6. KeyFirst'
    BY <1>a, <1>c, <1>f DEF KeyFirst, HasTelemetry, KeyComes
  <1>7. ConnectAwaitsBoth'
    BY <1>a, <1>b, <1>c, <1>g DEF ConnectAwaitsBoth, AnswerType
  <1>8. CountTrueUntilFailure' /\ KeyBeforeTelemetry'
    BY <1>c, <1>f DEF Inv, CountTrueUntilFailure, KeyBeforeTelemetry
  <1>9. TelemetryGated'
    BY <1>c, <1>h DEF Inv, TelemetryGated
  <1>10. QED BY <1>1, <1>2, <1>3, <1>4, <1>5, <1>6, <1>7, <1>8, <1>9 DEF Inv

-----------------------------------------------------------------------------
(* The environment *)

\* The broker acknowledges the packet it takes, which moves from one stream to the other.
LEMMA BrokerKeeps ==
  ASSUME Inv, up # <<>>, up' = Tail(up),
         NEW kind \in {"ack", "reject"}, NEW a, a = Ack(Head(up), kind),
         down' \in Seq(Item),
         \A i \in DOMAIN down' :
           IsAck(down'[i]) => down'[i] = a \/ (i \in DOMAIN down /\ down'[i] = down[i]),
         \A i, j \in DOMAIN down' : IsAck(down'[i]) /\ IsAck(down'[j]) =>
           \/ i = j
           \/ i \in DOMAIN down /\ down'[i] = down[i]
           \/ j \in DOMAIN down /\ down'[j] = down[j],
         subscribed' \subseteq Topics, asked' \in 0 .. MaxQueue,
         keyAtBroker' \in BOOLEAN, telemetryAtBroker' \in BOOLEAN,
         keyAtBroker' <=> keyAtBroker \/ Head(up).of = "key",
         telemetryAtBroker' <=> telemetryAtBroker \/ Head(up).of = "telemetry",
         UNCHANGED <<pc, handle, answered, ackVars, raVars, cycleVars>>
  PROVE  Inv'
  <1> DEFINE p == Head(up)
  <1> USE DEF ackVars, raVars, cycleVars
  <1>a. TypeOK /\ Streams /\ Subscribing /\ Counting /\ Gate /\ KeyFirst /\ ConnectAwaitsBoth
    BY DEF Inv
  <1>b. StreamType /\ PlaceType /\ CountType /\ AnswerType
    BY <1>a, TypeParts
  <1>c. /\ p \in Packet /\ p = up[1] /\ 1 \in DOMAIN up
        /\ up' \in Seq(Packet) /\ Len(up') = Len(up) - 1
        /\ \A i \in DOMAIN up' : i + 1 \in DOMAIN up /\ i + 1 # 1 /\ up'[i] = up[i + 1]
        /\ \A i \in DOMAIN up : i # 1 => i - 1 \in DOMAIN up' /\ up'[i - 1] = up[i]
    BY <1>b, Taken DEF StreamType
  <1>d. a.of = p.of /\ a.late = p.late /\ IsAck(a)
    BY DEF Ack, IsAck
  <1>e. /\ keyAtBroker' <=> keyAtBroker \/ p.of = "key"
        /\ telemetryAtBroker' <=> telemetryAtBroker \/ p.of = "telemetry"
    OBVIOUS
  <1> HIDE DEF p
  <1>f. handle = "live"
    BY <1>a DEF Streams
  <1>g. \A i \in DOMAIN up' : i \in Nat
    BY <1>c
  <1>h. \A i \in DOMAIN up : i \in Nat /\ (i # 1 => 1 < i)
    BY <1>b DEF StreamType
  <1>1. TypeOK'
    <2>1. StreamType' /\ PlaceType' /\ CountType'
      BY <1>b, <1>c DEF StreamType, PlaceType, CountType
    <2>2. AnswerType'
      BY <1>b DEF AnswerType
    <2>3. QED BY <2>1, <2>2, TypeParts
  <1>2. Streams'
    BY <1>a, <1>f DEF Streams
  <1>3. Subscribing'
    <2>1. SUFFICES ASSUME pc \in {"subscribeCommands", "subscribeAttestation", "subAcks"}
                   PROVE  Subscribing'
      BY DEF Subscribing
    <2>2. Sent' = Sent
      BY DEF Sent
    <2>3. /\ \A i \in DOMAIN up : up[i].of \in Sent \ answered
          /\ \A i \in DOMAIN down : IsAck(down[i]) => down[i].of \in Sent \ answered
          /\ \A i, j \in DOMAIN up : up[i].of = up[j].of => i = j
          /\ \A i, j \in DOMAIN down :
               IsAck(down[i]) /\ IsAck(down[j]) /\ down[i].of = down[j].of => i = j
          /\ \A i \in DOMAIN up, j \in DOMAIN down : IsAck(down[j]) => up[i].of # down[j].of
      BY <1>a, <2>1 DEF Subscribing
    <2>4. \A i \in DOMAIN up' : up'[i].of \in Sent \ answered /\ up'[i].of # p.of
      BY <1>c, <2>3
    <2>5. \A i, j \in DOMAIN up' : up'[i].of = up'[j].of => i = j
      BY <1>c, <1>g, <2>3
    <2>6. \A i \in DOMAIN down : IsAck(down[i]) => down[i].of # p.of
      BY <1>c, <2>3
    <2>7. \A i \in DOMAIN down' : IsAck(down'[i]) => down'[i].of \in Sent \ answered
      BY <1>c, <1>d, <2>3
    <2>8. \A i, j \in DOMAIN down' :
            IsAck(down'[i]) /\ IsAck(down'[j]) /\ down'[i].of = down'[j].of => i = j
      <3> SUFFICES ASSUME NEW i \in DOMAIN down', NEW j \in DOMAIN down', i # j,
                          IsAck(down'[i]), IsAck(down'[j]), down'[i].of = down'[j].of
                   PROVE  FALSE
        OBVIOUS
      <3>1. \A k \in DOMAIN down' : IsAck(down'[k]) /\ down'[k].of = p.of => down'[k] = a
        BY <2>6
      <3>2. CASE down'[i].of = p.of
        BY <2>6, <3>2
      <3>3. CASE down'[i].of # p.of
        <4>1. /\ i \in DOMAIN down /\ down'[i] = down[i]
              /\ j \in DOMAIN down /\ down'[j] = down[j]
          BY <1>d, <3>3
        <4>2. QED BY <2>3, <4>1
      <3>4. QED BY <3>2, <3>3
    <2>9. \A i \in DOMAIN up', j \in DOMAIN down' : IsAck(down'[j]) => up'[i].of # down'[j].of
      <3> SUFFICES ASSUME NEW i \in DOMAIN up', NEW j \in DOMAIN down', IsAck(down'[j])
                   PROVE  up'[i].of # down'[j].of
        OBVIOUS
      <3>1. CASE down'[j] = a
        BY <1>d, <2>4, <3>1
      <3>2. CASE j \in DOMAIN down /\ down'[j] = down[j]
        BY <1>c, <2>3, <3>2
      <3>3. QED BY <3>1, <3>2
    <2>10. QED BY <1>a, <2>1, <2>2, <2>4, <2>5, <2>7, <2>8, <2>9 DEF Subscribing
  <1>4. Counting'
    <2>1. SUFFICES ASSUME failed = {} PROVE Counting'
      BY DEF Counting
    <2>2. ~Quiet
      BY DEF Quiet
    <2>3. OneUnderWay => OneUnderWay'
      <3> SUFFICES ASSUME OneUnderWay PROVE OneUnderWay'
        OBVIOUS
      <3>1. Len(up) = 1 /\ Len(up') = 0
        BY <1>b, <1>c DEF OneUnderWay, StreamType
      <3>2. DOMAIN up' = {}
        BY <1>c, <3>1
      <3>3. \A j \in DOMAIN down : ~IsAck(down[j])
        BY <1>c DEF OneUnderWay
      <3>4. ~p.late
        BY <1>c DEF OneUnderWay
      <3>5. \A i \in DOMAIN down' : IsAck(down'[i]) => ~down'[i].late
        BY <1>d, <3>3, <3>4
      <3>6. \A i, j \in DOMAIN down' : IsAck(down'[i]) /\ IsAck(down'[j]) => i = j
        BY <3>3
      <3>7. Len(up') <= 1
        <4>1. \A n : n = 0 => n <= 1
          OBVIOUS
        <4>2. QED BY <3>1, <4>1, Zenon
      <3>8. QED BY <3>2, <3>5, <3>6, <3>7, Zenon DEF OneUnderWay
    <2>4. QED BY <1>a, <2>1, <2>2, <2>3 DEF Counting
  <1>5. Gate' /\ ConnectAwaitsBoth'
    BY <1>a DEF Gate, ConnectAwaitsBoth
  <1>6. HasTelemetry(up') \/ telemetryAtBroker' => HasTelemetry(up) \/ telemetryAtBroker
    BY <1>c, <1>e DEF HasTelemetry
  <1>7. KeyFirst'
    <2>1. ~sSessionReady' => ~telemetryAtBroker' /\ ~HasTelemetry(up')
      BY <1>a, <1>6 DEF KeyFirst
    <2>2. ASSUME KeyComes(up), p.of # "key" PROVE KeyComes(up')
      <3>1. PICK i \in DOMAIN up : /\ up[i].of = "key"
                                   /\ \A j \in DOMAIN up : up[j].of = "telemetry" => i < j
        BY <2>2 DEF KeyComes
      <3>2. i # 1 /\ i - 1 \in DOMAIN up' /\ up'[i - 1].of = "key"
        BY <1>c, <2>2, <3>1
      <3>3. ASSUME NEW j \in DOMAIN up', up'[j].of = "telemetry" PROVE i - 1 < j
        BY <1>c, <1>g, <1>h, <3>1, <3>3
      <3>4. QED BY <3>2, <3>3 DEF KeyComes
    <2>3. sSessionReady' /\ handle' = "live"
            => keyAtBroker' \/ "key" \in failed' \/ KeyComes(up')
      BY <1>a, <1>e, <2>2 DEF KeyFirst
    <2>4. pc' \in Connecting \cup {"ping", "pingAck", "key"} => ~sSessionReady'
      BY <1>a DEF KeyFirst
    <2>5. QED BY <2>1, <2>3, <2>4 DEF KeyFirst, HasTelemetry, KeyComes
  <1>8. CountTrueUntilFailure'
    BY DEF Inv, CountTrueUntilFailure
  <1>9. TelemetryGated'
    BY <1>6 DEF Inv, TelemetryGated, HasTelemetry
  <1>10. KeyBeforeTelemetry'
    <2>1. SUFFICES ASSUME p.of = "telemetry" PROVE keyAtBroker \/ "key" \in failed
      BY <1>e DEF Inv, KeyBeforeTelemetry
    <2>2. HasTelemetry(up)
      BY <1>c, <2>1 DEF HasTelemetry
    <2>3. ~KeyComes(up)
      BY <1>c, <1>h, <2>1 DEF KeyComes
    <2>4. QED BY <1>a, <1>f, <2>2, <2>3 DEF KeyFirst
  <1>11. QED BY <1>1, <1>2, <1>3, <1>4, <1>5, <1>7, <1>8, <1>9, <1>10 DEF Inv

LEMMA BrokerStep ==
  ASSUME Inv, Broker
  PROVE  Inv'
  <1> USE DEF connVars
  <1>a. StreamType /\ AnswerType /\ MaxQueue \in Nat
    BY TypeParts, UplinkAssumption DEF Inv
  <1>b. up # <<>> /\ up' = Tail(up)
        /\ UNCHANGED <<pc, handle, answered, ackVars, raVars, cycleVars>>
    BY DEF Broker, BrokerSubscribe, BrokerPublish
  <1>c. ASSUME NEW kind \in {"ack", "reject"}
        PROVE  Ack(Head(up), kind) \in Item /\ IsAck(Ack(Head(up), kind))
    <2>1. Head(up) \in Packet
      BY <1>a, <1>b, Taken DEF StreamType
    <2>2. QED BY <2>1 DEF Ack, Item, Packet, IsAck
  <1>1. CASE BrokerSubscribe
    <2>1. PICK kind \in {"ack", "reject"} : down' = Append(down, Ack(Head(up), kind))
      BY <1>1 DEF BrokerSubscribe
    <2> DEFINE a == Ack(Head(up), kind)
    <2>2. a \in Item /\ IsAck(a) /\ down \in Seq(Item) /\ down' = Append(down, a)
      BY <1>a, <1>c, <2>1 DEF StreamType
    <2>3. a = Ack(Head(up), kind)
      OBVIOUS
    <2> HIDE DEF a
    <2>4. /\ down' \in Seq(Item)
          /\ \A i \in DOMAIN down' : \/ i \in DOMAIN down /\ down'[i] = down[i]
                                     \/ i = Len(down) + 1 /\ down'[i] = a
      BY <2>2, Appended
    <2>5. /\ UNCHANGED <<keyAtBroker, telemetryAtBroker, asked>>
          /\ Head(up).of \in Topics /\ subscribed' \subseteq Topics
      BY <1>1, <1>a DEF BrokerSubscribe, AnswerType
    <2>6. /\ keyAtBroker' \in BOOLEAN /\ telemetryAtBroker' \in BOOLEAN
          /\ asked' \in 0 .. MaxQueue
      BY <1>a, <2>5 DEF AnswerType
    <2>7. Head(up).of # "key" /\ Head(up).of # "telemetry"
      BY <2>5 DEF Topics
    <2>8. /\ keyAtBroker' <=> keyAtBroker \/ Head(up).of = "key"
          /\ telemetryAtBroker' <=> telemetryAtBroker \/ Head(up).of = "telemetry"
      BY <2>5, <2>7
    <2>9. QED BY <1>b, <2>3, <2>4, <2>5, <2>6, <2>8, BrokerKeeps
  <1>2. CASE BrokerPublish
    <2> DEFINE a == Ack(Head(up), "ack")
    <2> DEFINE e == Ra("echo")
    <2>1. a \in Item /\ IsAck(a) /\ down \in Seq(Item)
      BY <1>a, <1>c DEF StreamType
    <2>2. e \in Item /\ ~IsAck(e)
      BY DEF Ra, Item, Replies, IsAck
    <2>3. a = Ack(Head(up), "ack")
      OBVIOUS
    <2>4. down' \in {down \o <<a>> \o <<>>, down \o <<>> \o <<a>>,
                     down \o <<a>> \o <<e>>, down \o <<e>> \o <<a>>}
      BY <1>2 DEF BrokerPublish
    <2>5. /\ keyAtBroker' = (keyAtBroker \/ Head(up).of = "key")
          /\ telemetryAtBroker' = (telemetryAtBroker \/ Head(up).of = "telemetry")
          /\ subscribed' = subscribed
          /\ asked' = IF Head(up).of = "query" /\ asked < MaxQueue THEN asked + 1 ELSE asked
      BY <1>2 DEF BrokerPublish
    <2> HIDE DEF a, e
    <2>6. /\ down' \in Seq(Item)
          /\ \A i \in DOMAIN down' :
               IsAck(down'[i]) => down'[i] = a \/ (i \in DOMAIN down /\ down'[i] = down[i])
          /\ \A i, j \in DOMAIN down' : IsAck(down'[i]) /\ IsAck(down'[j]) =>
               \/ i = j
               \/ i \in DOMAIN down /\ down'[i] = down[i]
               \/ j \in DOMAIN down /\ down'[j] = down[j]
      BY <2>1, <2>2, <2>4, Delivered
    <2>7. asked' \in 0 .. MaxQueue /\ subscribed' \subseteq Topics
      BY <1>a, <2>5 DEF AnswerType
    <2>8. /\ keyAtBroker' \in BOOLEAN /\ telemetryAtBroker' \in BOOLEAN
          /\ keyAtBroker' <=> keyAtBroker \/ Head(up).of = "key"
          /\ telemetryAtBroker' <=> telemetryAtBroker \/ Head(up).of = "telemetry"
      BY <2>5, Zenon
    <2>9. QED BY <1>b, <2>3, <2>6, <2>7, <2>8, BrokerKeeps
  <1>3. QED BY <1>1, <1>2 DEF Broker

\* Someone speaks on the topic.
LEMMA SayKeeps ==
  ASSUME Inv, NEW m \in Replies, Say(m), asked' \in 0 .. MaxQueue
  PROVE  Inv'
  <1> DEFINE e == Ra(m)
  <1> USE DEF Say, connVars, ackVars, raVars, cycleVars
  <1>a. TypeOK /\ Streams /\ Subscribing /\ Counting /\ Gate /\ KeyFirst /\ ConnectAwaitsBoth
    BY DEF Inv
  <1>b. StreamType /\ PlaceType /\ CountType /\ AnswerType
    BY <1>a, TypeParts
  <1>c. /\ e \in Item /\ ~IsAck(e) /\ down \in Seq(Item) /\ down' = Append(down, e)
        /\ handle = "live"
    BY <1>b DEF Ra, Item, IsAck, Replies, StreamType
  <1> HIDE DEF e
  <1>d. /\ down' \in Seq(Item)
        /\ \A i \in DOMAIN down' :
             IsAck(down'[i]) => i \in DOMAIN down /\ down'[i] = down[i]
    BY <1>c, Appended
  <1>1. TypeOK'
    <2>1. StreamType' /\ PlaceType' /\ CountType'
      BY <1>b, <1>d DEF StreamType, PlaceType, CountType
    <2>2. AnswerType'
      BY <1>b DEF AnswerType
    <2>3. QED BY <2>1, <2>2, TypeParts
  <1>2. Streams'
    BY <1>a, <1>c DEF Streams
  <1>3. Subscribing'
    <2>1. Sent' = Sent
      BY DEF Sent
    <2>2. QED BY <1>a, <1>d, <2>1 DEF Subscribing
  <1>4. Counting'
    <2>1. Quiet => Quiet'
      BY <1>d DEF Quiet
    <2>2. OneUnderWay => OneUnderWay'
      BY <1>d DEF OneUnderWay
    <2>3. QED BY <1>a, <2>1, <2>2 DEF Counting
  <1>5. Gate' /\ ConnectAwaitsBoth'
    BY <1>a DEF Gate, ConnectAwaitsBoth
  <1>6. KeyFirst'
    BY <1>a DEF KeyFirst, HasTelemetry, KeyComes
  <1>7. CountTrueUntilFailure' /\ TelemetryGated' /\ KeyBeforeTelemetry'
    BY DEF Inv, CountTrueUntilFailure, TelemetryGated, KeyBeforeTelemetry
  <1>8. QED BY <1>1, <1>2, <1>3, <1>4, <1>5, <1>6, <1>7 DEF Inv

\* The connection is lost.
LEMMA LoseStep ==
  ASSUME Inv, Lose
  PROVE  Inv'
  <1> USE DEF Lose, ackVars, raVars, cycleVars
  <1>a. TypeOK /\ Streams /\ Subscribing /\ Counting /\ Gate /\ KeyFirst /\ ConnectAwaitsBoth
    BY DEF Inv
  <1>b. StreamType /\ PlaceType /\ CountType /\ AnswerType
    BY <1>a, TypeParts
  <1>1. StreamType' /\ PlaceType'
    BY <1>b DEF StreamType, PlaceType
  <1>2. CountType' /\ AnswerType'
    BY <1>b DEF CountType, AnswerType
  <1>3. TypeOK'
    BY <1>1, <1>2, TypeParts
  <1>4. Streams' /\ Subscribing'
    BY <1>a DEF Streams, Subscribing
  <1>5. Counting'
    BY <1>a DEF Counting, Quiet, OneUnderWay
  <1>6. Gate' /\ ConnectAwaitsBoth'
    BY <1>a DEF Gate, ConnectAwaitsBoth
  <1>7. KeyFirst'
    BY <1>a DEF KeyFirst, HasTelemetry
  <1>8. CountTrueUntilFailure' /\ TelemetryGated' /\ KeyBeforeTelemetry'
    BY DEF Inv, CountTrueUntilFailure, TelemetryGated, KeyBeforeTelemetry
  <1>9. QED BY <1>3, <1>4, <1>5, <1>6, <1>7, <1>8 DEF Inv

-----------------------------------------------------------------------------
(* The theorems *)

LEMMA StepInv == Inv /\ [Next]_vars => Inv'
  <1> SUFFICES ASSUME Inv, [Next]_vars PROVE Inv'
    OBVIOUS
  <1> USE DEF ackVars, netVars
  <1>1. CASE \/ Synchronise \/ ConnectRefused \/ Subscribed \/ NoSession \/ SkipQuery
             \/ Withhold \/ Drain
    <2>1. UNCHANGED <<ackVars, netVars>>
      BY <1>1 DEF Synchronise, ConnectRefused, Subscribed, NoSession, SkipQuery, Withhold, Drain
    <2>2. QED BY <1>1, <2>1, QuietStep
  <1>2. CASE Connect
    BY <1>2, ConnectStep
  <1>3. CASE SubscribeStep
    <2>1. CASE Subscribe("commands", "subscribeCommands", "subscribeAttestation")
      BY <2>1, SubscribeKeeps
    <2>2. CASE Subscribe("attestation", "subscribeAttestation", "subAcks")
      BY <2>2, SubscribeKeeps
    <2>3. QED BY <1>3, <2>1, <2>2 DEF SubscribeStep
  <1>4. CASE GiveUp
    BY <1>4, GiveUpStep
  <1>5. CASE Ping \/ NewSession \/ KeyWait \/ Query \/ Telemetry
    BY <1>5, PublishingStep
  <1>6. CASE Receive
    BY <1>6, ReceiveStep
  <1>7. CASE Broker
    BY <1>7, BrokerStep
  <1>8. CASE Answer \/ Speak
    <2>1. MaxQueue \in Nat /\ asked \in 0 .. MaxQueue
      BY UplinkAssumption DEF Inv, TypeOK
    <2>2. asked' \in 0 .. MaxQueue
      BY <1>8, <2>1 DEF Answer, Speak
    <2>3. \E m \in Replies : Say(m)
      BY <1>8, UplinkAssumption DEF Answer, Speak, Replies
    <2>4. QED BY <2>2, <2>3, SayKeeps
  <1>9. CASE Lose
    BY <1>9, LoseStep
  <1>10. CASE UNCHANGED vars
    <2> USE DEF vars, connVars, raVars, cycleVars
    <2>1. StreamType' = StreamType /\ PlaceType' = PlaceType /\ CountType' = CountType
          /\ AnswerType' = AnswerType
      BY <1>10 DEF StreamType, PlaceType, CountType, AnswerType
    <2>2. TypeOK'
      BY <2>1, TypeParts DEF Inv
    <2>3. Streams' /\ Subscribing' /\ Counting' /\ Gate' /\ KeyFirst'
      BY <1>10 DEF Inv, Streams, Subscribing, Sent, Counting, Quiet, OneUnderWay, Gate, KeyFirst,
                   HasTelemetry, KeyComes
    <2>4. ConnectAwaitsBoth' /\ CountTrueUntilFailure' /\ TelemetryGated' /\ KeyBeforeTelemetry'
      BY <1>10 DEF Inv, ConnectAwaitsBoth, CountTrueUntilFailure, TelemetryGated,
                   KeyBeforeTelemetry
    <2>5. QED BY <2>2, <2>3, <2>4 DEF Inv
  <1>11. QED BY <1>1, <1>2, <1>3, <1>4, <1>5, <1>6, <1>7, <1>8, <1>9, <1>10
             DEF Next, Proceed

\* Inv is an inductive invariant.
LEMMA Invariance == Spec => []Inv
  BY InitInv, StepInv, PTL DEF Spec

\* Every variable keeps its type, however long the queues are.
THEOREM TypeCorrect == Spec => []TypeOK
  <1>1. Inv => TypeOK
    BY DEF Inv
  <1>2. QED BY <1>1, Invariance, PTL

\* comms_connect, which counts acknowledgements without looking at them, goes on only
\* when both subscriptions of this connection have been answered.
THEOREM BothAwaited == Spec => []ConnectAwaitsBoth
  <1>1. Inv => ConnectAwaitsBoth
    BY DEF Inv
  <1>2. QED BY <1>1, Invariance, PTL

\* Until a publish has failed, one that returns 0 has been acknowledged.
THEOREM CountTrue == Spec => []CountTrueUntilFailure
  <1>1. Inv => CountTrueUntilFailure
    BY DEF Inv
  <1>2. QED BY <1>1, Invariance, PTL

\* No telemetry leaves the node before a confirmation has reached it.
THEOREM Gated == Spec => []TelemetryGated
  <1>1. Inv => TelemetryGated
    BY DEF Inv
  <1>2. QED BY <1>1, Invariance, PTL

\* The key packet reaches the broker before any report, unless publishing it has failed.
THEOREM KeyGoesFirst == Spec => []KeyBeforeTelemetry
  <1>1. Inv => KeyBeforeTelemetry
    BY DEF Inv
  <1>2. QED BY <1>1, Invariance, PTL

\* A confirmation heard since the last drain takes effect at the next one, unless a
\* message that confirms nothing was heard with it.
THEOREM AnswerTaken == Spec => AnswerCounts
  <1>1. ASSUME Inv, [Next]_vars, heard # {}, heard \subseteq Confirmations, heard' = {}
        PROVE  sAttested'
    <2>1. slot \in Confirmations
      BY <1>1 DEF Inv, Gate
    <2>2. CASE Drain
      BY <2>1, <2>2, Zenon DEF Drain, Confirms
    <2>3. CASE ~Drain
      <3>1. heard \subseteq heard'
        <4>1. CASE Receive
          BY <4>1 DEF Receive, publish_callback, ack_callback, Unclaimed, raVars
        <4>2. CASE UNCHANGED vars
          BY <4>2 DEF vars, raVars
        <4>3. CASE Next /\ ~Receive
          <5> USE DEF raVars
          <5>1. heard' = heard
            BY <2>3, <4>3
               DEF Next, Proceed, Synchronise, ConnectRefused, Connect, SubscribeStep, Subscribe,
                   GiveUp, Subscribed, Ping, NewSession, NoSession, KeyWait, Query, SkipQuery,
                   Telemetry, Withhold, Broker, BrokerSubscribe, BrokerPublish, Answer, Speak,
                   Say, Lose
          <5>2. QED BY <5>1
        <4>4. QED BY <1>1, <4>1, <4>2, <4>3
      <3>2. QED BY <1>1, <3>1
    <2>4. QED BY <2>2, <2>3
  <1>2. Inv /\ [Next]_vars
          => [heard # {} /\ heard \subseteq Confirmations /\ heard' = {} => sAttested']_vars
    BY <1>1
  <1>3. QED BY <1>2, Invariance, PTL DEF Spec, AnswerCounts

=============================================================================

--------------------------- MODULE ReadingsProofs ---------------------------
(***************************************************************************)
(* A reading is true, exact and fits, for every set of answers of the      *)
(* chip, every time and every moisture.  ScreenProofs goes on with the     *)
(* screen.                                                                 *)
(***************************************************************************)
EXTENDS Readings, ConversionsProofs, SequenceTheorems, WellFoundedInduction

\* A set of numbers that holds 0 and with each number the next holds all.
LEMMA AllNumbers ==
  ASSUME NEW T, 0 \in T, \A n \in Nat : n \in T => n + 1 \in T
  PROVE  Nat \subseteq T
  <1> SUFFICES ASSUME Nat \ T # {} PROVE FALSE
    OBVIOUS
  <1> DEFINE Less == {p \in Nat \X Nat : p[1] < p[2]}
  <1>1. IsWellFoundedOn(Less, Nat)
    BY NatLessThanWellFounded, Zenon DEF OpToRel
  <1>2. PICK n \in Nat \ T : \A m \in Nat \ T : <<m, n>> \notin Less
    <2> HIDE DEF Less
    <2> QED BY <1>1, WFMin
  <1>3. n # 0 /\ n - 1 \in Nat \ T
    OBVIOUS
  <1>4. <<n - 1, n>> \in Less
    BY <1>3
  <1>5. QED BY <1>2, <1>3, <1>4

\* How far temperature_read_both has got says whether the chip is calibrated, and the
\* latch is set only if it is.
SensorSafe ==
  /\ sInitialized => calibrated
  /\ at \in {"settle", "measure"} => calibrated
  /\ at = "done" /\ ret = "OK" => calibrated /\ buf \in Buffers

Inv == TypeOK /\ SensorSafe

ScreenType == screen \in Screens /\ todo \in [Threads -> Seq(LcdCall)]
SensorType ==
  /\ sInitialized \in BOOLEAN /\ calibrated \in BOOLEAN
  /\ at \in Ats /\ ret \in Codes /\ buf \in Buffers \cup {<<>>}
RestType ==
  /\ pc \in [Threads -> {"sleep", "evaluate", "switch", "pulse", "mailbox",
                         "boot", "network", "idle", "sensor", "publish"}]
  /\ reading \in SensorReading
  /\ sPumpState \in BOOLEAN /\ timedOut \in BOOLEAN

LEMMA TypeParts == TypeOK <=> ScreenType /\ SensorType /\ RestType
  BY DEF TypeOK, ScreenType, SensorType, RestType

LEMMA TypePartsNext == TypeOK' <=> ScreenType' /\ SensorType' /\ RestType'
  BY DEF TypeOK, ScreenType, SensorType, RestType

-----------------------------------------------------------------------------
(* The screen *)

\* A page is a sequence of calls, of which the first cleans the screen.
CleanPages == {p \in Seq(LcdCall) : p # <<>> /\ Head(p) = Clean}

LEMMA CallsTyped ==
  /\ Clean \in LcdCall
  /\ \A c \in Colors : Bar(c) \in LcdCall
  /\ \A y \in Rows, l \in Labels : Text(y, l) \in LcdCall
  <1>1. Clean \in LcdCall
    BY DEF Clean, LcdCall, Inks, Colors
  <1>2. ASSUME NEW c \in Colors PROVE Bar(c) \in LcdCall
    BY DisplayAssumption DEF Bar, LcdCall, Inks
  <1>3. ASSUME NEW y \in Rows, NEW l \in Labels PROVE Text(y, l) \in LcdCall
    <2>1. Box[y, l] \in SUBSET Areas
      BY DisplayAssumption
    <2>2. QED BY <2>1 DEF Text, LcdCall, Inks
  <1>4. QED BY <1>1, <1>2, <1>3

LEMMA PagesTyped ==
  /\ display_connecting_network \in CleanPages
  /\ display_connected_network \in CleanPages
  /\ display_sensor_readings(TRUE) \in CleanPages
  /\ \A a \in BOOLEAN : display_pump_activation(a) \in CleanPages
  <1>1. Clean \in LcdCall /\ \A c \in Colors : Bar(c) \in LcdCall
    BY CallsTyped
  <1>2. \A y \in Rows, s \in Labels : Text(y, s) \in LcdCall
    BY CallsTyped
  <1>3. ASSUME NEW c \in Colors, NEW texts \in Seq(LcdCall)
        PROVE  Page(c, texts) \in CleanPages
    BY <1>1 DEF Page, CleanPages
  <1>4. ASSUME NEW x \in LcdCall, NEW y \in LcdCall
        PROVE  <<x, y>> \in Seq(LcdCall)
    OBVIOUS
  <1>5. ASSUME NEW x \in LcdCall, NEW y \in LcdCall, NEW z \in LcdCall
        PROVE  <<x, y, z>> \in Seq(LcdCall)
    OBVIOUS
  <1>6. /\ Text(30, "Connecting to") \in LcdCall /\ Text(46, "network...") \in LcdCall
        /\ Text(30, "Connected to") \in LcdCall /\ Text(46, "network !") \in LcdCall
        /\ Text(30, "Temp") \in LcdCall /\ Text(46, "Hum") \in LcdCall
        /\ Text(62, "Moist") \in LcdCall
        /\ Text(48, "Currently") \in LcdCall /\ Text(64, "watering...") \in LcdCall
        /\ Text(48, "Watering") \in LcdCall /\ Text(64, "finished!") \in LcdCall
    BY <1>2 DEF Rows, Labels
  <1>7. "Blue" \in Colors /\ "Red" \in Colors /\ "Green" \in Colors
    BY DEF Colors
  <1>8. display_connecting_network \in CleanPages
    BY <1>3, <1>4, <1>6, <1>7 DEF display_connecting_network
  <1>9. display_connected_network \in CleanPages
    BY <1>3, <1>4, <1>6, <1>7 DEF display_connected_network
  <1>10. display_sensor_readings(TRUE) \in CleanPages
    BY <1>3, <1>5, <1>6, <1>7 DEF display_sensor_readings
  <1>11. \A a \in BOOLEAN : display_pump_activation(a) \in CleanPages
    BY <1>3, <1>4, <1>6, <1>7 DEF display_pump_activation
  <1>12. QED BY <1>8, <1>9, <1>10, <1>11

\* A page shown, and a call drawn, leave the display typed.
LEMMA ShowTyped ==
  ASSUME ScreenType, NEW t \in Threads, NEW page \in CleanPages, Show(t, page)
  PROVE  ScreenType'
  BY DEF ScreenType, Show, CleanPages

\* A call that has one area less to colour is still a call.
LEMMA Shrunk ==
  ASSUME NEW q \in Seq(LcdCall), q # <<>>, NEW A
  PROVE  [q EXCEPT ![1].areas = @ \ A] \in Seq(LcdCall)
  <1>1. Len(q) \in Nat /\ 1 \in 1 .. Len(q) /\ q[1] \in LcdCall
    OBVIOUS
  <1>2. [q[1] EXCEPT !.areas = @ \ A] \in LcdCall
    BY <1>1 DEF LcdCall
  <1>3. QED BY <1>1, <1>2

LEMMA DrawTyped ==
  ASSUME ScreenType, NEW t \in Threads, Draw(t)
  PROVE  ScreenType'
  <1>0. todo[t] \in Seq(LcdCall) /\ todo[t] # <<>>
    BY DEF ScreenType, Draw, CallReturns, DrawArea
  <1>1. Head(todo[t]) \in LcdCall /\ Tail(todo[t]) \in Seq(LcdCall)
    BY <1>0, HeadTailProperties
  <1>2. CASE CallReturns(t)
    BY <1>1, <1>2 DEF CallReturns, ScreenType
  <1>3. ASSUME NEW x \in Areas, DrawArea(t, x)
        PROVE  ScreenType'
    <2>1. screen' \in Screens
      <3>1. Head(todo[t]).ink \in Inks
        BY <1>1 DEF LcdCall
      <3>2. QED BY <1>3, <3>1 DEF DrawArea, ScreenType, Screens
    <2>2. todo' \in [Threads -> Seq(LcdCall)]
      <3>1. [todo[t] EXCEPT ![1].areas = @ \ {x}] \in Seq(LcdCall)
        BY <1>0, Shrunk
      <3>2. QED BY <1>3, <3>1 DEF DrawArea, ScreenType
    <2>3. QED BY <2>1, <2>2 DEF ScreenType
  <1>4. QED BY <1>2, <1>3 DEF Draw

-----------------------------------------------------------------------------
(* The bits of a field *)

\* One bit of a field of the answer, at its weight.
Weighed(b, low, i) == Bit(b, i) * 2^(i - low)

\* A sum of them that does not depend on the order they are taken in.
Adds(g, b, low, S) ==
  /\ g \in [SUBSET S -> Int]
  /\ g[{}] = 0
  /\ \A s \in SUBSET S : \A i \in s : g[s] = Weighed(b, low, i) + g[s \ {i}]

\* A power of two is a number, and one may divide by those of a byte.
LEMMA PowersTyped ==
  /\ \A m \in Nat : 2^m \in Int
  /\ \A m \in 0 .. 7 : 2^m # 0
  <1>1. \A m \in Nat : 2^m \in Int
    BY SMT
  <1>2. ASSUME NEW m \in 0 .. 7, NEW p, p = 2^m PROVE p # 0
    <2>0. m = 0 => p = 1
      BY <1>2, SMT
    <2>1. m = 1 => p = 2
      BY <1>2, SMT
    <2>2. m = 2 => p = 4
      BY <1>2, SMT
    <2>3. m = 3 => p = 8
      BY <1>2, SMT
    <2>4. m = 4 => p = 16
      BY <1>2, SMT
    <2>5. m = 5 => p = 32
      BY <1>2, SMT
    <2>6. m = 6 => p = 64
      BY <1>2, SMT
    <2>7. m = 7 => p = 128
      BY <1>2, SMT
    <2>8. QED BY <2>0, <2>1, <2>2, <2>3, <2>4, <2>5, <2>6, <2>7, SMT
  <1>3. QED BY <1>1, <1>2

\* So a bit at its weight is a number.
LEMMA WeighedTyped ==
  ASSUME NEW b \in Answers, NEW low \in Nat, NEW i \in low .. low + 19, i < 40
  PROVE  Weighed(b, low, i) \in Int
  <1>1. 6 - (i \div 8) \in 1 .. 6 /\ i % 8 \in 0 .. 7 /\ i - low \in Nat
    BY SMT
  <1>2. b[6 - (i \div 8)] \in Nat
    BY <1>1 DEF Answers, Byte
  <1>3. /\ 2^(i % 8) \in Int /\ 2^(i % 8) # 0 /\ 2^(i - low) \in Int
    <2>1. PICK m, n : m = i % 8 /\ n = i - low
      OBVIOUS
    <2>2. m \in 0 .. 7 /\ m \in Nat /\ n \in Nat
      BY <1>1, <2>1, SMT
    <2>3. 2^m \in Int /\ 2^m # 0 /\ 2^n \in Int
      BY <2>2, PowersTyped, Zenon
    <2>4. QED BY <2>1, <2>3, Zenon
  <1>4. Bit(b, i) \in Int
    <2>1. ASSUME NEW v \in Nat, NEW m \in Int, m # 0 PROVE (v \div m) % 2 \in Int
      BY <2>1
    <2>2. QED BY <1>2, <1>3, <2>1 DEF Bit
  <1>5. 2^(i - low) \in Int
    BY <1>1, <1>3
  <1>6. QED BY <1>4, <1>5 DEF Weighed

\* There is one.
LEMMA AddsExists ==
  ASSUME NEW b, NEW low \in Nat, NEW k \in Nat,
         \A i \in low .. low + k - 1 : Weighed(b, low, i) \in Int
  PROVE  \E g : Adds(g, b, low, low .. low + k - 1)
  <1> DEFINE T == {n \in Nat : n <= k => \E g : Adds(g, b, low, low .. low + n - 1)}
  <1>1. 0 \in T
    <2>1. low .. low + 0 - 1 = {}
      OBVIOUS
    <2>2. Adds([s \in {{}} |-> 0], b, low, {})
      BY DEF Adds
    <2>3. QED BY <2>1, <2>2
  <1>2. ASSUME NEW n \in Nat, n \in T PROVE n + 1 \in T
    <2> SUFFICES ASSUME n + 1 <= k
                 PROVE  \E h : Adds(h, b, low, low .. low + (n + 1) - 1)
      OBVIOUS
    <2>1. PICK g : Adds(g, b, low, low .. low + n - 1)
      BY <1>2
    <2> DEFINE m == low + n
               S == low .. low + n - 1
               R == low .. low + (n + 1) - 1
    <2>2. m \in low .. low + k - 1 /\ m \in R /\ m \notin S /\ S = R \ {m}
      OBVIOUS
    <2> DEFINE w == Weighed(b, low, m)
               h == [s \in SUBSET R |-> IF m \in s THEN w + g[s \ {m}] ELSE g[s]]
    <2>3. w \in Int
      BY <2>2
    <2>w. w = Weighed(b, low, m)
      OBVIOUS
    <2>g. /\ g \in [SUBSET S -> Int] /\ g[{}] = 0
          /\ \A s \in SUBSET S : \A i \in s : g[s] = Weighed(b, low, i) + g[s \ {i}]
      BY <2>1 DEF Adds
    <2>i. \A i \in R : Weighed(b, low, i) \in Int
      OBVIOUS
    <2> HIDE DEF m, S, R, w
    <2>4. h \in [SUBSET R -> Int]
      <3>1. ASSUME NEW s \in SUBSET R PROVE (IF m \in s THEN w + g[s \ {m}] ELSE g[s]) \in Int
        <4>1. CASE m \in s
          <5>1. s \ {m} \in SUBSET S
            BY <2>2
          <5>2. g[s \ {m}] \in Int
            BY <2>g, <5>1
          <5>3. QED BY <2>3, <4>1, <5>2
        <4>2. CASE m \notin s
          <5>1. s \in SUBSET S
            BY <2>2, <4>2
          <5>2. QED BY <2>g, <4>2, <5>1
        <4>3. QED BY <4>1, <4>2
      <3>2. QED BY <3>1
    <2>5. h[{}] = 0
      BY <2>g
    <2>6. ASSUME NEW s \in SUBSET R, NEW i \in s
          PROVE  h[s] = Weighed(b, low, i) + h[s \ {i}]
      <3> DEFINE v == Weighed(b, low, i)
      <3>v. v \in Int
        BY <2>i
      <3>1. CASE m \in s /\ i = m
        <4>1. h[s] = w + g[s \ {m}] /\ h[s \ {i}] = g[s \ {m}]
          BY <3>1
        <4>2. QED BY <3>1, <4>1, <2>w
      <3>2. CASE m \in s /\ i # m
        <4>1. s \ {m} \in SUBSET S /\ i \in s \ {m} /\ (s \ {m}) \ {i} \in SUBSET S
              /\ (s \ {m}) \ {i} = (s \ {i}) \ {m}
          BY <2>2, <3>2
        <4>2. g[s \ {m}] = v + g[(s \ {i}) \ {m}] /\ g[(s \ {i}) \ {m}] \in Int
          BY <2>g, <4>1
        <4>3. h[s] = w + g[s \ {m}] /\ h[s \ {i}] = w + g[(s \ {i}) \ {m}]
          BY <3>2
        <4> HIDE DEF v, h
        <4>4. h[s] = v + h[s \ {i}]
          <5>1. ASSUME NEW x \in Int, NEW y, y = v + x PROVE w + y = v + (w + x)
            BY <2>3, <3>v, <5>1
          <5>2. QED BY <4>2, <4>3, <5>1
        <4>5. QED BY <4>4 DEF v
      <3>3. CASE m \notin s
        <4>1. s \in SUBSET S
          BY <2>2, <3>3
        <4>2. h[s] = g[s] /\ h[s \ {i}] = g[s \ {i}]
          BY <3>3
        <4>3. QED BY <2>g, <4>1, <4>2
      <3>4. QED BY <3>1, <3>2, <3>3
    <2>7. Adds(h, b, low, R)
      <3> HIDE DEF h
      <3> QED BY <2>4, <2>5, <2>6 DEF Adds
    <2>8. QED BY <2>7 DEF R
  <1>3. Nat \subseteq T
    <2> HIDE DEF T
    <2> QED BY <1>1, <1>2, AllNumbers
  <1>4. QED BY <1>3

\* The function by which Bits is defined.
Summed(g, b, low, S) ==
  g = [s \in SUBSET S |->
         IF s = {} THEN 0
         ELSE LET i == CHOOSE x \in s : TRUE IN Bit(b, i) * 2^(i - low) + g[s \ {i}]]

\* It does not depend on the order either.
LEMMA SummedAdds ==
  ASSUME NEW b, NEW low, NEW S, IsFiniteSet(S),
         NEW g, Summed(g, b, low, S), NEW h, Adds(h, b, low, S)
  PROVE  g[S] = h[S]
  <1> DEFINE T == {n \in Nat : \A s \in SUBSET S : Cardinality(s) = n => g[s] = h[s]}
  <1>1. \A s \in SUBSET S : IsFiniteSet(s) /\ Cardinality(s) \in Nat
    BY FS_Subset, FS_CardinalityType
  <1>2. 0 \in T
    <2>1. ASSUME NEW s \in SUBSET S, Cardinality(s) = 0 PROVE g[s] = h[s]
      <3>1. s = {}
        BY <1>1, <2>1, FS_EmptySet
      <3>2. g[s] = 0
        BY <3>1 DEF Summed
      <3>3. QED BY <3>1, <3>2 DEF Adds
    <2>2. QED BY <2>1
  <1>3. ASSUME NEW n \in Nat, n \in T PROVE n + 1 \in T
    <2>1. ASSUME NEW s \in SUBSET S, Cardinality(s) = n + 1 PROVE g[s] = h[s]
      <3>1. s # {}
        BY <1>1, <2>1, FS_EmptySet
      <3>2. PICK i : i = CHOOSE x \in s : TRUE
        OBVIOUS
      <3>3. i \in s /\ s \ {i} \in SUBSET S
        BY <3>1, <3>2
      <3>4. g[s] = Bit(b, i) * 2^(i - low) + g[s \ {i}]
        BY <3>1, <3>2, Zenon DEF Summed
      <3>5. Cardinality(s \ {i}) = n
        BY <1>1, <2>1, <3>3, FS_RemoveElement
      <3>6. g[s \ {i}] = h[s \ {i}]
        BY <1>3, <3>3, <3>5
      <3>7. h[s] = Weighed(b, low, i) + h[s \ {i}]
        BY <3>3 DEF Adds
      <3>8. QED BY <3>4, <3>6, <3>7, Zenon DEF Weighed
    <2>2. QED BY <2>1
  <1>4. Nat \subseteq T
    <2> HIDE DEF T
    <2> QED BY <1>2, <1>3, AllNumbers
  <1>5. QED BY <1>1, <1>4

\* A sum in any order is also one in that order.
LEMMA SummedExists ==
  ASSUME NEW b, NEW low, NEW S, NEW h, Adds(h, b, low, S)
  PROVE  Summed(h, b, low, S)
  <1>1. ASSUME NEW s \in SUBSET S
        PROVE  h[s] = IF s = {} THEN 0
                      ELSE LET i == CHOOSE x \in s : TRUE
                           IN  Bit(b, i) * 2^(i - low) + h[s \ {i}]
    <2>1. CASE s = {}
      BY <2>1 DEF Adds
    <2>2. CASE s # {}
      <3>1. PICK i : i = CHOOSE x \in s : TRUE
        OBVIOUS
      <3>2. i \in s
        BY <2>2, <3>1
      <3>3. h[s] = Weighed(b, low, i) + h[s \ {i}]
        BY <3>2 DEF Adds
      <3>4. QED BY <2>2, <3>1, <3>3, Zenon DEF Weighed
    <2>3. QED BY <2>1, <2>2
  <1>2. h \in [SUBSET S -> Int]
    BY DEF Adds
  <1>3. QED BY <1>1, <1>2, Zenon DEF Summed

\* So Bits is the sum in any order.
LEMMA BitsIs ==
  ASSUME NEW b, NEW low, NEW high, IsFiniteSet(low .. high),
         NEW h, Adds(h, b, low, low .. high)
  PROVE  Bits(b, low, high) = h[low .. high]
  <1> DEFINE S == low .. high
             c == CHOOSE g : Summed(g, b, low, S)
  <1>1. Bits(b, low, high) = c[S]
    BY Zenon DEF Bits, MapThenSumSet, MapThenFoldSet, Summed
  <1>2. Summed(c, b, low, S)
    BY SummedExists, Zenon
  <1>3. c[S] = h[S]
    <2> HIDE DEF c
    <2> QED BY <1>2, SummedAdds
  <1>4. QED BY <1>1, <1>3

\* Bit k of byte j.
LEMMA BitAt ==
  ASSUME NEW b \in Answers, NEW j \in 2 .. 6, NEW k \in 0 .. 7, NEW i, i = 8 * (6 - j) + k
  PROVE  Bit(b, i) = (b[j] \div 2^k) % 2
  <1>1. 6 - (i \div 8) = j /\ i % 8 = k
    BY SMT
  <1>2. QED BY <1>1, Zenon DEF Bit

\* The sum up to a bit is that bit and the sum before it.
LEMMA NextBit ==
  ASSUME NEW g, NEW b \in Answers, NEW low \in Nat, low <= 20,
         Adds(g, b, low, low .. low + 19), NEW k \in low .. low + 19
  PROVE  /\ g[low .. k] = Weighed(b, low, k) + g[low .. k - 1]
         /\ g[low .. k - 1] \in Int
  <1>1. /\ low .. k \in SUBSET (low .. low + 19) /\ k \in low .. k
        /\ (low .. k) \ {k} = low .. k - 1 /\ low .. k - 1 \in SUBSET (low .. low + 19)
    OBVIOUS
  <1>2. QED BY <1>1 DEF Adds

\* Four bits at weights w, 2w, 4w and 8w make w times their number.
LEMMA FourBits ==
  ASSUME NEW x0 \in {0, 1}, NEW x1 \in {0, 1}, NEW x2 \in {0, 1}, NEW x3 \in {0, 1},
         NEW w \in Nat, NEW r \in Int
  PROVE  x3 * (8 * w) + (x2 * (4 * w) + (x1 * (2 * w) + (x0 * w + r)))
           = w * (x0 + 2 * x1 + 4 * x2 + 8 * x3) + r
  <1>1. /\ x0 * w = IF x0 = 0 THEN 0 ELSE w
        /\ x1 * (2 * w) = IF x1 = 0 THEN 0 ELSE 2 * w
        /\ x2 * (4 * w) = IF x2 = 0 THEN 0 ELSE 4 * w
        /\ x3 * (8 * w) = IF x3 = 0 THEN 0 ELSE 8 * w
    BY SMT
  <1>2. QED BY <1>1

\* The bits of a byte make its halves.
LEMMA HalfBits ==
  ASSUME NEW v \in Byte
  PROVE  /\ (v % 2) + 2 * ((v \div 2) % 2) + 4 * ((v \div 4) % 2) + 8 * ((v \div 8) % 2) = v % 16
         /\ ((v \div 16) % 2) + 2 * ((v \div 32) % 2) + 4 * ((v \div 64) % 2)
              + 8 * ((v \div 128) % 2) = v \div 16
         /\ v % 2 \in {0, 1} /\ (v \div 2) % 2 \in {0, 1}
         /\ (v \div 4) % 2 \in {0, 1} /\ (v \div 8) % 2 \in {0, 1}
         /\ (v \div 16) % 2 \in {0, 1} /\ (v \div 32) % 2 \in {0, 1}
         /\ (v \div 64) % 2 \in {0, 1} /\ (v \div 128) % 2 \in {0, 1}
  BY SMT DEF Byte

\* Four bits of a field begin at bit d, of weight w.
Weight(d, w) ==
  \/ d = 0 /\ w = 1
  \/ d = 4 /\ w = 16
  \/ d = 8 /\ w = 256
  \/ d = 12 /\ w = 4096
  \/ d = 16 /\ w = 65536

\* The weights of the four bits.
LEMMA Weights ==
  ASSUME NEW low \in Nat, NEW d, NEW w, Weight(d, w), NEW i, i = low + d
  PROVE  /\ w \in Nat /\ low <= i /\ i + 3 <= low + 19
         /\ 2^(i - low) = w /\ 2^(i + 1 - low) = 2 * w
         /\ 2^(i + 2 - low) = 4 * w /\ 2^(i + 3 - low) = 8 * w
  <1>1. CASE d = 0 /\ w = 1
    <2>1. i - low = 0 /\ i + 1 - low = 1 /\ i + 2 - low = 2 /\ i + 3 - low = 3
      BY <1>1
    <2>2. /\ 2^(i - low) = 2^0 /\ 2^(i + 1 - low) = 2^1
          /\ 2^(i + 2 - low) = 2^2 /\ 2^(i + 3 - low) = 2^3
      BY <2>1
    <2>3. 2^0 = 1 /\ 2^1 = 2 /\ 2^2 = 4 /\ 2^3 = 8
      OBVIOUS
    <2>4. QED BY <1>1, <2>2, <2>3
  <1>2. CASE d = 4 /\ w = 16
    <2>1. i - low = 4 /\ i + 1 - low = 5 /\ i + 2 - low = 6 /\ i + 3 - low = 7
      BY <1>2
    <2>2. /\ 2^(i - low) = 2^4 /\ 2^(i + 1 - low) = 2^5
          /\ 2^(i + 2 - low) = 2^6 /\ 2^(i + 3 - low) = 2^7
      BY <2>1
    <2>3. 2^4 = 16 /\ 2^5 = 32 /\ 2^6 = 64 /\ 2^7 = 128
      OBVIOUS
    <2>4. QED BY <1>2, <2>2, <2>3
  <1>3. CASE d = 8 /\ w = 256
    <2>1. i - low = 8 /\ i + 1 - low = 9 /\ i + 2 - low = 10 /\ i + 3 - low = 11
      BY <1>3
    <2>2. /\ 2^(i - low) = 2^8 /\ 2^(i + 1 - low) = 2^9
          /\ 2^(i + 2 - low) = 2^10 /\ 2^(i + 3 - low) = 2^11
      BY <2>1
    <2>3. 2^8 = 256 /\ 2^9 = 512 /\ 2^10 = 1024 /\ 2^11 = 2048
      OBVIOUS
    <2>4. QED BY <1>3, <2>2, <2>3
  <1>4. CASE d = 12 /\ w = 4096
    <2>1. i - low = 12 /\ i + 1 - low = 13 /\ i + 2 - low = 14 /\ i + 3 - low = 15
      BY <1>4
    <2>2. /\ 2^(i - low) = 2^12 /\ 2^(i + 1 - low) = 2^13
          /\ 2^(i + 2 - low) = 2^14 /\ 2^(i + 3 - low) = 2^15
      BY <2>1
    <2>3. 2^12 = 4096 /\ 2^13 = 8192 /\ 2^14 = 16384 /\ 2^15 = 32768
      OBVIOUS
    <2>4. QED BY <1>4, <2>2, <2>3
  <1>5. CASE d = 16 /\ w = 65536
    <2>1. i - low = 16 /\ i + 1 - low = 17 /\ i + 2 - low = 18 /\ i + 3 - low = 19
      BY <1>5
    <2>2. /\ 2^(i - low) = 2^16 /\ 2^(i + 1 - low) = 2^17
          /\ 2^(i + 2 - low) = 2^18 /\ 2^(i + 3 - low) = 2^19
      BY <2>1
    <2>3. 2^16 = 65536 /\ 2^17 = 131072 /\ 2^18 = 262144 /\ 2^19 = 524288
      OBVIOUS
    <2>4. QED BY <1>5, <2>2, <2>3
  <1>6. QED BY <1>1, <1>2, <1>3, <1>4, <1>5 DEF Weight

\* Half a byte of a field.
HalfAdds(g, b, low, j, h, d, w, from, to, n) ==
  /\ j \in 2 .. 6 /\ h \in {0, 4} /\ Weight(d, w) /\ low + d = 8 * (6 - j) + h
  /\ from = low + d - 1 /\ to = low + d + 3
  /\ n = IF h = 0 THEN b[j] % 16 ELSE b[j] \div 16
  => g[low .. to] = w * n + g[low .. from]

\* It adds its number at its weight.
LEMMA HalfSum ==
  ASSUME NEW g, NEW b \in Answers, NEW low \in Nat, low <= 20,
         Adds(g, b, low, low .. low + 19),
         NEW j, NEW h, NEW d, NEW w, NEW from, NEW to, NEW n
  PROVE  HalfAdds(g, b, low, j, h, d, w, from, to, n)
  <1> SUFFICES ASSUME j \in 2 .. 6, h \in {0, 4}, Weight(d, w), low + d = 8 * (6 - j) + h,
                      from = low + d - 1, to = low + d + 3,
                      n = IF h = 0 THEN b[j] % 16 ELSE b[j] \div 16
               PROVE  g[low .. to] = w * n + g[low .. from]
    BY Zenon DEF HalfAdds
  <1>0. PICK i, k1, k2 : i = low + d /\ k1 = i + 1 /\ k2 = i + 2
    OBVIOUS
  <1>w. /\ w \in Nat /\ low <= i /\ i + 3 <= low + 19
        /\ 2^(i - low) = w /\ 2^(i + 1 - low) = 2 * w
        /\ 2^(i + 2 - low) = 4 * w /\ 2^(i + 3 - low) = 8 * w
    BY <1>0, Weights
  <1>d. d \in Int
    BY SMT DEF Weight
  <1>1. /\ i \in low .. low + 19 /\ k1 \in low .. low + 19
        /\ k2 \in low .. low + 19 /\ to \in low .. low + 19
        /\ i - 1 = from /\ k1 - 1 = i /\ k2 - 1 = k1 /\ to - 1 = k2
        /\ to = i + 3 /\ i \in Int
    BY <1>0, <1>w, <1>d
  <1>2. PICK v : v = b[j] /\ v \in Byte
    BY DEF Answers
  <1>3. PICK r : r = g[low .. from]
    OBVIOUS
  <1>4. /\ r \in Int /\ g[low .. i] = Weighed(b, low, i) + r
        /\ g[low .. k1] = Weighed(b, low, k1) + g[low .. i]
        /\ g[low .. k2] = Weighed(b, low, k2) + g[low .. k1]
        /\ g[low .. to] = Weighed(b, low, to) + g[low .. k2]
    <2>1. \A k \in low .. low + 19 :
            g[low .. k] = Weighed(b, low, k) + g[low .. k - 1] /\ g[low .. k - 1] \in Int
      BY NextBit
    <2>2. QED BY <1>1, <1>3, <2>1
  <1>5. PICK x0, x1, x2, x3 :
          /\ x0 = Bit(b, i) /\ x1 = Bit(b, k1) /\ x2 = Bit(b, k2) /\ x3 = Bit(b, to)
    OBVIOUS
  <1>6. /\ x0 \in {0, 1} /\ x1 \in {0, 1} /\ x2 \in {0, 1} /\ x3 \in {0, 1}
        /\ x0 + 2 * x1 + 4 * x2 + 8 * x3 = n
    <2>e. PICK e : e = 8 * (6 - j) /\ e \in Int
      OBVIOUS
    <2>0. \A k \in 0 .. 7 : Bit(b, e + k) = (v \div 2^k) % 2
      BY <1>2, <2>e, BitAt
    <2>i. i = e + h /\ k1 = i + 1 /\ k2 = i + 2 /\ to = i + 3
      BY <1>0, <1>1, <2>e
    <2>1. CASE h = 0
      <3>0. /\ 0 \in 0 .. 7 /\ 1 \in 0 .. 7 /\ 2 \in 0 .. 7 /\ 3 \in 0 .. 7
            /\ i = e + 0 /\ k1 = e + 1 /\ k2 = e + 2 /\ to = e + 3
        BY <2>e, <2>i, <2>1
      <3>1. /\ x0 = (v \div 2^0) % 2 /\ x1 = (v \div 2^1) % 2
            /\ x2 = (v \div 2^2) % 2 /\ x3 = (v \div 2^3) % 2
        BY <1>5, <2>0, <3>0
      <3>2. x0 = v % 2 /\ x1 = (v \div 2) % 2 /\ x2 = (v \div 4) % 2 /\ x3 = (v \div 8) % 2
        <4>1. v \div 1 = v
          BY <1>2, SMT DEF Byte
        <4>2. 2^0 = 1 /\ 2^1 = 2 /\ 2^2 = 4 /\ 2^3 = 8
          OBVIOUS
        <4>3. QED BY <3>1, <4>1, <4>2
      <3>3. n = v % 16
        BY <1>2, <2>1
      <3>4. QED BY <1>2, <3>2, <3>3, HalfBits
    <2>2. CASE h = 4
      <3>0. /\ 4 \in 0 .. 7 /\ 5 \in 0 .. 7 /\ 6 \in 0 .. 7 /\ 7 \in 0 .. 7
            /\ i = e + 4 /\ k1 = e + 5 /\ k2 = e + 6 /\ to = e + 7
        BY <2>e, <2>i, <2>2
      <3>1. /\ x0 = (v \div 2^4) % 2 /\ x1 = (v \div 2^5) % 2
            /\ x2 = (v \div 2^6) % 2 /\ x3 = (v \div 2^7) % 2
        BY <1>5, <2>0, <3>0
      <3>2. /\ x0 = (v \div 16) % 2 /\ x1 = (v \div 32) % 2
            /\ x2 = (v \div 64) % 2 /\ x3 = (v \div 128) % 2
        <4>1. 2^4 = 16 /\ 2^5 = 32 /\ 2^6 = 64 /\ 2^7 = 128
          OBVIOUS
        <4>2. QED BY <3>1, <4>1
      <3>3. n = v \div 16
        BY <1>2, <2>2
      <3>4. QED BY <1>2, <3>2, <3>3, HalfBits
    <2>3. QED BY <2>1, <2>2
  <1>7. /\ Weighed(b, low, i) = x0 * w /\ Weighed(b, low, k1) = x1 * (2 * w)
        /\ Weighed(b, low, k2) = x2 * (4 * w) /\ Weighed(b, low, to) = x3 * (8 * w)
    <2>1. ASSUME NEW k, NEW x, x = Bit(b, k), NEW y, 2^(k - low) = y
          PROVE  Weighed(b, low, k) = x * y
      BY <2>1, Zenon DEF Weighed
    <2>2. k1 - low = i + 1 - low /\ k2 - low = i + 2 - low /\ to - low = i + 3 - low
      <3>1. k1 = i + 1 /\ k2 = i + 2 /\ to = i + 3 /\ i \in Int
        BY <1>0, <1>1
      <3>2. ASSUME NEW p \in Int, NEW q \in Int
            PROVE  p + 1 - q = (p + 1) - q /\ p + 2 - q = (p + 2) - q /\ p + 3 - q = (p + 3) - q
        OBVIOUS
      <3>3. QED BY <3>1, <3>2
    <2>3. 2^(k1 - low) = 2 * w
      BY <1>w, <2>2
    <2>4. 2^(k2 - low) = 4 * w
      BY <1>w, <2>2
    <2>5. 2^(to - low) = 8 * w
      BY <1>w, <2>2
    <2>6. Weighed(b, low, i) = x0 * w
      <3>1. x0 = Bit(b, i)
        BY <1>5
      <3>2. 2^(i - low) = w
        BY <1>w
      <3>3. QED BY <2>1, <3>1, <3>2
    <2>7. Weighed(b, low, k1) = x1 * (2 * w)
      BY <1>5, <2>1, <2>3, Zenon
    <2>8. Weighed(b, low, k2) = x2 * (4 * w)
      BY <1>5, <2>1, <2>4, Zenon
    <2>9. Weighed(b, low, to) = x3 * (8 * w)
      BY <1>5, <2>1, <2>5, Zenon
    <2>10. QED BY <2>6, <2>7, <2>8, <2>9
  <1>8. g[low .. to] = x3 * (8 * w) + (x2 * (4 * w) + (x1 * (2 * w) + (x0 * w + r)))
    BY <1>4, <1>7
  <1>9. g[low .. to] = w * (x0 + 2 * x1 + 4 * x2 + 8 * x3) + r
    BY <1>w, <1>4, <1>6, <1>8, FourBits
  <1>10. QED BY <1>3, <1>6, <1>9

\* The bits of a field have such a sum.
LEMMA FieldSum ==
  ASSUME NEW b \in Answers, NEW low \in Nat, low <= 20
  PROVE  \E g : Adds(g, b, low, low .. low + 19) /\ Bits(b, low, low + 19) = g[low .. low + 19]
  <1>1. \A i \in low .. low + 20 - 1 : Weighed(b, low, i) \in Int
    BY WeighedTyped
  <1>2. low + 20 - 1 = low + 19
    OBVIOUS
  <1>3. PICK g : Adds(g, b, low, low .. low + 19)
    <2>1. \E g : Adds(g, b, low, low .. low + 20 - 1)
      BY <1>1, AddsExists
    <2>2. QED BY <1>2, <2>1
  <1>4. IsFiniteSet(low .. low + 19)
    BY FS_Interval
  <1>5. QED BY <1>3, <1>4, BitsIs

\* The bits of a field make the number that parse_measurement makes of its bytes.
LEMMA BitsTemperature ==
  ASSUME NEW b \in Answers
  PROVE  Bits(b, 0, 19) = RawTemperature(b)
  <1>1. PICK g : Adds(g, b, 0, 0 .. 0 + 19) /\ Bits(b, 0, 0 + 19) = g[0 .. 0 + 19]
    <2>1. 0 \in Nat /\ 0 <= 20
      OBVIOUS
    <2>2. QED BY <2>1, FieldSum
  <1>2. /\ g[0 .. 3] = 1 * (b[6] % 16) + g[0 .. -1]
        /\ g[0 .. 7] = 16 * (b[6] \div 16) + g[0 .. 3]
        /\ g[0 .. 11] = 256 * (b[5] % 16) + g[0 .. 7]
        /\ g[0 .. 15] = 4096 * (b[5] \div 16) + g[0 .. 11]
        /\ g[0 .. 19] = 65536 * (b[4] % 16) + g[0 .. 15]
    <2>1. \A j, h, d, w, from, to, n : HalfAdds(g, b, 0, j, h, d, w, from, to, n)
      <3>1. 0 \in Nat /\ 0 <= 20
        OBVIOUS
      <3>2. QED BY <1>1, <3>1, HalfSum, Zenon
    <2>2. g[0 .. 3] = 1 * (b[6] % 16) + g[0 .. -1]
      <3>1. HalfAdds(g, b, 0, 6, 0, 0, 1, -1, 3, b[6] % 16)
        BY <2>1
      <3>2. QED BY <3>1 DEF HalfAdds, Weight
    <2>3. g[0 .. 7] = 16 * (b[6] \div 16) + g[0 .. 3]
      <3>1. HalfAdds(g, b, 0, 6, 4, 4, 16, 3, 7, b[6] \div 16)
        BY <2>1
      <3>2. QED BY <3>1 DEF HalfAdds, Weight
    <2>4. g[0 .. 11] = 256 * (b[5] % 16) + g[0 .. 7]
      <3>1. HalfAdds(g, b, 0, 5, 0, 8, 256, 7, 11, b[5] % 16)
        BY <2>1
      <3>2. QED BY <3>1 DEF HalfAdds, Weight
    <2>5. g[0 .. 15] = 4096 * (b[5] \div 16) + g[0 .. 11]
      <3>1. HalfAdds(g, b, 0, 5, 4, 12, 4096, 11, 15, b[5] \div 16)
        BY <2>1
      <3>2. QED BY <3>1 DEF HalfAdds, Weight
    <2>6. g[0 .. 19] = 65536 * (b[4] % 16) + g[0 .. 15]
      <3>1. HalfAdds(g, b, 0, 4, 0, 16, 65536, 15, 19, b[4] % 16)
        BY <2>1
      <3>2. QED BY <3>1 DEF HalfAdds, Weight
    <2>7. QED BY <2>2, <2>3, <2>4, <2>5, <2>6
  <1>3. g[0 .. -1] = 0
    <2>1. 0 .. -1 = {}
      OBVIOUS
    <2>2. QED BY <1>1, <2>1, Zenon DEF Adds
  <1>4. PICK l, s0, s1, t0, t1 :
          /\ l = b[4] % 16 /\ s0 = b[5] % 16 /\ s1 = b[5] \div 16
          /\ t0 = b[6] % 16 /\ t1 = b[6] \div 16
    OBVIOUS
  <1>5. Bits(b, 0, 19) = 65536 * l + (4096 * s1 + (256 * s0 + (16 * t1 + (1 * t0 + 0))))
    <2>1. 0 + 19 = 19
      OBVIOUS
    <2>2. QED BY <1>1, <1>2, <1>3, <1>4, <2>1
  <1>6. b[4] \in Byte /\ b[5] \in Byte /\ b[6] \in Byte
    BY SMT DEF Answers
  <1>7. b[5] = 16 * s1 + s0 /\ b[6] = 16 * t1 + t0 /\ l \in Nat
        /\ s0 \in Nat /\ s1 \in Nat /\ t0 \in Nat /\ t1 \in Nat
    BY <1>4, <1>6, Nibbles
  <1>8. RawTemperature(b) = (b[4] % 16) * 65536 + b[5] * 256 + b[6]
    BY DEF RawTemperature
  <1>9. QED BY <1>4, <1>5, <1>7, <1>8, SMT

LEMMA BitsHumidity ==
  ASSUME NEW b \in Answers
  PROVE  Bits(b, 20, 39) = RawHumidity(b)
  <1>1. PICK g : Adds(g, b, 20, 20 .. 20 + 19) /\ Bits(b, 20, 20 + 19) = g[20 .. 20 + 19]
    <2>1. 20 \in Nat /\ 20 <= 20
      OBVIOUS
    <2>2. QED BY <2>1, FieldSum
  <1>2. /\ g[20 .. 23] = 1 * (b[4] \div 16) + g[20 .. 19]
        /\ g[20 .. 27] = 16 * (b[3] % 16) + g[20 .. 23]
        /\ g[20 .. 31] = 256 * (b[3] \div 16) + g[20 .. 27]
        /\ g[20 .. 35] = 4096 * (b[2] % 16) + g[20 .. 31]
        /\ g[20 .. 39] = 65536 * (b[2] \div 16) + g[20 .. 35]
    <2>1. \A j, h, d, w, from, to, n : HalfAdds(g, b, 20, j, h, d, w, from, to, n)
      <3>1. 20 \in Nat /\ 20 <= 20
        OBVIOUS
      <3>2. QED BY <1>1, <3>1, HalfSum, Zenon
    <2>2. g[20 .. 23] = 1 * (b[4] \div 16) + g[20 .. 19]
      <3>1. HalfAdds(g, b, 20, 4, 4, 0, 1, 19, 23, b[4] \div 16)
        BY <2>1
      <3>2. QED BY <3>1 DEF HalfAdds, Weight
    <2>3. g[20 .. 27] = 16 * (b[3] % 16) + g[20 .. 23]
      <3>1. HalfAdds(g, b, 20, 3, 0, 4, 16, 23, 27, b[3] % 16)
        BY <2>1
      <3>2. QED BY <3>1 DEF HalfAdds, Weight
    <2>4. g[20 .. 31] = 256 * (b[3] \div 16) + g[20 .. 27]
      <3>1. HalfAdds(g, b, 20, 3, 4, 8, 256, 27, 31, b[3] \div 16)
        BY <2>1
      <3>2. QED BY <3>1 DEF HalfAdds, Weight
    <2>5. g[20 .. 35] = 4096 * (b[2] % 16) + g[20 .. 31]
      <3>1. HalfAdds(g, b, 20, 2, 0, 12, 4096, 31, 35, b[2] % 16)
        BY <2>1
      <3>2. QED BY <3>1 DEF HalfAdds, Weight
    <2>6. g[20 .. 39] = 65536 * (b[2] \div 16) + g[20 .. 35]
      <3>1. HalfAdds(g, b, 20, 2, 4, 16, 65536, 35, 39, b[2] \div 16)
        BY <2>1
      <3>2. QED BY <3>1 DEF HalfAdds, Weight
    <2>7. QED BY <2>2, <2>3, <2>4, <2>5, <2>6
  <1>3. g[20 .. 19] = 0
    <2>1. 20 .. 19 = {}
      OBVIOUS
    <2>2. QED BY <1>1, <2>1, Zenon DEF Adds
  <1>4. PICK l, s0, s1, t0, t1 :
          /\ l = b[4] \div 16 /\ s0 = b[3] % 16 /\ s1 = b[3] \div 16
          /\ t0 = b[2] % 16 /\ t1 = b[2] \div 16
    OBVIOUS
  <1>5. Bits(b, 20, 39) = 65536 * t1 + (4096 * t0 + (256 * s1 + (16 * s0 + (1 * l + 0))))
    <2>1. 20 + 19 = 39
      OBVIOUS
    <2>2. QED BY <1>1, <1>2, <1>3, <1>4, <2>1
  <1>6. b[4] \in Byte /\ b[3] \in Byte /\ b[2] \in Byte
    BY SMT DEF Answers
  <1>7. b[3] = 16 * s1 + s0 /\ b[2] = 16 * t1 + t0 /\ l \in Nat
        /\ s0 \in Nat /\ s1 \in Nat /\ t0 \in Nat /\ t1 \in Nat
    BY <1>4, <1>6, Nibbles
  <1>8. RawHumidity(b) = b[2] * 4096 + b[3] * 16 + (b[4] \div 16)
    BY DEF RawHumidity
  <1>9. QED BY <1>4, <1>5, <1>7, <1>8, SMT

-----------------------------------------------------------------------------
(* The sensor and the readings *)

\* What is made of an answer of the chip fits its field.
LEMMA ConvertedFits ==
  ASSUME NEW b \in Buffers
  PROVE  CelsiusX10(RawTemperature(b)) \in I16 /\ HumidityX10(RawHumidity(b)) \in U16
  <1>1. b \in Answers
    BY BuffersAssumption DEF Answers
  <1>2. RawHumidity(b) \in U20 /\ RawTemperature(b) \in U20
    BY <1>1, SplitsWord
  <1> DEFINE c == CelsiusX10(RawTemperature(b))
             h == HumidityX10(RawHumidity(b))
  <1>3. c \in -500 .. 1499 /\ h \in 0 .. 999
    BY <1>2, RoundsDown
  <1> HIDE DEF c, h
  <1>4. c \in I16
    BY <1>3, SMT DEF I16
  <1>5. h \in U16
    BY <1>3, SMT DEF U16
  <1>6. QED BY <1>4, <1>5, Zenon DEF c, h

\* A call that starts, and one that returns, keeps the sensor safe.
LEMMA StartSafe ==
  ASSUME SensorType, SensorSafe, StartRead \/ Returned
  PROVE  SensorType' /\ SensorSafe'
  BY DEF SensorType, SensorSafe, StartRead, Returned, Ats, Codes

\* So does every step of it, failures included.
LEMMA SensorStepSafe ==
  ASSUME SensorType, SensorSafe, SensorStep
  PROVE  SensorType' /\ SensorSafe'
  <1>1. CASE ReadStatus
    <2>1. CASE Fails("status") /\ UNCHANGED calibrated
      BY <2>1 DEF SensorType, SensorSafe, Fails, Ats, Codes
    <2>2. CASE /\ at = "status" /\ at' = (IF calibrated THEN "measure" ELSE "init")
               /\ sInitialized' = calibrated /\ UNCHANGED <<calibrated, ret, buf>>
      <3>1. SensorType'
        BY <2>2 DEF SensorType, Ats
      <3>2. SensorSafe'
        <4>1. sInitialized' => calibrated'
          BY <2>2, Zenon
        <4>2. at' \in {"settle", "measure"} => calibrated'
          BY <2>2
        <4>3. at' # "done"
          BY <2>2
        <4>4. QED BY <4>1, <4>2, <4>3, Zenon DEF SensorSafe
      <3>3. QED BY <3>1, <3>2
    <2>3. QED BY <1>1, <2>1, <2>2 DEF ReadStatus
  <1>2. CASE SendInit
    <2>1. /\ sInitialized' = sInitialized /\ calibrated' \in {calibrated, TRUE}
          /\ \/ at' = "settle" /\ ret' = ret /\ calibrated' = TRUE
             \/ at' = "done" /\ ret' = "EIO"
          /\ buf' = buf
      BY <1>2, Zenon DEF SendInit, InitFails, Fails
    <2>2. SensorType'
      <3>1. sInitialized' \in BOOLEAN /\ calibrated' \in BOOLEAN
        BY <2>1, Zenon DEF SensorType
      <3>2. QED BY <2>1, <3>1 DEF SensorType, Ats, Codes
    <2>3. SensorSafe'
      <3>1. sInitialized' => calibrated'
        <4>1. CASE calibrated' = TRUE
          BY <4>1, Zenon
        <4>2. CASE calibrated' = calibrated
          BY <2>1, <4>2, Zenon DEF SensorSafe
        <4>3. QED BY <2>1, <4>1, <4>2
      <3>2. at' \in {"settle", "measure"} => calibrated'
        BY <2>1
      <3>3. ~(at' = "done" /\ ret' = "OK")
        BY <2>1
      <3>4. QED BY <3>1, <3>2, <3>3, Zenon DEF SensorSafe
    <2>4. QED BY <2>2, <2>3
  <1>3. CASE Settle
    BY <1>3 DEF SensorType, SensorSafe, Settle, Ats, Codes
  <1>4. CASE Measure
    <2>1. CASE Fails("measure") /\ UNCHANGED calibrated
      BY <2>1 DEF SensorType, SensorSafe, Fails, Ats, Codes
    <2>2. ASSUME NEW b \in Buffers, at = "measure", at' = "done", buf' = b,
                 ret' = IF Busy(b) THEN "EBUSY" ELSE "OK",
                 UNCHANGED <<sInitialized, calibrated>>
          PROVE  SensorType' /\ SensorSafe'
      BY <2>2 DEF SensorType, SensorSafe, Ats, Codes
    <2>3. QED BY <1>4, <2>1, <2>2 DEF Measure
  <1>5. QED BY <1>1, <1>2, <1>3, <1>4 DEF SensorStep

\* Nothing else touches it.
LEMMA SensorKept ==
  ASSUME SensorType, SensorSafe, UNCHANGED sensorVars
  PROVE  SensorType' /\ SensorSafe'
  BY DEF SensorType, SensorSafe, sensorVars

LEMMA ScreenKept ==
  ASSUME ScreenType, UNCHANGED displayVars
  PROVE  ScreenType'
  BY DEF ScreenType, displayVars

\* The initial states satisfy the invariant.
LEMMA InitInv == Init => Inv
  <1> SUFFICES ASSUME Init PROVE Inv OBVIOUS
  <1>1. ScreenType
    <2>1. BlankScreen \in Screens
      BY DEF BlankScreen, Screens, Inks, Colors
    <2>2. <<>> \in Seq(LcdCall)
      OBVIOUS
    <2>3. QED BY <2>1, <2>2 DEF Init, DisplayInit, ScreenType
  <1>2. SensorType /\ SensorSafe
    BY DEF Init, SensorInit, SensorType, SensorSafe, Ats, Codes
  <1>3. NoReading \in SensorReading
    BY SMT DEF NoReading, SensorReading, I16, U16
  <1>4. RestType
    BY <1>3 DEF Init, RestType, Threads
  <1>5. QED BY <1>1, <1>2, <1>4, TypeParts DEF Inv

\* An action that moves a thread, takes or drops no reading, and leaves the flags
\* Boolean.
LEMMA RestKept ==
  ASSUME RestType, NEW t \in Threads, NEW from,
         NEW to \in {"sleep", "evaluate", "switch", "pulse", "mailbox",
                     "boot", "network", "idle", "sensor", "publish"},
         Goes(t, from, to), reading' \in SensorReading,
         sPumpState' \in BOOLEAN, timedOut' \in BOOLEAN
  PROVE  RestType'
  BY DEF RestType, Goes

\* Every step of telemetry preserves the invariant.
LEMMA TelemetryInv ==
  ASSUME Inv,
         \/ Connecting \/ ConnectFails \/ Connected
         \/ StartReading \/ Sense \/ SkipReading \/ Publish
         \/ \E m \in Moistures, now, w \in Times : TakeReading(m, now, w)
  PROVE  Inv'
  <1> "telemetry" \in Threads
    BY DEF Threads
  <1>0. ScreenType /\ SensorType /\ RestType /\ SensorSafe
    BY TypeParts DEF Inv
  <1>r. reading \in SensorReading /\ sPumpState \in BOOLEAN /\ timedOut \in BOOLEAN
    BY <1>0 DEF RestType
  <1>1. CASE Connecting
    <2>1. ScreenType' BY <1>0, <1>1, ShowTyped, PagesTyped DEF Connecting
    <2>2. SensorType' /\ SensorSafe' BY <1>0, <1>1, SensorKept DEF Connecting
    <2>3. RestType' BY <1>0, <1>1, <1>r, RestKept DEF Connecting
    <2>4. QED BY <2>1, <2>2, <2>3, TypePartsNext DEF Inv
  <1>2. CASE ConnectFails
    <2>1. ScreenType' BY <1>0, <1>2, ScreenKept DEF ConnectFails
    <2>2. SensorType' /\ SensorSafe' BY <1>0, <1>2, SensorKept DEF ConnectFails
    <2>3. RestType' BY <1>0, <1>2, <1>r, RestKept DEF ConnectFails
    <2>4. QED BY <2>1, <2>2, <2>3, TypePartsNext DEF Inv
  <1>3. CASE Connected
    <2>1. ScreenType' BY <1>0, <1>3, ShowTyped, PagesTyped DEF Connected
    <2>2. SensorType' /\ SensorSafe' BY <1>0, <1>3, SensorKept DEF Connected
    <2>3. RestType' BY <1>0, <1>3, <1>r, RestKept DEF Connected
    <2>4. QED BY <2>1, <2>2, <2>3, TypePartsNext DEF Inv
  <1>4. CASE StartReading
    <2>1. ScreenType' BY <1>0, <1>4, ScreenKept DEF StartReading
    <2>2. SensorType' /\ SensorSafe' BY <1>0, <1>4, StartSafe DEF StartReading
    <2>3. RestType' BY <1>0, <1>4, <1>r, RestKept DEF StartReading
    <2>4. QED BY <2>1, <2>2, <2>3, TypePartsNext DEF Inv
  <1>5. CASE Sense
    <2>1. ScreenType' BY <1>0, <1>5, ScreenKept DEF Sense
    <2>2. SensorType' /\ SensorSafe' BY <1>0, <1>5, SensorStepSafe DEF Sense
    <2>3. RestType' BY <1>0, <1>5, <1>r, RestKept DEF Sense
    <2>4. QED BY <2>1, <2>2, <2>3, TypePartsNext DEF Inv
  <1>6. CASE SkipReading
    <2>1. ScreenType' BY <1>0, <1>6, ScreenKept DEF SkipReading
    <2>2. SensorType' /\ SensorSafe' BY <1>0, <1>6, StartSafe DEF SkipReading
    <2>3. RestType' BY <1>0, <1>6, <1>r, RestKept DEF SkipReading
    <2>4. QED BY <2>1, <2>2, <2>3, TypePartsNext DEF Inv
  <1>7. CASE Publish
    <2>1. ScreenType' BY <1>0, <1>7, ShowTyped, PagesTyped DEF Publish
    <2>2. SensorType' /\ SensorSafe' BY <1>0, <1>7, SensorKept DEF Publish
    <2>3. NoReading \in SensorReading BY SMT DEF NoReading, SensorReading, I16, U16
    <2>4. RestType' BY <1>0, <1>7, <1>r, <2>3, RestKept DEF Publish
    <2>5. QED BY <2>1, <2>2, <2>4, TypePartsNext DEF Inv
  <1>8. ASSUME NEW m \in Moistures, NEW now \in Times, NEW w \in Times,
               TakeReading(m, now, w)
        PROVE  Inv'
    <2>1. ScreenType' BY <1>0, <1>8, ScreenKept DEF TakeReading
    <2>2. SensorType' /\ SensorSafe' BY <1>0, <1>8, StartSafe DEF TakeReading
    <2>3. buf \in Buffers BY <1>0, <1>8 DEF TakeReading, SensorSafe
    <2>4. m \in U16 /\ now \in Nat /\ w \in Nat BY ReadingsAssumption
    <2>5. reading' \in SensorReading
      BY <1>8, <2>3, <2>4, ConvertedFits DEF TakeReading, SensorReading
    <2>6. RestType' BY <1>0, <1>8, <1>r, <2>5, RestKept DEF TakeReading
    <2>7. QED BY <2>1, <2>2, <2>6, TypePartsNext DEF Inv
  <1>9. QED BY <1>1, <1>2, <1>3, <1>4, <1>5, <1>6, <1>7, <1>8

\* Every step of irrigation preserves the invariant.
LEMMA IrrigationInv ==
  ASSUME Inv, WakeUp \/ EvaluateDry \/ EvaluateWet \/ PumpOn \/ EndPulse \/ Mailbox
  PROVE  Inv'
  <1> "irrigation" \in Threads
    BY DEF Threads
  <1>0. ScreenType /\ SensorType /\ RestType /\ SensorSafe
    BY TypeParts DEF Inv
  <1>r. reading \in SensorReading /\ sPumpState \in BOOLEAN /\ timedOut \in BOOLEAN
    BY <1>0 DEF RestType
  <1>p. \A a \in BOOLEAN : display_pump_activation(a) \in CleanPages
    BY PagesTyped
  <1>1. ScreenType'
    <2>1. CASE EvaluateDry BY <1>0, <1>p, <2>1, ShowTyped DEF EvaluateDry
    <2>2. CASE EndPulse BY <1>0, <1>p, <2>2, ShowTyped DEF EndPulse
    <2>3. CASE WakeUp \/ EvaluateWet \/ PumpOn \/ Mailbox
      BY <1>0, <2>3, ScreenKept DEF WakeUp, EvaluateWet, PumpOn, Mailbox
    <2>4. QED BY <2>1, <2>2, <2>3
  <1>2. SensorType' /\ SensorSafe'
    BY <1>0, SensorKept DEF WakeUp, EvaluateDry, EvaluateWet, PumpOn, EndPulse, Mailbox
  <1>3. RestType'
    <2>1. CASE WakeUp BY <1>0, <1>r, <2>1, RestKept DEF WakeUp
    <2>2. CASE EvaluateDry BY <1>0, <1>r, <2>2, RestKept DEF EvaluateDry
    <2>3. CASE EvaluateWet BY <1>0, <1>r, <2>3, RestKept DEF EvaluateWet
    <2>4. CASE PumpOn BY <1>0, <1>r, <2>4, RestKept DEF PumpOn
    <2>5. CASE EndPulse BY <1>0, <1>r, <2>5, RestKept DEF EndPulse
    <2>6. CASE Mailbox BY <1>0, <1>r, <2>6, RestKept DEF Mailbox
    <2>7. QED BY <2>1, <2>2, <2>3, <2>4, <2>5, <2>6
  <1>4. QED BY <1>1, <1>2, <1>3, TypePartsNext DEF Inv

\* The invariant is inductive.
LEMMA StepInv == Inv /\ [Next]_vars => Inv'
  <1> SUFFICES ASSUME Inv, [Next]_vars PROVE Inv' OBVIOUS
  <1>0. ScreenType /\ SensorType /\ RestType /\ SensorSafe
    BY TypeParts DEF Inv
  <1>1. CASE \/ Connecting \/ ConnectFails \/ Connected
             \/ StartReading \/ Sense \/ SkipReading \/ Publish
             \/ \E m \in Moistures, now, w \in Times : TakeReading(m, now, w)
    BY <1>1, TelemetryInv
  <1>2. CASE WakeUp \/ EvaluateDry \/ EvaluateWet \/ PumpOn \/ EndPulse \/ Mailbox
    BY <1>2, IrrigationInv
  <1>3. ASSUME NEW t \in Threads, DrawNext(t)
        PROVE  Inv'
    <2>1. ScreenType' BY <1>0, <1>3, DrawTyped DEF DrawNext
    <2>2. SensorType' /\ SensorSafe' BY <1>0, <1>3, SensorKept DEF DrawNext
    <2>3. RestType' BY <1>0, <1>3 DEF DrawNext, RestType
    <2>4. QED BY <2>1, <2>2, <2>3, TypePartsNext DEF Inv
  <1>4. CASE Tick
    <2>1. ScreenType' BY <1>0, <1>4, ScreenKept DEF Tick
    <2>2. SensorType' /\ SensorSafe' BY <1>0, <1>4, SensorKept DEF Tick
    <2>3. RestType' BY <1>0, <1>4 DEF Tick, RestType
    <2>4. QED BY <2>1, <2>2, <2>3, TypePartsNext DEF Inv
  <1>5. CASE UNCHANGED vars
    <2>1. ScreenType' BY <1>0, <1>5, ScreenKept DEF vars
    <2>2. SensorType' /\ SensorSafe' BY <1>0, <1>5, SensorKept DEF vars
    <2>3. RestType' BY <1>0, <1>5 DEF vars, RestType
    <2>4. QED BY <2>1, <2>2, <2>3, TypePartsNext DEF Inv
  <1>6. QED BY <1>1, <1>2, <1>3, <1>4, <1>5 DEF Next

\* The invariant holds throughout.
THEOREM Invariance == Spec => []Inv
  BY InitInv, StepInv, PTL DEF Spec

\* Every variable keeps its type: no conversion leaves the field it is stored in.
THEOREM TypeCorrect == Spec => []TypeOK
  <1>1. Inv => TypeOK BY DEF Inv
  <1>2. QED BY <1>1, Invariance, PTL

\* Whichever transfers fail, a reading comes from a calibrated chip.
THEOREM Calibrated == Spec => []ReadingCalibrated
  <1>1. Inv => ReadingCalibrated BY DEF Inv, SensorSafe, ReadingCalibrated
  <1>2. QED BY <1>1, Invariance, PTL

\* No reading ever overruns the lines of the display or the plaintext of a report.
THEOREM TextsFitAlways == Spec => []BuffersFit
  <1>1. Inv => BuffersFit
    <2> SUFFICES ASSUME Inv PROVE BuffersFit OBVIOUS
    <2>1. reading \in SensorReading BY DEF Inv, TypeOK
    <2>2. QED BY <2>1, TextsFit DEF BuffersFit
  <1>2. QED BY <1>1, Invariance, PTL

\* What is reported is the field of the answer, rounded down: for every answer, bit for
\* bit.
THEOREM Exact == Spec => []ConversionExact
  <1>1. Inv => ConversionExact
    <2> SUFFICES ASSUME Inv, at = "done", ret = "OK"
                 PROVE  /\ Bits(buf, 0, 19) * 2000
                              - (CelsiusX10(RawTemperature(buf)) + 500) * 2^20 \in 0 .. 2^20 - 1
                        /\ Bits(buf, 20, 39) * 1000
                              - HumidityX10(RawHumidity(buf)) * 2^20 \in 0 .. 2^20 - 1
      BY Zenon DEF ConversionExact
    <2>1. buf \in Answers
      BY BuffersAssumption DEF Inv, SensorSafe, Answers
    <2>2. PICK rawT \in U20, rawH \in U20 :
            rawT = RawTemperature(buf) /\ rawH = RawHumidity(buf)
      BY <2>1, SplitsWord, SMT
    <2>3. PICK c, h : c = CelsiusX10(rawT) /\ h = HumidityX10(rawH)
      OBVIOUS
    <2>4. /\ c \in Int /\ h \in Int
          /\ 0 <= rawT * 2000 - (c + 500) * 1048576
          /\ rawT * 2000 - (c + 500) * 1048576 < 1048576
          /\ 0 <= rawH * 1000 - h * 1048576 /\ rawH * 1000 - h * 1048576 < 1048576
      <3>1. ASSUME NEW raw \in U20
            PROVE  /\ CelsiusX10(raw) \in Int /\ HumidityX10(raw) \in Int
                   /\ 0 <= raw * 2000 - (CelsiusX10(raw) + 500) * 1048576
                   /\ raw * 2000 - (CelsiusX10(raw) + 500) * 1048576 < 1048576
                   /\ 0 <= raw * 1000 - HumidityX10(raw) * 1048576
                   /\ raw * 1000 - HumidityX10(raw) * 1048576 < 1048576
        <4>1. CelsiusX10(raw) \in -500 .. 1499 /\ HumidityX10(raw) \in 0 .. 999
          BY RoundsDown, SMT
        <4>2. CelsiusX10(raw) \in Int /\ HumidityX10(raw) \in Int
          BY <4>1, SMT
        <4>3. QED BY <4>2, RoundsDown, SMT
      <3>2. QED BY <2>2, <2>3, <3>1, SMT
    <2>5. rawT \in Int /\ rawH \in Int
      BY <2>2, SMT DEF U20
    <2>6. 2^20 = 1048576
      BY SMT
    <2>7. /\ rawT * 2000 - (c + 500) * 2^20 \in 0 .. 2^20 - 1
          /\ rawH * 1000 - h * 2^20 \in 0 .. 2^20 - 1
      BY <2>4, <2>5, <2>6, SMT
    <2>8. rawT = Bits(buf, 0, 19) /\ rawH = Bits(buf, 20, 39)
      BY <2>1, <2>2, BitsTemperature, BitsHumidity, SMT
    <2>9. c = CelsiusX10(RawTemperature(buf)) /\ h = HumidityX10(RawHumidity(buf))
      BY <2>2, <2>3, SMT
    <2>10. QED BY <2>7, <2>8, <2>9, SMT
  <1>2. QED BY <1>1, Invariance, PTL

=============================================================================

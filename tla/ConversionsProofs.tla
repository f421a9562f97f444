------------------------- MODULE ConversionsProofs -------------------------
(***************************************************************************)
(* The arithmetic of the drivers and the lengths of the texts, for every   *)
(* answer of the chip and every reading: the runs try the ends of the      *)
(* ranges, the theorems leave nothing out.                                 *)
(***************************************************************************)
EXTENDS Conversions, FiniteSetTheorems, TLAPS

Answers == [1 .. 6 -> Byte]

Int32Max == 2147483647

\* The five bytes of the measurement as one number of forty bits.
Word40(b) == b[2] * 4294967296 + b[3] * 16777216 + b[4] * 65536 + b[5] * 256 + b[6]

-----------------------------------------------------------------------------
(* The measurement *)

\* The halves of a byte.
LEMMA Nibbles ==
  ASSUME NEW n \in Byte
  PROVE  /\ n \div 16 \in 0 .. 15 /\ n % 16 \in 0 .. 15
         /\ n = 16 * (n \div 16) + (n % 16)
  BY SMT DEF Byte

\* parse_measurement splits the forty bits into two fields of twenty: every bit is in
\* one of them, and in its place.
THEOREM SplitsWord ==
  ASSUME NEW b \in Answers
  PROVE  /\ RawHumidity(b) \in U20 /\ RawTemperature(b) \in U20
         /\ Word40(b) = RawHumidity(b) * 1048576 + RawTemperature(b)
  <1> DEFINE p == b[2]
             q == b[3]
             h == b[4] \div 16
             l == b[4] % 16
             s == b[5]
             t == b[6]
  <1>1. p \in Byte /\ q \in Byte /\ b[4] \in Byte /\ s \in Byte /\ t \in Byte
    BY SMT DEF Answers
  <1>2. h \in 0 .. 15 /\ l \in 0 .. 15 /\ b[4] = 16 * h + l
    BY <1>1, Nibbles, SMT
  <1>3. /\ RawHumidity(b) = p * 4096 + q * 16 + h
        /\ RawTemperature(b) = l * 65536 + s * 256 + t
        /\ Word40(b) = p * 4294967296 + q * 16777216 + b[4] * 65536 + s * 256 + t
    BY SMT DEF RawHumidity, RawTemperature, Word40
  <1> HIDE DEF p, q, h, l, s, t
  <1>4. p * 4096 + q * 16 + h \in U20 /\ l * 65536 + s * 256 + t \in U20
    BY <1>1, <1>2, SMT DEF Byte, U20
  <1>5. p * 4294967296 + q * 16777216 + b[4] * 65536 + s * 256 + t
          = (p * 4096 + q * 16 + h) * 1048576 + (l * 65536 + s * 256 + t)
    BY <1>1, <1>2, SMT DEF Byte
  <1>6. QED BY <1>3, <1>4, <1>5, SMT

\* The products of parse_measurement fit an int32_t and a uint32_t, so that neither
\* cast nor division sees an overflow.
THEOREM ProductsFit ==
  ASSUME NEW raw \in U20
  PROVE  raw * 2000 <= Int32Max /\ raw * 1000 <= Int32Max
  BY SMT DEF U20, Int32Max

\* Both results are rounded down to a tenth, and fit their fields with room to spare.
THEOREM RoundsDown ==
  ASSUME NEW raw \in U20
  PROVE  /\ CelsiusX10(raw) \in -500 .. 1499
         /\ 0 <= raw * 2000 - (CelsiusX10(raw) + 500) * 1048576
         /\ raw * 2000 - (CelsiusX10(raw) + 500) * 1048576 < 1048576
         /\ HumidityX10(raw) \in 0 .. 999
         /\ 0 <= raw * 1000 - HumidityX10(raw) * 1048576
         /\ raw * 1000 - HumidityX10(raw) * 1048576 < 1048576
  BY SMTT(60) DEF U20, CelsiusX10, HumidityX10

\* A warmer or more humid answer never reads lower.
THEOREM Monotone ==
  ASSUME NEW low \in U20, NEW high \in U20, low <= high
  PROVE  CelsiusX10(low) <= CelsiusX10(high) /\ HumidityX10(low) <= HumidityX10(high)
  BY SMTT(60) DEF U20, CelsiusX10, HumidityX10

\* moisture_read_percent gives a percentage for every word the sensor can send, in
\* order: its uint32_t product and its cast to uint8_t are exact between the
\* calibration points.
THEOREM PercentInRange ==
  ASSUME NEW b \in [1 .. 2 -> Byte], NEW c \in [1 .. 2 -> Byte],
         MoistureWord(b) <= MoistureWord(c)
  PROVE  /\ MoistureWord(b) \in U16
         /\ MoisturePercent(MoistureWord(b)) \in 0 .. 100
         /\ MoisturePercent(MoistureWord(b)) <= MoisturePercent(MoistureWord(c))
  <1> DEFINE low == MoistureWord(b)
             high == MoistureWord(c)
  <1>1. low \in U16 /\ high \in U16
    <2>1. b[1] \in Byte /\ b[2] \in Byte /\ c[1] \in Byte /\ c[2] \in Byte
      BY SMT
    <2>2. ASSUME NEW p \in Byte, NEW q \in Byte PROVE p * 256 + q \in U16
      BY SMT DEF Byte, U16
    <2>3. b[1] * 256 + b[2] \in U16 /\ c[1] * 256 + c[2] \in U16
      BY <2>1, <2>2, Zenon
    <2>4. QED BY <2>3, Zenon DEF MoistureWord
  <1> HIDE DEF low, high
  <1>2. ASSUME low <= high
        PROVE  MoisturePercent(low) \in 0 .. 100 /\ MoisturePercent(low) <= MoisturePercent(high)
    BY <1>1, <1>2, SMTT(60) DEF U16, MoisturePercent, KCalDry, KCalWet
  <1>3. QED BY <1>1, <1>2, Zenon DEF low, high

-----------------------------------------------------------------------------
(* The lengths *)

\* As many powers of ten at most as there are below a bound.
LEMMA CountDigits ==
  ASSUME NEW n \in Nat, NEW k \in 0 .. 9,
         \A i \in 1 .. 9 : PowersOfTen[i] <= n => i <= k
  PROVE  Digits(n) \in 1 .. k + 1
  <1> DEFINE S == {i \in 1 .. 9 : PowersOfTen[i] <= n}
  <1>1. S \in SUBSET (1 .. k)
    BY SMT
  <1>2. IsFiniteSet(1 .. k) /\ Cardinality(1 .. k) <= k
    <2>1. 1 \in Int /\ k \in Int /\ k >= 0
      BY SMT
    <2>2. IsFiniteSet(1 .. k) /\ Cardinality(1 .. k) = IF 1 > k THEN 0 ELSE k - 1 + 1
      BY <2>1, FS_Interval, Zenon
    <2>3. QED BY <2>1, <2>2, SMT
  <1>3. IsFiniteSet(S) /\ Cardinality(S) <= Cardinality(1 .. k)
    <2> HIDE DEF S
    <2> QED BY <1>1, <1>2, FS_Subset
  <1>4. Cardinality(S) \in Nat /\ Cardinality(1 .. k) \in Nat
    <2> HIDE DEF S
    <2> QED BY <1>2, <1>3, FS_CardinalityType
  <1>5. Digits(n) = 1 + Cardinality(S)
    BY Zenon DEF Digits
  <1>6. QED
    <2> HIDE DEF S
    <2> QED BY <1>2, <1>3, <1>4, <1>5, SMT

\* tmp[10] of append_uint and writeUint is enough for every number up to 2^32 and
\* beyond: the model knows no greater power than 10^9.
THEOREM DigitsFit ==
  ASSUME NEW n \in Nat
  PROVE  /\ Digits(n) \in 1 .. 10
         /\ n < 100000 => Digits(n) \in 1 .. 5
         /\ n < 1000 => Digits(n) \in 1 .. 3
         /\ n < 10 => Digits(n) = 1
  <1>1. Digits(n) \in 1 .. 10
    BY CountDigits, SMT
  <1>2. ASSUME NEW i \in 1 .. 9, PowersOfTen[i] <= n
        PROVE  (n < 100000 => i <= 4) /\ (n < 1000 => i <= 2) /\ (n < 10 => i <= 0)
    BY <1>2, SMT DEF PowersOfTen
  <1>3. n < 100000 => Digits(n) \in 1 .. 5
    BY <1>2, CountDigits, SMT
  <1>4. n < 1000 => Digits(n) \in 1 .. 3
    BY <1>2, CountDigits, SMT
  <1>5. n < 10 => Digits(n) \in 1 .. 1
    BY <1>2, CountDigits, SMT
  <1>6. QED BY <1>1, <1>3, <1>4, <1>5, SMT

\* A tenth of an int16_t or a uint16_t takes at most eight characters.
LEMMA DecimalFits ==
  ASSUME NEW v \in I16 \cup U16
  PROVE  DecimalLength(v) \in 3 .. 8
  <1> DEFINE m == Magnitude(v)
  <1>1. v \in Int /\ -32768 <= v /\ v <= 65535
    BY SMT DEF I16, U16
  <1>2. m \in Nat /\ m <= 65535 /\ Sign(v) \in 0 .. 1
    BY <1>1, SMT DEF Magnitude, Sign
  <1>3. DecimalLength(v) = Sign(v) + Digits(m \div 10) + 1 + Digits(m % 10)
    BY Zenon DEF DecimalLength
  <1> HIDE DEF m
  <1>4. m \div 10 \in Nat /\ m \div 10 < 100000 /\ m % 10 \in Nat /\ m % 10 < 10
    BY <1>2, SMT
  <1>5. Digits(m \div 10) \in 1 .. 5 /\ Digits(m % 10) = 1
    BY <1>4, DigitsFit
  <1>6. QED BY <1>2, <1>3, <1>5, SMT

\* Whatever is in a SensorReading, in the ranges of the sensors or not, its three
\* lines fit line[24] and its report fits plain[128].
THEOREM TextsFit ==
  ASSUME NEW r \in SensorReading
  PROVE  /\ \A n \in LineLengths(r) : n <= LineSize
         /\ ReportLength(r) <= PlainSize
  <1> DEFINE temp == r.temperatureCx10
             tempText  == DecimalLength(temp)
             humText   == DecimalLength(r.humidityRx10)
             moistText == Digits(r.moistureRaw)
             sign == Sign(temp)
             d1 == Digits(r.timestamp)
             d2 == Digits(r.humidityRx10)
             d3 == Digits(Magnitude(temp))
             d5 == Digits(r.lastWatering)
  <1>1. /\ temp \in I16 /\ r.humidityRx10 \in U16 /\ r.moistureRaw \in U16
        /\ r.timestamp \in Nat /\ r.lastWatering \in Nat
    BY DEF SensorReading
  <1>2. tempText \in 3 .. 8 /\ humText \in 3 .. 8
    BY <1>1, DecimalFits
  <1>3. Magnitude(temp) \in Nat /\ Magnitude(temp) < 100000 /\ sign \in 0 .. 1
    BY <1>1, SMT DEF I16, Magnitude, Sign
  <1>4. /\ r.humidityRx10 \in Nat /\ r.humidityRx10 < 100000
        /\ r.moistureRaw \in Nat /\ r.moistureRaw < 100000
    BY <1>1, SMT DEF U16
  <1>5. /\ moistText \in 1 .. 5 /\ d2 \in 1 .. 5 /\ d3 \in 1 .. 5
        /\ d1 \in 1 .. 10 /\ d5 \in 1 .. 10
    BY <1>1, <1>3, <1>4, DigitsFit
  <1>6. /\ LineLengths(r) = {6 + tempText + 2 + 1, 6 + humText + 2 + 1, 7 + moistText + 1}
        /\ ReportLength(r) = 69 + d1 + d2 + sign + d3 + moistText + d5
    BY Zenon DEF LineLengths, ReportLength
  <1> HIDE DEF temp, tempText, humText, moistText, sign, d1, d2, d3, d5
  <1>7. \A n \in LineLengths(r) : n <= LineSize
    BY <1>2, <1>5, <1>6, SMT DEF LineSize
  <1>8. ReportLength(r) <= PlainSize
    BY <1>3, <1>5, <1>6, SMT DEF PlainSize
  <1>9. QED BY <1>7, <1>8

=============================================================================

---------------------------- MODULE Conversions ----------------------------
(***************************************************************************)
(* What the node computes from bytes and numbers: the measurement of the   *)
(* AHT20, the soil sensor's word and percentage, and the length of the     *)
(* decimal text that goes into fixed buffers.  Bytes come in sequences,    *)
(* the first at index 1.  Shifts by constants are products and quotients.  *)
(***************************************************************************)
EXTENDS Integers, Sequences, FiniteSets

Byte == 0 .. 255
U16  == {n \in Nat : n <= 65535}
I16  == {n \in Int : -32768 <= n /\ n <= 32767}
U20  == {n \in Nat : n < 1048576}

-----------------------------------------------------------------------------
(* parse_measurement *)

\* Mutants: the low half of byte 3 instead of the high one; its mask forgotten.
RawHumidity_LowHalf(b)   == b[2] * 4096 + b[3] * 16 + (b[4] % 16)
RawTemperature_NoMask(b) == b[4] * 65536 + b[5] * 256 + b[6]

\* Bits 39 to 20 and bits 19 to 0 of the five bytes after the status.
RawHumidity(b) == b[2] * 4096 + b[3] * 16 + (b[4] \div 16)

RawTemperature(b) == (b[4] % 16) * 65536 + b[5] * 256 + b[6]

\* int32_t and uint32_t hold the products: see ProductsFit.
CelsiusX10(rawT)  == ((rawT * 2000) \div 1048576) - 500

\* Mutant: shifted by 10 where it should be 20.
HumidityX10_Kilo(rawH) == (rawH * 1000) \div 1024

HumidityX10(rawH) == (rawH * 1000) \div 1048576

\* Status byte, bit 7.
Busy(b) == b[1] >= 128

-----------------------------------------------------------------------------
(* The soil sensor: moisture_read_raw and moisture_read_percent *)

MoistureWord(b) == b[1] * 256 + b[2]

KCalDry == 400
KCalWet == 1800

MoisturePercent(raw) ==
  IF raw <= KCalDry THEN 0
  ELSE IF raw >= KCalWet THEN 100
  ELSE ((raw - KCalDry) * 100) \div (KCalWet - KCalDry)

-----------------------------------------------------------------------------
(* Decimal text, by its length *)

\* Without valid: only a valid reading goes anywhere.
SensorReading == [temperatureCx10 : I16, humidityRx10 : U16, moistureRaw : U16,
                  timestamp : Nat, lastWatering : Nat]

Magnitude(v) == IF v < 0 THEN -v ELSE v
Sign(v)      == IF v < 0 THEN 1 ELSE 0

PowersOfTen ==
  <<10, 100, 1000, 10000, 100000, 1000000, 10000000, 100000000, 1000000000>>

\* Mutant: all of tmp is copied.
Digits_All(n) == 10

\* append_uint and writeUint: a digit for each division by ten, at least one.
Digits(n) == 1 + Cardinality({i \in 1 .. 9 : PowersOfTen[i] <= n})

\* append_decimal, divisor 10.
DecimalLength(v) == Sign(v) + Digits(Magnitude(v) \div 10) + 1 + Digits(Magnitude(v) % 10)

\* The lines of display_sensor_readings, with their labels and the final NUL.
LineSize == 24
LineLengths(r) ==
  {6 + DecimalLength(r.temperatureCx10) + 2 + 1,
   6 + DecimalLength(r.humidityRx10) + 2 + 1,
   7 + Digits(r.moistureRaw) + 1}

\* crypto_encrypt: five labels and a brace are 69 characters.
PlainSize == 128
ReportLength(r) ==
  69 + Digits(r.timestamp) + Digits(r.humidityRx10)
     + Sign(r.temperatureCx10) + Digits(Magnitude(r.temperatureCx10))
     + Digits(r.moistureRaw) + Digits(r.lastWatering)

=============================================================================

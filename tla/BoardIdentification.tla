------------------------ MODULE BoardIdentification ------------------------
(***************************************************************************)
(* hal/board_identification: which board this is, from the voltage that a  *)
(* divider of two resistors gives on it.  The dividers are computed from   *)
(* the resistors on the market.  Resistances are in Ohm, measurements are  *)
(* those of the 12 bit ADC; what the code computes in floats is computed   *)
(* here in integers.                                                       *)
(***************************************************************************)
EXTENDS Integers, Sequences, FiniteSets

E96 ==
  {100, 102, 105, 107, 110, 113, 115, 118, 121, 124, 127, 130, 133, 137, 140, 143,
   147, 150, 154, 158, 162, 165, 169, 174, 178, 182, 187, 191, 196, 200, 205, 210,
   215, 221, 226, 232, 237, 243, 249, 255, 261, 267, 274, 280, 287, 294, 301, 309,
   316, 324, 332, 340, 348, 357, 365, 374, 383, 392, 402, 412, 422, 432, 442, 453,
   464, 475, 487, 499, 511, 523, 536, 549, 562, 576, 590, 604, 619, 634, 649, 665,
   681, 698, 715, 732, 750, 768, 787, 806, 825, 845, 866, 887, 909, 931, 953, 976}

(* generate_series: the decades that a divider of 25kOhm can draw from. *)
Series == {v * d : v \in E96, d \in {1, 10, 100}}

(* find_closest_resistor: the target is in quarters of an Ohm; the larger  *)
(* of two that are equally close.                                          *)
ClosestResistor(target) ==
  LET below == {r \in Series : 4 * r < target}
      above == Series \ below
      low   == CHOOSE r \in below : \A q \in below : q <= r
      high  == CHOOSE r \in above : \A q \in above : r <= q
  IN  IF target - 4 * low < 4 * high - target THEN low ELSE high

Divider(high, low) == [high |-> high, low |-> low]

(* expected_adc_measurement_value, of resistors that are off by percents.  *)
Measured(d, highPercent, lowPercent) ==
  LET high == (highPercent \div 5) * d.high
      low  == (lowPercent \div 5) * d.low
  IN  (low * 4096) \div (high + low)

Ideal(d) == Measured(d, 100, 100)

(* E96_1, five times over for safety *)
Lowest(d) == Measured(d, 105, 95)
Highest(d) == Measured(d, 95, 105)
IsMatch(d, measured) == Lowest(d) <= measured /\ measured <= Highest(d)

(* id() keeps the 8 most significant bits; 0 is UNKNOWN. *)
Id(d) == Ideal(d) \div 16
UNKNOWN == 0

(* generate_voltage_divider_configurations: the halves of 25kOhm, then the *)
(* quarters, the eighths and so on, each id once, until there are 17.      *)
LevelDivider(level, i) ==
  LET low == (i * 100000) \div 2^(level + 1)
  IN  Divider(ClosestResistor(100000 - low), ClosestResistor(low))

Candidates ==
  LET odd(level) == [k \in 1..2^level |-> LevelDivider(level, 2 * k - 1)]
  IN  odd(0) \o odd(1) \o odd(2) \o odd(3) \o odd(4)

Configurations ==
  LET new(k) == /\ Id(Candidates[k]) # UNKNOWN
                /\ \A j \in 1..k - 1 : Id(Candidates[j]) # Id(Candidates[k])
      early(k) == Cardinality({j \in 1..k : new(j)}) <= 17
  IN  {Candidates[k] : k \in {j \in DOMAIN Candidates : new(j) /\ early(j)}}

COMMS_BOARD_1 == 32
COMMS_BOARD_2 == 223

(* determine_board_id; the two comms boards have no divider to go by. *)
DetermineBoardId(measured) ==
  LET matches == {d \in Configurations : IsMatch(d, measured)}
  IN  IF measured < 114 THEN COMMS_BOARD_1
      ELSE IF measured > 3861 THEN COMMS_BOARD_2
      ELSE IF matches = {} THEN UNKNOWN
      ELSE Id(CHOOSE d \in matches : TRUE)

=============================================================================

------------------------------ MODULE Calculator ------------------------------
(***************************************************************************)
(* The pure calculator of dbus-virtual-battery.py: the virtual chain is    *)
(* what the SmartShunt measures minus every configured chain.              *)
(*                                                                         *)
(* Measurements are integers in a fixed unit (0.1 A, 0.1 Ah, percent), the *)
(* value None (no measurement) or NonFinite (an IEEE infinity or NaN).     *)
(* Results are kept exact: with n chains, voltage, cell voltage, power and *)
(* soc are numerators over n (cell voltage over 16 n) and the two ampere   *)
(* hour results are numerators over 100 n.  Only the range of a float is   *)
(* modelled, not the rounding of its last bit.                             *)
(***************************************************************************)
EXTENDS Integers, SequencesExt

CONSTANTS None,       \* absent measurement (Python's None)
          NonFinite,  \* an infinity or a NaN
          MaxFinite   \* the largest finite float, in model units

ASSUME SentinelAssumption == /\ None \notin Int
                             /\ NonFinite \notin Int
                             /\ None # NonFinite
ASSUME MaxFiniteAssumption == MaxFinite \in Nat \ {0}

Number == Int \cup {NonFinite}
Measurement == Number \cup {None}

TimeToGoCap == 7 * 24 * 3600   \* seconds
Threshold == 5                 \* 0.5 A, in units of 0.1 A

Abs(x) == IF x < 0 THEN -x ELSE x

(***************************************************************************)
(* Float arithmetic as far as its range goes: a result out of range is     *)
(* infinite, and no addition or subtraction makes an infinity finite.      *)
(***************************************************************************)
MutInRange(num, den) == TRUE   \* mutant: finiteness not checked
InRange(num, den) == Abs(num) <= MaxFinite * den
Clip(x) == IF InRange(x, 1) THEN x ELSE NonFinite
\* Mutant: an overflowing sum is clamped to the largest float.
MutFloatAdd(a, b) == IF a + b > MaxFinite THEN MaxFinite
                     ELSE IF a + b < -MaxFinite THEN -MaxFinite ELSE a + b
FloatAdd(a, b) == IF NonFinite \in {a, b} THEN NonFinite ELSE Clip(a + b)

\* Mutant: the last chain is left out of the total.
MutChainTotal(chains, field) ==
    FoldLeft(LAMBDA total, chain : FloatAdd(total, chain[field]), 0, Front(chains))

\* _chain_totals adds in iteration order: a partial sum that overflows stays infinite.
ChainTotal(chains, field) ==
    FoldLeft(LAMBDA total, chain : FloatAdd(total, chain[field]), 0, chains)

ValidSoc(soc) == soc \in 0..100

\* Mutant: chains without a valid state of charge are skipped.
MutSocTotal(chains) ==
    FoldLeft(LAMBDA total, chain :
                 IF ValidSoc(chain.soc) THEN total + chain.soc ELSE total, 0, chains)

\* The state of charge is the mean of all chains or nothing (numerator over n).
SocTotal(chains) ==
    IF \A i \in DOMAIN chains : ValidSoc(chains[i].soc)
    THEN FoldLeft(LAMBDA total, chain : total + chain.soc, 0, chains)
    ELSE None

-------------------------------------------------------------------------------
\* A finite positive voltage together with a finite current.
Usable(voltage, current) == /\ voltage \in Int
                            /\ voltage > 0
                            /\ current \in Int

ChainsHaveMeasurements(chains) ==
    /\ chains # << >>
    /\ \A i \in DOMAIN chains : Usable(chains[i].voltage, chains[i].current)

InvalidCalculation(status) ==
    [voltage |-> None, current |-> None, power |-> None, soc |-> None,
     cell_voltage |-> None, consumed_ah |-> None, remaining_capacity |-> None,
     time_to_go |-> None, status |-> status]

\* Mutant: no seven day cap.
MutDuration(ah, den, current) == (ah * 3600) \div (den * Abs(current))

\* Seconds until `ah` (numerator over den) has flowed at `current`, truncated and capped.
Duration(ah, den, current) ==
    LET seconds == (ah * 3600) \div (den * Abs(current))
    IN  IF seconds < TimeToGoCap THEN seconds ELSE TimeToGoCap

TimeToGo(current, remaining, capacity, den) ==
    IF remaining = None
    THEN None
    ELSE IF current < -Threshold /\ remaining > 0
    THEN Duration(remaining, den, current)
    ELSE IF current > Threshold /\ capacity * den > remaining
    THEN Duration(capacity * den - remaining, den, current)
    ELSE None

Derive(shuntCurrent, chains, capacity) ==
    LET n       == Len(chains)
        drawn   == ChainTotal(chains, "current")
        volts   == ChainTotal(chains, "voltage")
        current == IF drawn = NonFinite THEN NonFinite
                                        ELSE Clip(shuntCurrent - drawn)
        soc     == SocTotal(chains)
        consumed  == IF soc = None THEN None ELSE capacity * (100 * n - soc)
        remaining == IF soc = None THEN None ELSE capacity * 100 * n - consumed
    IN  IF NonFinite \in {volts, current} \/ ~InRange(volts * current, n)
        THEN InvalidCalculation("Calculation overflow")
        ELSE [voltage |-> volts, current |-> current, power |-> volts * current,
              soc |-> soc, cell_voltage |-> volts, consumed_ah |-> consumed,
              remaining_capacity |-> remaining,
              time_to_go |-> TimeToGo(current, remaining, capacity, 100 * n),
              status |-> "ok"]

CalculateVirtualBattery(shuntVoltage, shuntCurrent, chains, capacity) ==
    IF ~Usable(shuntVoltage, shuntCurrent)
    THEN InvalidCalculation("SmartShunt missing")
    ELSE IF ~ChainsHaveMeasurements(chains)
    THEN InvalidCalculation("Chain data missing")
    ELSE IF ~(capacity \in Int /\ capacity > 0)
    THEN InvalidCalculation("Invalid chain capacity")
    ELSE Derive(shuntCurrent, chains, capacity)
===============================================================================

----------------------------- MODULE MCCalculator -----------------------------
(***************************************************************************)
(* Explores the calculator over every combination of small inputs; a step  *)
(* replaces the sample of one chain, so that results of neighbouring       *)
(* inputs can be compared.                                                 *)
(***************************************************************************)
EXTENDS Calculator

CONSTANTS ShuntSamples, ChainSamples, ChainCounts, Capacities

ASSUME SampleAssumption ==
    /\ ShuntSamples \subseteq [voltage : Measurement, current : Measurement]
    /\ ChainSamples \subseteq [voltage : Measurement, current : Measurement, soc : Measurement]
    /\ ChainCounts \subseteq Nat
    /\ Capacities \subseteq Number

VARIABLES shunt, chains, capacity

inputs == <<shunt, chains, capacity>>

AnyInputs == /\ shunt \in ShuntSamples
             /\ \E n \in ChainCounts : chains \in [1..n -> ChainSamples]
             /\ capacity \in Capacities

ReplaceChain == /\ \E i \in DOMAIN chains, sample \in ChainSamples :
                       chains' = [chains EXCEPT ![i] = sample]
                /\ UNCHANGED <<shunt, capacity>>

Result == CalculateVirtualBattery(shunt.voltage, shunt.current, chains, capacity)
Ok == Result.status = "ok"
N == Len(chains)

DerivedFields == {"voltage", "current", "power", "soc", "cell_voltage",
                  "consumed_ah", "remaining_capacity", "time_to_go"}

(***************************************************************************)
(* The current is the shunt's minus that of every chain, each counted      *)
(* once, and the voltage lies between those of the chains: reference       *)
(* definition of calculate_virtual_battery over exact arithmetic.          *)
(***************************************************************************)
SubtractsEveryChain ==
    Ok => /\ Result.current + SumFunction([i \in 1..N |-> chains[i].current])
               = shunt.current
          /\ \E lo, hi \in 1..N : /\ Result.voltage >= N * chains[lo].voltage
                                  /\ Result.voltage <= N * chains[hi].voltage

(***************************************************************************)
(* A derived value exists only when the SmartShunt and every chain had a   *)
(* finite sample and the capacity is valid: no partial subtraction, and    *)
(* nothing outside the range of a float is ever returned.                  *)
(***************************************************************************)
NothingFromPartialInput ==
    (\E f \in DerivedFields : Result[f] # None) =>
        /\ shunt.current \in Int /\ shunt.voltage \in Int
        /\ \A i \in 1..N : chains[i].current \in Int /\ chains[i].voltage \in Int
        /\ capacity > 0
        /\ Abs(Result.current) <= MaxFinite
        /\ Abs(Result.power) <= MaxFinite * N

(***************************************************************************)
(* Ampere hours balance: consumed and remaining add up to the capacity and *)
(* neither is negative; they and the state of charge exist together, only  *)
(* when every chain reports one.                                           *)
(***************************************************************************)
AmpHoursBalance ==
    LET socKnown == Ok /\ \A i \in 1..N : chains[i].soc \in 0..100
    IN  IF socKnown
        THEN /\ Result.consumed_ah >= 0
             /\ Result.remaining_capacity >= 0
             /\ Result.consumed_ah + Result.remaining_capacity = capacity * 100 * N
             /\ Result.soc \in 0 .. 100 * N
        ELSE \A f \in {"soc", "consumed_ah", "remaining_capacity", "time_to_go"} :
                 Result[f] = None

(***************************************************************************)
(* A time to go never promises more charge than there is: flowing for that *)
(* long at the virtual current stays within what remains (or what is left  *)
(* to fill), one second more does not, unless the seven day cap applies.   *)
(***************************************************************************)
TimeToGoSound ==
    Result.time_to_go # None =>
        LET room == IF Result.current < 0 THEN Result.remaining_capacity
                                          ELSE Result.consumed_ah
            flow(t) == t * Abs(Result.current) * 100 * N
        IN  /\ Result.time_to_go \in 0..TimeToGoCap
            /\ flow(Result.time_to_go) <= room * 3600
            /\ \/ Result.time_to_go = TimeToGoCap
               \/ flow(Result.time_to_go + 1) > room * 3600

(***************************************************************************)
(* When one chain draws more and nothing else changes, the virtual chain   *)
(* carries exactly that much less, and a battery that was discharging does *)
(* not last longer.                                                        *)
(***************************************************************************)
MoreDrawnLastsLess ==
    [][\A i \in DOMAIN chains :
          (/\ Ok /\ Ok'
           /\ chains' = [chains EXCEPT ![i].current = chains'[i].current]
           /\ chains[i].current <= chains'[i].current)
          => /\ Result'.current - Result.current
                  = chains[i].current - chains'[i].current
             /\ (/\ Result.time_to_go # None
                 /\ Result.current < 0) => Result'.time_to_go <= Result.time_to_go]_inputs
===============================================================================

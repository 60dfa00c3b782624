----------------------------- MODULE DeviceProofs -----------------------------
(***************************************************************************)
(* Proofs about the calculator and about the discovery of the SmartShunt,  *)
(* for every number of chains, every measurement of theirs, every range of *)
(* a float, and every set of ports and of devices.                         *)
(***************************************************************************)
EXTENDS MCDevice, FoldTheorems

ShuntSample == [voltage : Measurement, current : Measurement]
ChainSample == [voltage : Measurement, current : Measurement, soc : Measurement]

-------------------------------------------------------------------------------
(***************************************************************************)
(* The totals over the chains.                                             *)
(***************************************************************************)
LEMMA FloatAddType ==
    ASSUME NEW a \in Number, NEW b \in Number PROVE FloatAdd(a, b) \in Number
BY DEF FloatAdd, Clip, Number

\* A sum in the range of a float is the exact one.
LEMMA FloatAddExact ==
    ASSUME NEW a \in Number, NEW b \in Int, FloatAdd(a, b) # NonFinite
    PROVE  a \in Int /\ FloatAdd(a, b) = a + b /\ Abs(a + b) <= MaxFinite
BY SentinelAssumption, MaxFiniteAssumption DEF FloatAdd, Clip, InRange, Number

TotalFold(h, chains_, field) ==
    h = [s \in SUBSET DOMAIN chains_ |->
            IF s = {} THEN 0
            ELSE FloatAdd(h[s \ {Max(s)}], chains_[Max(s)][field])]

RunningTotal(r, n, c, field) == /\ r[0] = 0
                                /\ \A k \in 1..n : r[k] = FloatAdd(r[k - 1], c[k][field])

\* The total of the first k chains is that of the chains before and the last one's.
LEMMA ChainTotalSteps ==
    ASSUME NEW n \in Nat, NEW c, DOMAIN c = 1..n, NEW field,
           \A i \in 1..n : c[i][field] \in Int
    PROVE  \E r : RunningTotal(r, n, c, field) /\ ChainTotal(c, field) = r[n]
<1> DEFINE step == [p \in (1..n) \X Number |-> FloatAdd(p[2], c[p[1]][field])]
<1>1. \A i \in 1..n, v \in Number :
          step[<<i, v>>] = FloatAdd(v, c[i][field]) /\ step[<<i, v>>] \in Number
  <2>1. ASSUME NEW i \in 1..n, NEW v \in Number PROVE FloatAdd(v, c[i][field]) \in Number
    BY FloatAddType DEF Number
  <2>2. ASSUME NEW i \in 1..n, NEW v \in Number PROVE step[<<i, v>>] = FloatAdd(v, c[i][field])
    OBVIOUS
  <2> HIDE DEF step
  <2> QED BY <2>1, <2>2
<1>2. PICK g \in [SUBSET (1..n) -> Number] : FoldsLeft(g, n, 0, step)
  <2>1. 0 \in Number
    BY DEF Number
  <2> HIDE DEF step
  <2>2. StepsTo(step, 1..n, Number)
    BY <1>1 DEF StepsTo
  <2> QED BY <2>1, <2>2, LeftRecursion
<1>3. TotalFold(g, c, field)
  <2>1. ASSUME NEW s \in SUBSET (1..n), s # {}
        PROVE  g[s] = FloatAdd(g[s \ {Max(s)}], c[Max(s)][field])
    <3>1. Max(s) \in 1..n /\ g[s \ {Max(s)}] \in Number
      BY <2>1, MaxInside
    <3>2. g[s] = step[<<Max(s), g[s \ {Max(s)}]>>]
      BY <1>2, <2>1 DEF FoldsLeft
    <3> HIDE DEF step
    <3> QED BY <1>1, <3>1, <3>2
  <2>2. g[{}] = 0 /\ g = [s \in SUBSET (1..n) |-> g[s]]
    BY <1>2 DEF FoldsLeft
  <2> QED BY <2>1, <2>2 DEF TotalFold
<1> DEFINE h == CHOOSE iter : TotalFold(iter, c, field)
<1>4. TotalFold(h, c, field)
  BY <1>3
<1>5. ChainTotal(c, field) = h[1..n]
  BY DEF ChainTotal, FoldLeft, MapThenFoldSet, TotalFold
<1> HIDE DEF h
<1> DEFINE r == [k \in 0..n |-> h[1..k]]
<1>6. r[0] = 0
  BY <1>4 DEF TotalFold
<1>7. ASSUME NEW k \in 1..n PROVE r[k] = FloatAdd(r[k - 1], c[k][field])
  <2>1. 1..k \in SUBSET (1..n) /\ 1..k # {} /\ Max(1..k) = k /\ (1..k) \ {k} = 1..(k - 1)
    BY MaxOfRange
  <2>2. h[1..k] = FloatAdd(h[1..(k - 1)], c[k][field])
    BY <1>4, <2>1 DEF TotalFold
  <2>3. r[k] = h[1..k] /\ r[k - 1] = h[1..(k - 1)]
    OBVIOUS
  <2> HIDE DEF r
  <2> QED BY <2>2, <2>3
<1>8. ChainTotal(c, field) = r[n]
  BY <1>5
<1> HIDE DEF r
<1>9. RunningTotal(r, n, c, field)
  BY <1>6, <1>7 DEF RunningTotal
<1> QED BY <1>8, <1>9

\* A total that is a number is the exact sum over every chain, in any order.
LEMMA ChainTotalExact ==
    ASSUME NEW n \in Nat, NEW c, DOMAIN c = 1..n, NEW field,
           \A i \in 1..n : c[i][field] \in Int
    PROVE  ChainTotal(c, field) \in {NonFinite, SumTo([i \in 1..n |-> c[i][field]], n)}
<1> DEFINE v == [i \in 1..n |-> c[i][field]]
<1>1. PICK r : RunningTotal(r, n, c, field) /\ ChainTotal(c, field) = r[n]
  BY ChainTotalSteps
<1> USE DEF RunningTotal
<1>2. Integers1(v, n) /\ \A k \in 1..n : v[k] = c[k][field]
  BY DEF Integers1
<1> HIDE DEF v
<1> DEFINE S == {k \in 0..n : r[k] \in {NonFinite, SumTo(v, k)}}
<1>3. 0 \in S
  BY <1>1, <1>2, SumToSteps
<1>4. ASSUME NEW k \in 1..n, k - 1 \in S PROVE k \in S
  <2>1. SumTo(v, k) = SumTo(v, k - 1) + v[k] /\ SumTo(v, k - 1) \in Int
    <3>1. k - 1 \in 0..n
      OBVIOUS
    <3> QED BY <1>2, <3>1, SumToSteps
  <2>2. r[k - 1] \in Number /\ v[k] \in Int
    BY <1>2, <1>4, <2>1 DEF Number, Integers1
  <2>3. r[k] = FloatAdd(r[k - 1], v[k])
    BY <1>1, <1>2
  <2>4. CASE r[k] = NonFinite
    BY <2>4
  <2>5. CASE r[k] # NonFinite
    <3>1. r[k - 1] \in Int /\ r[k] = r[k - 1] + v[k]
      BY <2>2, <2>3, <2>5, FloatAddExact
    <3>2. r[k - 1] = SumTo(v, k - 1)
      BY <1>4, <3>1, SentinelAssumption
    <3> QED BY <2>1, <3>1, <3>2
  <2> QED BY <2>4, <2>5
<1>5. 0..n \subseteq S
  <2> HIDE DEF S
  <2> QED BY <1>3, <1>4, RangeInduction
<1>6. n \in S
  <2> HIDE DEF S
  <2> QED BY <1>5
<1> QED BY <1>1, <1>6 DEF v

\* The states of charge add up, in any order.
SocFold(h, c) ==
    h = [s \in SUBSET DOMAIN c |->
            IF s = {} THEN 0 ELSE h[s \ {Max(s)}] + c[Max(s)].soc]

LEMMA ValidSocRange == \A x : ValidSoc(x) => x \in Int /\ 0 <= x /\ x <= 100
BY DEF ValidSoc

LEMMA SocTotalExact ==
    ASSUME NEW n \in Nat, NEW c, DOMAIN c = 1..n, \A i \in 1..n : ValidSoc(c[i].soc)
    PROVE  SocTotal(c) = SumTo([i \in 1..n |-> c[i].soc], n)
<1> DEFINE V == Int
           v == [i \in 1..n |-> c[i].soc]
           step == [p \in (1..n) \X Int |-> p[2] + v[p[1]]]
<1>1. \A i \in 1..n : v[i] \in Int /\ v[i] = c[i].soc
  <2>1. \A i \in 1..n : c[i].soc \in Int
    BY ValidSocRange
  <2>2. \A i \in 1..n : v[i] = c[i].soc
    OBVIOUS
  <2> HIDE DEF v
  <2> QED BY <2>1, <2>2
<1>2. \A i \in 1..n, x \in Int : step[<<i, x>>] = x + v[i]
  OBVIOUS
<1>3. PICK g \in [SUBSET (1..n) -> V] : FoldsLeft(g, n, 0, step)
  <2>1. 0 \in V
    OBVIOUS
  <2> HIDE DEF step, v
  <2>2. ASSUME NEW i \in 1..n, NEW x \in Int PROVE step[<<i, x>>] \in Int
    <3>1. step[<<i, x>>] = x + v[i] /\ v[i] \in Int
      BY <1>1, <1>2
    <3> QED BY <3>1
  <2>3. StepsTo(step, 1..n, V)
    BY <2>2 DEF StepsTo
  <2> HIDE DEF V
  <2> QED BY <2>1, <2>3, LeftRecursion
<1>4. SocFold(g, c)
  <2>1. ASSUME NEW s \in SUBSET (1..n), s # {}
        PROVE  g[s] = g[s \ {Max(s)}] + c[Max(s)].soc
    <3>1. Max(s) \in 1..n /\ g[s \ {Max(s)}] \in Int
      BY <2>1, MaxInside
    <3>2. g[s] = step[<<Max(s), g[s \ {Max(s)}]>>]
      BY <1>3, <2>1 DEF FoldsLeft
    <3> HIDE DEF step, v
    <3> QED BY <1>1, <1>2, <3>1, <3>2
  <2>2. g[{}] = 0 /\ g = [s \in SUBSET (1..n) |-> g[s]]
    BY <1>3 DEF FoldsLeft
  <2> QED BY <2>1, <2>2 DEF SocFold
<1> DEFINE h == CHOOSE iter : SocFold(iter, c)
<1>5. SocFold(h, c)
  BY <1>4
<1>6. SocTotal(c) = h[1..n]
  BY DEF SocTotal, FoldLeft, MapThenFoldSet, SocFold
<1> HIDE DEF h
<1>7. Integers1(v, n)
  BY <1>1 DEF Integers1
<1> DEFINE S == {k \in 0..n : h[1..k] = SumTo(v, k)}
<1>8. 0 \in S
  <2>1. h[1..0] = 0
    BY <1>5 DEF SocFold
  <2> HIDE DEF v
  <2> QED BY <1>7, <2>1, SumToSteps
<1>9. ASSUME NEW k \in 1..n, k - 1 \in S PROVE k \in S
  <2>1. 1..k \in SUBSET (1..n) /\ 1..k # {} /\ Max(1..k) = k /\ (1..k) \ {k} = 1..(k - 1)
    BY MaxOfRange
  <2>2. h[1..k] = h[1..(k - 1)] + v[k]
    BY <1>1, <1>5, <2>1 DEF SocFold
  <2> HIDE DEF v
  <2>3. SumTo(v, k) = SumTo(v, k - 1) + v[k]
    BY <1>7, SumToSteps
  <2> QED BY <1>9, <2>2, <2>3
<1>10. n \in S
  <2> HIDE DEF S
  <2> QED BY <1>8, <1>9, RangeInduction
<1> QED BY <1>6, <1>10

-------------------------------------------------------------------------------
(***************************************************************************)
(* What a derived result is made of.                                       *)
(***************************************************************************)
InputsTyped == /\ shunt \in ShuntSample
               /\ \E n \in Nat : chains \in [1..n -> ChainSample]
               /\ capacity \in Number

Currents == [i \in 1..N |-> chains[i].current]
Voltages == [i \in 1..N |-> chains[i].voltage]
Socs == [i \in 1..N |-> chains[i].soc]
SocKnown == \A i \in 1..N : ValidSoc(chains[i].soc)

\* What the samples are when something could be derived from them.
Derivable == /\ N \in Nat \ {0} /\ DOMAIN chains = 1..N
             /\ Integers1(Currents, N) /\ Integers1(Voltages, N)
             /\ shunt.current \in Int /\ shunt.voltage \in Int
             /\ capacity \in Int /\ capacity > 0

LEMMA ChainsTyped ==
    ASSUME InputsTyped
    PROVE  N \in Nat /\ chains \in [1..N -> ChainSample] /\ DOMAIN chains = 1..N
BY DEF InputsTyped, N

\* A result is either derived, from exact totals, or invalid and empty.
LEMMA OkMeans ==
    ASSUME InputsTyped, Ok
    PROVE  /\ Derivable
           /\ Result = Derive(shunt.current, chains, capacity)
           /\ ChainTotal(chains, "voltage") = SumTo(Voltages, N)
           /\ ChainTotal(chains, "current") = SumTo(Currents, N)
           /\ Result.voltage = SumTo(Voltages, N)
           /\ Result.current = shunt.current - SumTo(Currents, N)
           /\ Abs(Result.current) <= MaxFinite
           /\ Result.power = Result.voltage * Result.current
           /\ Abs(Result.power) <= MaxFinite * N
           /\ SumTo(Voltages, N) \in Int /\ SumTo(Currents, N) \in Int
<1> USE SentinelAssumption, MaxFiniteAssumption
<1>1. N \in Nat /\ chains \in [1..N -> ChainSample] /\ DOMAIN chains = 1..N
  BY ChainsTyped
<1>2. \A s : InvalidCalculation(s).status = s
  BY DEF InvalidCalculation
<1>3. /\ Usable(shunt.voltage, shunt.current)
      /\ ChainsHaveMeasurements(chains)
      /\ capacity \in Int /\ capacity > 0
      /\ Result = Derive(shunt.current, chains, capacity)
  <2> DEFINE missing == InvalidCalculation("SmartShunt missing")
             incomplete == InvalidCalculation("Chain data missing")
             invalid == InvalidCalculation("Invalid chain capacity")
  <2>1. missing.status # "ok" /\ incomplete.status # "ok" /\ invalid.status # "ok"
    BY DEF InvalidCalculation
  <2>2. Result \notin {missing, incomplete, invalid}
    BY <2>1 DEF Ok
  <2> HIDE DEF missing, incomplete, invalid
  <2>3. Result = IF ~Usable(shunt.voltage, shunt.current) THEN missing
                 ELSE IF ~ChainsHaveMeasurements(chains) THEN incomplete
                 ELSE IF ~(capacity \in Int /\ capacity > 0) THEN invalid
                 ELSE Derive(shunt.current, chains, capacity)
    BY DEF Result, CalculateVirtualBattery, missing, incomplete, invalid
  <2> QED BY <2>2, <2>3
<1>4. \A i \in 1..N : chains[i].voltage \in Int /\ chains[i].current \in Int
  BY <1>1, <1>3 DEF ChainsHaveMeasurements, Usable
<1>5. Integers1(Currents, N) /\ Integers1(Voltages, N)
  BY <1>4 DEF Integers1, Currents, Voltages
<1>6. N # 0
  BY <1>1, <1>3 DEF ChainsHaveMeasurements
<1>7. Derivable
  BY <1>1, <1>3, <1>5, <1>6 DEF Derivable, Usable
<1>8. SumTo(Voltages, N) \in Int /\ SumTo(Currents, N) \in Int
  BY <1>1, <1>5, SumToSteps
<1> DEFINE drawn == ChainTotal(chains, "current")
           volts == ChainTotal(chains, "voltage")
           current == IF drawn = NonFinite THEN NonFinite ELSE Clip(shunt.current - drawn)
<1>9. /\ NonFinite \notin {volts, current} /\ InRange(volts * current, N)
      /\ Result.voltage = volts /\ Result.current = current
      /\ Result.power = volts * current
  BY <1>2, <1>3 DEF Ok, Derive, N
<1>10. volts = SumTo(Voltages, N) /\ drawn = SumTo(Currents, N)
  <2>1. volts \in {NonFinite, SumTo([i \in 1..N |-> chains[i]["voltage"]], N)}
    BY <1>1, <1>4, ChainTotalExact
  <2>2. drawn \in {NonFinite, SumTo([i \in 1..N |-> chains[i]["current"]], N)}
    BY <1>1, <1>4, ChainTotalExact
  <2>3. drawn # NonFinite
    BY <1>9
  <2> QED BY <1>9, <2>1, <2>2, <2>3 DEF Voltages, Currents
<1>11. current = shunt.current - SumTo(Currents, N) /\ Abs(current) <= MaxFinite
  <2>1. shunt.current \in Int
    BY <1>7 DEF Derivable
  <2> QED BY <1>8, <1>9, <1>10, <2>1 DEF Clip, InRange, Abs
<1>12. Abs(volts * current) <= MaxFinite * N
  BY <1>9 DEF InRange
<1> QED BY <1>3, <1>7, <1>8, <1>9, <1>10, <1>11, <1>12

\* No derived field, or all that can be derived.
LEMMA OkOrEmpty == Ok \/ \A f \in DerivedFields : Result[f] = None
<1>1. \A s, f : f \in DerivedFields => InvalidCalculation(s)[f] = None
  BY DEF InvalidCalculation, DerivedFields
<1> DEFINE derived == Derive(shunt.current, chains, capacity)
<1>2. derived.status = "ok" \/ \E s : derived = InvalidCalculation(s)
  BY DEF Derive
<1>3. Result = derived \/ \E s : Result = InvalidCalculation(s)
  BY DEF Result, CalculateVirtualBattery
<1> HIDE DEF derived
<1> QED BY <1>1, <1>2, <1>3 DEF Ok

\* The virtual current is the shunt's minus every chain's.
LEMMA Subtracts == InputsTyped => SubtractsEveryChain
<1> SUFFICES ASSUME InputsTyped, Ok
             PROVE  /\ Result.current + SumFunction([i \in 1..N |-> chains[i].current])
                         = shunt.current
                    /\ \E lo, hi \in 1..N : /\ Result.voltage >= N * chains[lo].voltage
                                            /\ Result.voltage <= N * chains[hi].voltage
  BY DEF SubtractsEveryChain
<1>1. /\ Derivable
      /\ Result.voltage = SumTo(Voltages, N)
      /\ Result.current = shunt.current - SumTo(Currents, N)
      /\ SumTo(Currents, N) \in Int
  BY OkMeans
<1>2. SumTo(Currents, N) = SumFunction([i \in 1..N |-> chains[i].current])
  <2>1. [i \in 1..N |-> Currents[i]] = [i \in 1..N |-> chains[i].current]
    BY DEF Currents
  <2> QED BY <2>1 DEF SumTo
<1>3. shunt.current \in Int
  BY <1>1 DEF Derivable
<1>4. PICK lo, hi \in 1..N : \A i \in 1..N : /\ Voltages[lo] <= Voltages[i]
                                             /\ Voltages[i] <= Voltages[hi]
  BY <1>1, Extremes DEF Derivable
<1>5. Voltages[lo] \in Int /\ Voltages[hi] \in Int
  BY <1>1, <1>4 DEF Derivable, Integers1
<1>6. N * Voltages[lo] <= SumTo(Voltages, N) /\ SumTo(Voltages, N) <= N * Voltages[hi]
  BY <1>1, <1>4, <1>5, SumToBounds DEF Derivable
<1>7. Voltages[lo] = chains[lo].voltage /\ Voltages[hi] = chains[hi].voltage
  BY <1>4 DEF Voltages
<1>8. SumTo(Voltages, N) \in Int /\ N * Voltages[lo] \in Int /\ N * Voltages[hi] \in Int
  BY <1>1, <1>5, OkMeans DEF Derivable
<1>9. Result.voltage >= N * chains[lo].voltage /\ Result.voltage <= N * chains[hi].voltage
  BY <1>1, <1>6, <1>7, <1>8
<1> QED BY <1>1, <1>2, <1>3, <1>4, <1>9

\* Nothing is derived from partial input, and nothing outside the range of a float.
LEMMA NothingPartial == InputsTyped => NothingFromPartialInput
<1> SUFFICES ASSUME InputsTyped, \E f \in DerivedFields : Result[f] # None
             PROVE  /\ shunt.current \in Int /\ shunt.voltage \in Int
                    /\ \A i \in 1..N : chains[i].current \in Int /\ chains[i].voltage \in Int
                    /\ capacity > 0
                    /\ Abs(Result.current) <= MaxFinite
                    /\ Abs(Result.power) <= MaxFinite * N
  BY DEF NothingFromPartialInput
<1>1. Ok
  BY OkOrEmpty
<1>2. Derivable /\ Abs(Result.current) <= MaxFinite /\ Abs(Result.power) <= MaxFinite * N
  BY <1>1, OkMeans
<1>3. \A i \in 1..N : chains[i].current \in Int /\ chains[i].voltage \in Int
  <2>1. \A i \in 1..N : Currents[i] \in Int /\ Voltages[i] \in Int
    BY <1>2 DEF Derivable, Integers1
  <2> QED BY <2>1 DEF Currents, Voltages
<1> QED BY <1>2, <1>3 DEF Derivable

-------------------------------------------------------------------------------
(***************************************************************************)
(* Charge and time.                                                        *)
(***************************************************************************)
LEMMA Products ==
    /\ \A a, b \in Nat : a * b \in Nat
    /\ \A a, b, c \in Int : a * b - a * c = a * (b - c) /\ a * (b - c) + a * c = a * b
    /\ \A a, b, c \in Int : (a * b) * c = a * (b * c) /\ a * b = b * a
OBVIOUS

Drawn == capacity * (100 * N - SumTo(Socs, N))
Remaining == capacity * 100 * N - Drawn

\* What is derived of the state of charge.
LEMMA ChargeDerived ==
    ASSUME InputsTyped, Ok
    PROVE  IF SocKnown
           THEN /\ Result.soc = SumTo(Socs, N) /\ Result.consumed_ah = Drawn
                /\ Result.remaining_capacity = Remaining
                /\ Result.time_to_go = TimeToGo(Result.current, Remaining, capacity, 100 * N)
                /\ SumTo(Socs, N) \in 0 .. 100 * N
                /\ Drawn \in Nat /\ Remaining \in Nat
                /\ Drawn + Remaining = capacity * 100 * N
           ELSE \A f \in {"soc", "consumed_ah", "remaining_capacity", "time_to_go"} :
                    Result[f] = None
<1> USE SentinelAssumption
<1>1. /\ Derivable /\ Result = Derive(shunt.current, chains, capacity)
      /\ N \in Nat \ {0} /\ DOMAIN chains = 1..N
  BY OkMeans DEF Derivable
<1> DEFINE soc == SocTotal(chains)
           consumed == IF soc = None THEN None ELSE capacity * (100 * N - soc)
           remaining == IF soc = None THEN None ELSE capacity * 100 * N - consumed
<1>2. /\ Result.soc = soc /\ Result.consumed_ah = consumed
      /\ Result.remaining_capacity = remaining
      /\ Result.time_to_go = TimeToGo(Result.current, remaining, capacity, 100 * N)
  <2>1. \A s : InvalidCalculation(s).status = s
    BY DEF InvalidCalculation
  <2> QED BY <1>1, <2>1 DEF Ok, Derive, N, InvalidCalculation
<1>3. CASE ~SocKnown
  <2>1. soc = None
    BY <1>1, <1>3 DEF SocKnown, SocTotal
  <2>2. \A c, k, d : TimeToGo(c, None, k, d) = None
    BY DEF TimeToGo
  <2> QED BY <1>2, <1>3, <2>1, <2>2
<1>4. CASE SocKnown
  <2>1. soc = SumTo(Socs, N)
    BY <1>1, <1>4, SocTotalExact DEF SocKnown, Socs
  <2>2. \A i \in 1..N : Socs[i] \in Int /\ 0 <= Socs[i] /\ Socs[i] <= 100
    BY <1>4, ValidSocRange DEF SocKnown, Socs
  <2>3. Integers1(Socs, N)
    BY <2>2 DEF Integers1, Socs
  <2>4. SumTo(Socs, N) \in Int
    BY <1>1, <2>3, SumToSteps
  <2>5. N * 0 <= SumTo(Socs, N) /\ SumTo(Socs, N) <= N * 100
    <3> DEFINE lo == 0
               hi == 100
    <3>1. lo \in Int /\ hi \in Int /\ \A i \in 1..N : lo <= Socs[i] /\ Socs[i] <= hi
      BY <2>2
    <3> HIDE DEF lo, hi
    <3>2. N * lo <= SumTo(Socs, N) /\ SumTo(Socs, N) <= N * hi
      BY <1>1, <2>3, <3>1, SumToBounds
    <3> QED BY <3>2 DEF lo, hi
  <2> DEFINE total == SumTo(Socs, N)
  <2> HIDE DEF total
  <2>6. total \in Int /\ 0 <= total /\ total <= 100 * N
    BY <1>1, <2>4, <2>5 DEF total
  <2>7. capacity \in Nat
    BY <1>1 DEF Derivable
  <2>8. capacity * (100 * N - total) \in Nat
    <3>1. 100 * N - total \in Nat
      BY <1>1, <2>6
    <3> QED BY <2>7, <3>1, Products
  <2>9. capacity * 100 * N - capacity * (100 * N - total) = capacity * total
    <3>1. 100 * N \in Int /\ capacity \in Int /\ total \in Int
      BY <1>1, <2>6, <2>7
    <3>2. capacity * 100 * N = capacity * (100 * N)
      BY <1>1, <2>7
    <3>3. capacity * (100 * N) - capacity * (100 * N - total)
              = capacity * (100 * N - (100 * N - total))
      BY <3>1, Products
    <3>4. 100 * N - (100 * N - total) = total
      BY <3>1
    <3> QED BY <3>2, <3>3, <3>4
  <2>10. capacity * total \in Nat
    BY <2>6, <2>7, Products
  <2>11. Drawn \in Nat /\ Remaining \in Nat
    BY <2>8, <2>9, <2>10 DEF Drawn, Remaining, total
  <2>12. capacity * 100 * N \in Int
    BY <1>1, <2>7
  <2>13. Drawn + Remaining = capacity * 100 * N
    BY <2>11, <2>12 DEF Remaining
  <2>14. consumed = Drawn /\ remaining = Remaining
    BY <2>1, <2>4 DEF Drawn, Remaining
  <2> QED BY <1>2, <1>4, <2>1, <2>6, <2>11, <2>13, <2>14 DEF total
<1> QED BY <1>3, <1>4

LEMMA Balances == InputsTyped => AmpHoursBalance
<1> SUFFICES ASSUME InputsTyped PROVE AmpHoursBalance
  OBVIOUS
<1>1. SocKnown <=> \A i \in 1..N : chains[i].soc \in 0..100
  BY DEF SocKnown, ValidSoc
<1>2. CASE ~Ok
  BY <1>2, OkOrEmpty DEF AmpHoursBalance, DerivedFields
<1>3. CASE Ok /\ ~SocKnown
  BY <1>1, <1>3, ChargeDerived DEF AmpHoursBalance
<1>4. CASE Ok /\ SocKnown
  <2>1. /\ Result.soc = SumTo(Socs, N) /\ Result.consumed_ah = Drawn
        /\ Result.remaining_capacity = Remaining
        /\ SumTo(Socs, N) \in 0 .. 100 * N
        /\ Drawn \in Nat /\ Remaining \in Nat
        /\ Drawn + Remaining = capacity * 100 * N
    BY <1>4, ChargeDerived
  <2> QED BY <1>1, <1>4, <2>1 DEF AmpHoursBalance
<1> QED BY <1>2, <1>3, <1>4

\* Truncated division.
LEMMA Quotient ==
    ASSUME NEW a \in Nat, NEW b \in Nat \ {0}
    PROVE  a \div b \in Nat /\ (a \div b) * b <= a /\ a < (a \div b + 1) * b
OBVIOUS

LEMMA Monotone ==
    ASSUME NEW a \in Nat, NEW b \in Nat, NEW c \in Nat, a <= b PROVE a * c <= b * c
<1>1. (b - a) * c \in Nat
  BY Products
<1>2. (b - a) * c = b * c - a * c
  OBVIOUS
<1> QED BY <1>1, <1>2

LEMMA QuotientFalls ==
    ASSUME NEW a \in Nat, NEW b \in Nat \ {0}, NEW c \in Nat \ {0}, b <= c
    PROVE  a \div c <= a \div b
<1> DEFINE p == a \div b
           q == a \div c
<1>1. /\ p \in Nat /\ a < (p + 1) * b
      /\ q \in Nat /\ q * c <= a
  BY Quotient
<1> HIDE DEF p, q
<1>2. SUFFICES ASSUME p + 1 <= q PROVE FALSE
  BY <1>1 DEF p, q
<1>3. (p + 1) * b <= q * b
  BY <1>1, <1>2, Monotone
<1>4. b * q <= c * q /\ b * q = q * b /\ c * q = q * c
  BY <1>1, Monotone
<1>5. (p + 1) * b \in Nat /\ q * b \in Nat /\ q * c \in Nat
  BY <1>1
<1> QED BY <1>1, <1>3, <1>4, <1>5

\* A duration is the longest for which the charge lasts, up to the cap.
LEMMA DurationSound ==
    ASSUME NEW ah \in Nat, NEW den \in Nat \ {0}, NEW current \in Int, current # 0
    PROVE  LET t == Duration(ah, den, current)
           IN  /\ t \in 0..TimeToGoCap
               /\ t * (den * Abs(current)) <= ah * 3600
               /\ t = TimeToGoCap \/ (t + 1) * (den * Abs(current)) > ah * 3600
<1> DEFINE b == den * Abs(current)
           a == ah * 3600
<1>1. Abs(current) \in Nat \ {0}
  BY DEF Abs
<1>2. a \in Nat /\ b \in Nat \ {0}
  <2>1. b \in Nat
    BY <1>1, Products
  <2>2. b # 0
    BY <1>1
  <2> QED BY <2>1, <2>2
<1> HIDE DEF a, b
<1> DEFINE q == a \div b
           t == Duration(ah, den, current)
<1>3. q \in Nat /\ q * b <= a /\ a < (q + 1) * b
  BY <1>2, Quotient
<1>4. t = IF q < TimeToGoCap THEN q ELSE TimeToGoCap
  BY DEF Duration, a, b
<1>5. TimeToGoCap \in Nat
  BY DEF TimeToGoCap
<1> HIDE DEF q, t
<1>6. CASE q < TimeToGoCap
  <2>1. t = q
    BY <1>4, <1>6
  <2> QED BY <1>2, <1>3, <1>5, <1>6, <2>1 DEF a, b, t
<1>7. CASE ~(q < TimeToGoCap)
  <2>1. t = TimeToGoCap /\ t <= q /\ t \in Nat
    BY <1>3, <1>4, <1>5, <1>7
  <2>2. t * b <= q * b
    BY <1>2, <1>3, <2>1, Monotone
  <2>3. t * b \in Nat /\ q * b \in Nat
    BY <1>2, <1>3, <2>1, Products
  <2>4. t * b <= a
    BY <1>2, <1>3, <2>2, <2>3
  <2> QED BY <2>1, <2>4 DEF a, b, t
<1> QED BY <1>6, <1>7

\* What a time to go was computed from.
LEMMA TimeToGoFrom ==
    ASSUME InputsTyped, Result.time_to_go # None
    PROVE  /\ Ok /\ SocKnown /\ 100 * N \in Nat \ {0}
           /\ Result.current \in Int /\ Result.current # 0
           /\ \/ /\ Result.current < -Threshold
                 /\ Result.time_to_go = Duration(Remaining, 100 * N, Result.current)
              \/ /\ Result.current > Threshold
                 /\ Result.time_to_go = Duration(Drawn, 100 * N, Result.current)
<1>1. Ok
  BY OkOrEmpty DEF DerivedFields
<1>2. SocKnown
  BY <1>1, ChargeDerived
<1>3. /\ Result.time_to_go = TimeToGo(Result.current, Remaining, capacity, 100 * N)
      /\ Drawn \in Nat /\ Remaining \in Nat
      /\ Drawn + Remaining = capacity * 100 * N
  BY <1>1, <1>2, ChargeDerived
<1>4. N \in Nat \ {0} /\ capacity \in Int /\ Result.current \in Int
  <2>1. shunt.current \in Int /\ SumTo(Currents, N) \in Int
        /\ Result.current = shunt.current - SumTo(Currents, N)
    BY <1>1, OkMeans DEF Derivable
  <2> QED BY <1>1, <2>1, OkMeans DEF Derivable
<1>5. capacity * (100 * N) - Remaining = Drawn
  <2>1. capacity * (100 * N) = capacity * 100 * N
    BY <1>4
  <2> QED BY <1>3, <2>1
<1>6. CASE Result.current < -Threshold /\ Remaining > 0
  <2>1. Result.time_to_go = Duration(Remaining, 100 * N, Result.current)
    BY <1>3, <1>6, SentinelAssumption DEF TimeToGo
  <2> QED BY <1>1, <1>2, <1>4, <1>6, <2>1 DEF Threshold
<1>7. CASE ~(Result.current < -Threshold /\ Remaining > 0)
  <2>1. /\ Result.current > Threshold
        /\ Result.time_to_go
               = Duration(capacity * (100 * N) - Remaining, 100 * N, Result.current)
    BY <1>3, <1>7, SentinelAssumption DEF TimeToGo
  <2> QED BY <1>1, <1>2, <1>4, <1>5, <2>1 DEF Threshold
<1> QED BY <1>6, <1>7

LEMMA GoSound == InputsTyped => TimeToGoSound
<1> SUFFICES ASSUME InputsTyped, Result.time_to_go # None PROVE TimeToGoSound
  BY DEF TimeToGoSound
<1> DEFINE cur == Result.current
           t == Result.time_to_go
           den == 100 * N
           room == IF cur < 0 THEN Remaining ELSE Drawn
<1>1. /\ Ok /\ SocKnown /\ den \in Nat \ {0} /\ cur \in Int /\ cur # 0
      /\ \/ cur < -Threshold /\ t = Duration(Remaining, den, cur)
         \/ cur > Threshold /\ t = Duration(Drawn, den, cur)
  BY TimeToGoFrom
<1>2. /\ Drawn \in Nat /\ Remaining \in Nat
      /\ Result.consumed_ah = Drawn /\ Result.remaining_capacity = Remaining
  BY <1>1, ChargeDerived
<1>3. t = Duration(room, den, cur) /\ room \in Nat
  BY <1>1, <1>2 DEF Threshold
<1>4. /\ t \in 0..TimeToGoCap
      /\ t * (den * Abs(cur)) <= room * 3600
      /\ t = TimeToGoCap \/ (t + 1) * (den * Abs(cur)) > room * 3600
  <2> HIDE DEF cur, t, den, room
  <2> QED BY <1>1, <1>3, DurationSound
<1>5. N \in Nat /\ Abs(cur) \in Nat /\ TimeToGoCap \in Nat
  <2>1. N \in Nat
    BY <1>1, OkMeans DEF Derivable
  <2> QED BY <1>1, <2>1 DEF Abs, TimeToGoCap
<1>6. \A x \in Nat : x * Abs(cur) * 100 * N = x * (den * Abs(cur))
  <2> DEFINE b == Abs(cur)
  <2> HIDE DEF b
  <2>1. ASSUME NEW x \in Nat PROVE x * b * 100 * N = x * ((100 * N) * b)
    <3>1. N \in Int /\ b \in Int /\ x \in Int /\ 100 * N \in Int
      BY <1>5 DEF b
    <3>2. x * b * 100 * N = (x * b) * (100 * N)
      BY <3>1
    <3>3. (x * b) * (100 * N) = x * (b * (100 * N))
      BY <3>1, Products
    <3>4. b * (100 * N) = (100 * N) * b
      BY <3>1, Products
    <3> QED BY <3>2, <3>3, <3>4
  <2> QED BY <2>1 DEF b
<1>7. t \in Nat /\ t + 1 \in Nat
  BY <1>4, <1>5
<1>8. /\ t * Abs(cur) * 100 * N <= room * 3600
      /\ t = TimeToGoCap \/ (t + 1) * Abs(cur) * 100 * N > room * 3600
  <2> HIDE DEF den, room, t, cur
  <2> QED BY <1>4, <1>6, <1>7
<1> QED BY <1>2, <1>4, <1>8 DEF TimeToGoSound

\* What a result says of the inputs it was computed from, as a formula about one state.
Explained ==
    Ok => /\ Derivable /\ SumTo(Currents, N) \in Int
          /\ Result.current = shunt.current - SumTo(Currents, N)
          /\ SocKnown => /\ Remaining \in Nat
                         /\ Result.time_to_go
                                = TimeToGo(Result.current, Remaining, capacity, 100 * N)
          /\ Result.time_to_go # None => SocKnown

LEMMA ResultExplained == InputsTyped => Explained
<1> SUFFICES ASSUME InputsTyped, Ok
             PROVE  /\ Derivable /\ SumTo(Currents, N) \in Int
                    /\ Result.current = shunt.current - SumTo(Currents, N)
                    /\ SocKnown => /\ Remaining \in Nat
                                   /\ Result.time_to_go
                                        = TimeToGo(Result.current, Remaining, capacity, 100 * N)
                    /\ Result.time_to_go # None => SocKnown
  BY DEF Explained
<1>1. /\ Derivable /\ SumTo(Currents, N) \in Int
      /\ Result.current = shunt.current - SumTo(Currents, N)
  BY OkMeans
<1>2. SocKnown => /\ Remaining \in Nat
                  /\ Result.time_to_go
                       = TimeToGo(Result.current, Remaining, capacity, 100 * N)
  BY ChargeDerived
<1>3. ~SocKnown => Result.time_to_go = None
  BY ChargeDerived
<1> QED BY <1>1, <1>2, <1>3

\* A larger current of the same sign uses the same charge up no later.
LEMMA DurationFalls ==
    ASSUME NEW ah \in Nat, NEW den \in Nat \ {0}, NEW a \in Int, NEW b \in Int,
           a # 0, Abs(a) <= Abs(b)
    PROVE  Duration(ah, den, b) <= Duration(ah, den, a)
<1> DEFINE x == den * Abs(a)
           y == den * Abs(b)
           z == ah * 3600
<1>1. Abs(a) \in Nat \ {0} /\ Abs(b) \in Nat \ {0}
  BY DEF Abs
<1>2. Abs(a) * den <= Abs(b) * den /\ Abs(a) * den = x /\ Abs(b) * den = y
  BY <1>1, Monotone, Products
<1>3. x \in Nat \ {0} /\ y \in Nat \ {0} /\ z \in Nat
  BY <1>1, Products
<1> HIDE DEF x, y, z
<1> DEFINE p == z \div x
           q == z \div y
<1>4. p \in Nat /\ q \in Nat /\ q <= p
  <2>1. x <= y
    BY <1>2, <1>3
  <2> QED BY <1>3, <2>1, Quotient, QuotientFalls
<1>5. /\ Duration(ah, den, a) = IF p < TimeToGoCap THEN p ELSE TimeToGoCap
      /\ Duration(ah, den, b) = IF q < TimeToGoCap THEN q ELSE TimeToGoCap
  BY DEF Duration, x, y, z
<1>6. TimeToGoCap \in Nat
  BY DEF TimeToGoCap
<1> HIDE DEF p, q
<1> QED BY <1>4, <1>5, <1>6

\* One chain draws more, and nothing else changes.
DrawsMore(i) == /\ i \in DOMAIN chains
                /\ chains' = [chains EXCEPT ![i].current = chains'[i].current]
                /\ chains[i].current <= chains'[i].current
                /\ UNCHANGED <<shunt, capacity>>

LEMMA DrawnMore ==
    ASSUME InputsTyped, InputsTyped', Ok, Ok', NEW i, DrawsMore(i)
    PROVE  /\ Result'.current - Result.current = chains[i].current - chains'[i].current
           /\ (Result.time_to_go # None /\ Result.current < 0)
                 => Result'.time_to_go <= Result.time_to_go
<1>1. Explained /\ Explained'
  BY ResultExplained, PTL
<1>2. /\ Derivable /\ SumTo(Currents, N) \in Int
      /\ Result.current = shunt.current - SumTo(Currents, N)
  BY <1>1 DEF Explained
<1>3. /\ Derivable' /\ SumTo(Currents', N') \in Int
      /\ Result'.current = shunt'.current - SumTo(Currents', N')
  BY <1>1 DEF Explained
<1>4. /\ N \in Nat \ {0} /\ i \in 1..N
      /\ Integers1(Currents, N) /\ shunt.current \in Int
  BY <1>2 DEF Derivable, DrawsMore
<1>5. N' = N
  <2>1. DOMAIN chains' = DOMAIN chains
    BY DEF DrawsMore
  <2>2. N' \in Nat \ {0} /\ DOMAIN chains' = 1..N' /\ DOMAIN chains = 1..N
    BY <1>2, <1>3 DEF Derivable
  <2>3. \A m, n \in Nat \ {0} : 1..m = 1..n => m = n
    OBVIOUS
  <2> QED BY <1>4, <2>1, <2>2, <2>3
<1>6. /\ \A j \in (1..N) \ {i} : chains'[j] = chains[j]
      /\ \A j \in 1..N : chains'[j].soc = chains[j].soc
  <2>1. chains \in [1..N -> ChainSample]
    BY ChainsTyped
  <2> QED BY <1>4, <2>1 DEF DrawsMore, ChainSample
<1>7. Socs' = Socs /\ (SocKnown' <=> SocKnown)
  BY <1>5, <1>6 DEF Socs, SocKnown
<1>8. Integers1(Currents', N)
  BY <1>3, <1>5 DEF Derivable
<1>9. SumTo(Currents', N) - SumTo(Currents, N) = chains'[i].current - chains[i].current
  <2> DEFINE v == Currents
             w == Currents'
  <2>1. /\ \A j \in (1..N) \ {i} : v[j] = w[j]
        /\ v[i] = chains[i].current /\ w[i] = chains'[i].current
    BY <1>4, <1>5, <1>6 DEF Currents
  <2>2. Integers1(v, N) /\ Integers1(w, N)
    BY <1>4, <1>8
  <2> HIDE DEF v, w
  <2>3. SumTo(w, N) - SumTo(v, N) = w[i] - v[i]
    BY <1>4, <2>1, <2>2, SumToChanges
  <2> QED BY <2>1, <2>3 DEF v, w
<1>10. chains[i].current \in Int /\ chains'[i].current \in Int
  BY <1>4, <1>5, <1>8 DEF Integers1, Currents
<1>11. Result'.current - Result.current = chains[i].current - chains'[i].current
  BY <1>2, <1>3, <1>4, <1>5, <1>9, <1>10 DEF DrawsMore
<1>12. ASSUME Result.time_to_go # None, Result.current < 0
       PROVE  Result'.time_to_go <= Result.time_to_go
  <2> DEFINE cur == Result.current
             next == Result'.current
             left == Remaining
  <2>1. SocKnown /\ left \in Nat /\ Result.time_to_go = TimeToGo(cur, left, capacity, 100 * N)
    BY <1>1, <1>12 DEF Explained
  <2>2. Remaining' = left
    BY <1>5, <1>7 DEF Remaining, Drawn, DrawsMore
  <2>3. Result'.time_to_go = TimeToGo(next, left, capacity, 100 * N)
    <3>1. Result'.time_to_go = TimeToGo(Result'.current, Remaining', capacity', 100 * N')
      BY <1>1, <1>7, <2>1 DEF Explained
    <3> QED BY <1>5, <2>2, <3>1 DEF DrawsMore
  <2>4. cur \in Int /\ next \in Int /\ cur < 0 /\ next <= cur
    BY <1>2, <1>3, <1>4, <1>10, <1>11, <1>12 DEF DrawsMore
  <2>5. 100 * N \in Nat \ {0}
    BY <1>4
  <2>6. TimeToGo(cur, left, capacity, 100 * N) # None
    BY <1>12, <2>1
  <2> HIDE DEF cur, next, left
  <2>7. cur < -Threshold /\ left > 0 /\ left # None
    BY <2>1, <2>4, <2>6, SentinelAssumption DEF TimeToGo, Threshold
  <2>8. next < -Threshold
    BY <2>4, <2>7 DEF Threshold
  <2>9. /\ TimeToGo(cur, left, capacity, 100 * N) = Duration(left, 100 * N, cur)
        /\ TimeToGo(next, left, capacity, 100 * N) = Duration(left, 100 * N, next)
    BY <2>7, <2>8 DEF TimeToGo
  <2>10. Duration(left, 100 * N, next) <= Duration(left, 100 * N, cur)
    <3> DEFINE den == 100 * N
    <3>1. cur # 0 /\ Abs(cur) <= Abs(next)
      BY <2>4 DEF Abs
    <3>2. den \in Nat \ {0}
      BY <2>5
    <3> HIDE DEF den
    <3>3. Duration(left, den, next) <= Duration(left, den, cur)
      BY <2>1, <2>4, <3>1, <3>2, DurationFalls
    <3> QED BY <3>3 DEF den
  <2> QED BY <2>1, <2>3, <2>9, <2>10
<1> QED BY <1>11, <1>12

-------------------------------------------------------------------------------
(***************************************************************************)
(* The calculator over every input: its inputs stay samples of the device, *)
(* and what the runs check of a result holds for all of them.              *)
(***************************************************************************)
LEMMA InputsStart == MCInit => InputsTyped
BY SampleAssumption DEF MCInit, AnyInputs, InputsTyped, ShuntSample, ChainSample

LEMMA InputsStayTyped ==
    ASSUME InputsTyped, [Discovering \/ Calculating]_<<part, inputs, vars>>
    PROVE  InputsTyped'
<1>1. CASE UNCHANGED inputs
  BY <1>1 DEF InputsTyped, inputs
<1>2. CASE ReplaceChain
  <2>1. PICK i \in DOMAIN chains, sample \in ChainSamples :
            chains' = [chains EXCEPT ![i] = sample]
    BY <1>2 DEF ReplaceChain
  <2>2. sample \in ChainSample
    BY SampleAssumption DEF ChainSample
  <2>3. PICK n \in Nat : chains \in [1..n -> ChainSample]
    BY DEF InputsTyped
  <2>4. chains' \in [1..n -> ChainSample]
    BY <2>1, <2>2, <2>3
  <2> QED BY <1>2, <2>3, <2>4 DEF ReplaceChain, InputsTyped
<1> QED BY <1>1, <1>2 DEF Discovering, Calculating

LEMMA InputsAlwaysTyped == MCSpec => []InputsTyped
<1>1. InputsTyped /\ [Discovering \/ Calculating]_<<part, inputs, vars>> => InputsTyped'
  BY InputsStayTyped
<1> QED BY <1>1, InputsStart, PTL DEF MCSpec

(***************************************************************************)
(* The virtual chain carries what the SmartShunt measures minus what each  *)
(* chain carries, each counted once, at a voltage between theirs: whatever *)
(* the number of chains and the range of a float (calculate_virtual_battery). *)
(***************************************************************************)
THEOREM SubtractsEach == MCSpec => []SubtractsEveryChain
BY InputsAlwaysTyped, Subtracts, PTL

(***************************************************************************)
(* No derived value comes from fewer measurements than the SmartShunt's    *)
(* and every chain's, and none exceeds the range of a float.               *)
(***************************************************************************)
THEOREM NeverPartial == MCSpec => []NothingFromPartialInput
BY InputsAlwaysTyped, NothingPartial, PTL

(***************************************************************************)
(* Consumed and remaining ampere hours are not negative and add up to the  *)
(* capacity; without a state of charge of every chain there is none of     *)
(* them.                                                                   *)
(***************************************************************************)
THEOREM ChargeBalances == MCSpec => []AmpHoursBalance
BY InputsAlwaysTyped, Balances, PTL

(***************************************************************************)
(* A time to go is the longest time, up to seven days, for which what      *)
(* remains (or what is left to fill) suffices at the virtual current.      *)
(***************************************************************************)
THEOREM TimeToGoIsSound == MCSpec => []TimeToGoSound
BY InputsAlwaysTyped, GoSound, PTL

(***************************************************************************)
(* Between two polls that differ in the current of one chain only, the     *)
(* virtual current differs by exactly that, and more drawn from a          *)
(* discharging battery never prolongs its time to go.                      *)
(***************************************************************************)
THEOREM MoreDrawnIsLess == MCSpec => MoreDrawnLastsLess
<1> DEFINE Effect(i) == /\ Result'.current - Result.current
                               = chains[i].current - chains'[i].current
                        /\ (/\ Result.time_to_go # None
                            /\ Result.current < 0)
                              => Result'.time_to_go <= Result.time_to_go
           Lasts == \A i \in DOMAIN chains :
                       (/\ Ok /\ Ok'
                        /\ chains' = [chains EXCEPT ![i].current = chains'[i].current]
                        /\ chains[i].current <= chains'[i].current) => Effect(i)
<1>1. ASSUME InputsTyped, InputsTyped', [Discovering \/ Calculating]_<<part, inputs, vars>>
      PROVE  [Lasts]_inputs
  <2>1. CASE UNCHANGED inputs
    BY <2>1
  <2>2. CASE ReplaceChain
    <3>1. UNCHANGED <<shunt, capacity>>
      BY <2>2 DEF ReplaceChain
    <3>2. ASSUME NEW i \in DOMAIN chains, Ok, Ok',
                 chains' = [chains EXCEPT ![i].current = chains'[i].current],
                 chains[i].current <= chains'[i].current
          PROVE  Effect(i)
      <4>1. DrawsMore(i)
        BY <3>1, <3>2 DEF DrawsMore
      <4> QED BY <1>1, <3>2, <4>1, DrawnMore
    <3> HIDE DEF Effect
    <3> QED BY <3>2
  <2> QED BY <1>1, <2>1, <2>2 DEF Discovering, Calculating, inputs
<1> HIDE DEF Lasts
<1>2. MCSpec => [][Lasts]_inputs
  BY <1>1, InputsAlwaysTyped, PTL DEF MCSpec
<1> QED BY <1>2 DEF MoreDrawnLastsLess, Lasts

-------------------------------------------------------------------------------
(***************************************************************************)
(* Sequences of names.                                                     *)
(***************************************************************************)
Kept(r, n, names, excluded) ==
    /\ r[0] = <<>>
    /\ \A k \in 1..n : r[k] = IF names[k] \in excluded THEN r[k - 1]
                              ELSE Append(r[k - 1], names[k])

KeptFold(h, names, excluded) ==
    h = [s \in SUBSET DOMAIN names |->
            IF s = {} THEN <<>>
            ELSE IF names[Max(s)] \in excluded THEN h[s \ {Max(s)}]
            ELSE Append(h[s \ {Max(s)}], names[Max(s)])]

\* What is left of the first k names is what is left of those before, and the last one.
LEMMA WithoutSteps ==
    ASSUME NEW n \in Nat, NEW names \in [1..n -> Nat], NEW excluded
    PROVE  \E r : Kept(r, n, names, excluded) /\ Without(names, excluded) = r[n]
<1> DEFINE V == Seq(Nat)
           step == [p \in (1..n) \X V |-> IF names[p[1]] \in excluded THEN p[2]
                                          ELSE Append(p[2], names[p[1]])]
<1>1. \A i \in 1..n, v \in V :
          /\ step[<<i, v>>] = IF names[i] \in excluded THEN v ELSE Append(v, names[i])
          /\ step[<<i, v>>] \in V
  <2>1. ASSUME NEW i \in 1..n, NEW v \in V PROVE Append(v, names[i]) \in V
    OBVIOUS
  <2>2. ASSUME NEW i \in 1..n, NEW v \in V
        PROVE  step[<<i, v>>] = IF names[i] \in excluded THEN v ELSE Append(v, names[i])
    OBVIOUS
  <2> HIDE DEF step, V
  <2> QED BY <2>1, <2>2
<1>2. PICK g \in [SUBSET (1..n) -> V] : FoldsLeft(g, n, <<>>, step)
  <2>1. <<>> \in V
    OBVIOUS
  <2> HIDE DEF step, V
  <2>2. StepsTo(step, 1..n, V)
    BY <1>1 DEF StepsTo
  <2> QED BY <2>1, <2>2, LeftRecursion
<1>3. KeptFold(g, names, excluded)
  <2>1. ASSUME NEW s \in SUBSET (1..n), s # {}
        PROVE  g[s] = IF names[Max(s)] \in excluded THEN g[s \ {Max(s)}]
                      ELSE Append(g[s \ {Max(s)}], names[Max(s)])
    <3> HIDE DEF V
    <3>1. Max(s) \in 1..n /\ g[s \ {Max(s)}] \in V
      BY <2>1, MaxInside
    <3>2. g[s] = step[<<Max(s), g[s \ {Max(s)}]>>]
      BY <1>2, <2>1 DEF FoldsLeft
    <3> HIDE DEF step
    <3> QED BY <1>1, <3>1, <3>2
  <2>2. g[{}] = <<>> /\ g = [s \in SUBSET (1..n) |-> g[s]]
    BY <1>2 DEF FoldsLeft
  <2> QED BY <2>1, <2>2 DEF KeptFold
<1> DEFINE h == CHOOSE iter : KeptFold(iter, names, excluded)
<1>4. KeptFold(h, names, excluded)
  BY <1>3
<1>5. Without(names, excluded) = h[1..n]
  BY DEF Without, FoldLeft, MapThenFoldSet, KeptFold
<1> HIDE DEF h
<1> DEFINE r == [k \in 0..n |-> h[1..k]]
<1>6. r[0] = <<>>
  BY <1>4 DEF KeptFold
<1>7. ASSUME NEW k \in 1..n
      PROVE  r[k] = IF names[k] \in excluded THEN r[k - 1] ELSE Append(r[k - 1], names[k])
  <2>1. 1..k \in SUBSET (1..n) /\ 1..k # {} /\ Max(1..k) = k /\ (1..k) \ {k} = 1..(k - 1)
    <3>1. k \in Nat /\ k > 0 /\ 1..k \in SUBSET (1..n) /\ 1..k # {}
      OBVIOUS
    <3> QED BY <3>1, MaxOfRange
  <2>2. h[1..k] = IF names[k] \in excluded THEN h[1..(k - 1)]
                  ELSE Append(h[1..(k - 1)], names[k])
    BY <1>4, <2>1 DEF KeptFold
  <2>3. r[k] = h[1..k] /\ r[k - 1] = h[1..(k - 1)]
    OBVIOUS
  <2> HIDE DEF r
  <2> QED BY <2>2, <2>3
<1>8. Without(names, excluded) = r[n]
  BY <1>5
<1> HIDE DEF r
<1>9. Kept(r, n, names, excluded)
  BY <1>6, <1>7 DEF Kept
<1> QED BY <1>8, <1>9

LEMMA Appended ==
    ASSUME NEW T, NEW seq \in Seq(T), NEW x \in T
    PROVE  /\ Append(seq, x) \in Seq(T) /\ Append(seq, x) # <<>>
           /\ Range(Append(seq, x)) = Range(seq) \cup {x}
           /\ DOMAIN Append(seq, x) = 1 .. Len(seq) + 1
           /\ Append(seq, x)[Len(seq) + 1] = x
           /\ \A i \in 1..Len(seq) : Append(seq, x)[i] = seq[i]
BY DEF Range

LEMMA Headed ==
    ASSUME NEW T, NEW seq \in Seq(T), seq # <<>>
    PROVE  /\ Head(seq) \in T /\ Tail(seq) \in Seq(T)
           /\ Range(seq) = {Head(seq)} \cup Range(Tail(seq))
           /\ DOMAIN Tail(seq) = 1 .. Len(seq) - 1
           /\ \A i \in 1 .. Len(seq) - 1 : Tail(seq)[i] = seq[i + 1]
           /\ Head(seq) = seq[1]
<1>1. /\ Head(seq) \in T /\ Tail(seq) \in Seq(T) /\ Len(seq) > 0
      /\ DOMAIN Tail(seq) = 1 .. Len(seq) - 1 /\ Head(seq) = seq[1]
      /\ \A i \in 1 .. Len(seq) - 1 : Tail(seq)[i] = seq[i + 1]
  OBVIOUS
<1>2. ASSUME NEW i \in DOMAIN seq PROVE seq[i] \in {Head(seq)} \cup Range(Tail(seq))
  <2>1. i = 1 \/ i - 1 \in 1 .. Len(seq) - 1
    OBVIOUS
  <2> QED BY <1>1, <2>1 DEF Range
<1>3. ASSUME NEW i \in DOMAIN Tail(seq) PROVE Tail(seq)[i] \in Range(seq)
  <2>1. i + 1 \in DOMAIN seq
    BY <1>1
  <2> QED BY <1>1, <2>1 DEF Range
<1>4. Head(seq) \in Range(seq)
  BY <1>1 DEF Range
<1> QED BY <1>1, <1>2, <1>3, <1>4 DEF Range

LEMMA IncreasingAppend ==
    ASSUME NEW seq \in Seq(Nat), Increasing(seq), NEW x \in Nat, \A y \in Range(seq) : y < x
    PROVE  Increasing(Append(seq, x))
<1> DEFINE longer == Append(seq, x)
           m == Len(seq)
<1>1. /\ DOMAIN longer = 1 .. m + 1 /\ longer[m + 1] = x /\ m \in Nat
      /\ \A i \in 1..m : longer[i] = seq[i] /\ seq[i] \in Range(seq)
      /\ DOMAIN seq = 1..m
  BY Appended DEF Range
<1> HIDE DEF longer, m
<1>2. ASSUME NEW i \in 1 .. m + 1, NEW j \in 1 .. m + 1, i < j PROVE longer[i] < longer[j]
  <2>1. i \in 1..m
    BY <1>1, <1>2
  <2>2. CASE j = m + 1
    BY <1>1, <2>1, <2>2
  <2>3. CASE j \in 1..m
    BY <1>1, <1>2, <2>1, <2>3 DEF Increasing
  <2> QED BY <1>1, <2>2, <2>3
<1>3. Increasing(longer)
  BY <1>1, <1>2 DEF Increasing
<1> QED BY <1>3 DEF longer

\* Without removes exactly what it is told to, and keeps the order.
LEMMA WithoutKeeps ==
    ASSUME NEW names \in Seq(Nat), NEW excluded
    PROVE  LET left == Without(names, excluded)
           IN  /\ left \in Seq(Nat) /\ Range(left) = Range(names) \ excluded
               /\ Increasing(names) => Increasing(left)
<1> DEFINE n == Len(names)
<1>1. n \in Nat /\ names \in [1..n -> Nat] /\ DOMAIN names = 1..n
  OBVIOUS
<1> HIDE DEF n
<1>2. PICK r : Kept(r, n, names, excluded) /\ Without(names, excluded) = r[n]
  BY <1>1, WithoutSteps
<1> DEFINE First(k) == {names[i] : i \in 1..k}
           S == {k \in 0..n : /\ r[k] \in Seq(Nat) /\ Range(r[k]) = First(k) \ excluded
                              /\ Increasing(names) => Increasing(r[k])}
<1>3. 0 \in S
  <2>1. r[0] = <<>>
    BY <1>2 DEF Kept
  <2>2. Range(<<>>) = {} /\ Increasing(<<>>) /\ First(0) = {} /\ <<>> \in Seq(Nat)
    BY DEF Range, Increasing
  <2>3. Range(r[0]) = First(0) \ excluded /\ r[0] \in Seq(Nat) /\ Increasing(r[0])
    <3> HIDE DEF First
    <3> QED BY <2>1, <2>2
  <2> HIDE DEF First
  <2> QED BY <1>1, <2>3
<1>4. ASSUME NEW k \in 1..n, k - 1 \in S PROVE k \in S
  <2> DEFINE q == r[k - 1]
             x == names[k]
  <2>1. /\ q \in Seq(Nat) /\ Range(q) = First(k - 1) \ excluded
        /\ Increasing(names) => Increasing(q)
    BY <1>4
  <2>2. x \in Nat /\ r[k] = IF x \in excluded THEN q ELSE Append(q, x)
    BY <1>1, <1>2 DEF Kept
  <2>3. First(k) = First(k - 1) \cup {x} /\ k \in 0..n
    <3>1. \A i \in 1..k : i = k \/ i \in 1..(k - 1)
      OBVIOUS
    <3>2. k \in 1..k /\ 1..(k - 1) \subseteq 1..k
      OBVIOUS
    <3> QED BY <3>1, <3>2
  <2> HIDE DEF First, q
  <2>4. CASE x \in excluded
    BY <2>1, <2>2, <2>3, <2>4
  <2>5. CASE x \notin excluded
    <3>1. Append(q, x) \in Seq(Nat) /\ Range(Append(q, x)) = Range(q) \cup {x}
      BY <2>1, <2>2, Appended
    <3>2. ASSUME Increasing(names) PROVE Increasing(Append(q, x))
      <4>1. \A i \in 1..(k - 1) : names[i] < x
        BY <1>1, <3>2 DEF Increasing
      <4>2. \A y \in Range(q) : y < x
        BY <2>1, <4>1 DEF First
      <4> HIDE DEF x
      <4> QED BY <2>1, <2>2, <3>2, <4>2, IncreasingAppend
    <3> QED BY <2>1, <2>2, <2>3, <2>5, <3>1, <3>2
  <2> QED BY <2>4, <2>5
<1>5. 0..n \subseteq S
  <2> HIDE DEF S
  <2> QED BY <1>1, <1>3, <1>4, RangeInduction
<1>6. n \in S /\ First(n) = Range(names)
  <2>1. n \in 0..n
    BY <1>1
  <2>2. First(n) = Range(names)
    BY <1>1 DEF Range
  <2> HIDE DEF S
  <2> QED BY <1>5, <2>1, <2>2
<1> QED BY <1>2, <1>6

-------------------------------------------------------------------------------
(***************************************************************************)
(* The discovery: types, and what is known of the names asked so far.      *)
(***************************************************************************)
Discovers == pc \in {"product", "choose"}

\* A discovery that asks has somebody to ask.
Types == TypeOK /\ (pc = "product" => asking # <<>>)

\* The candidates were shunts, and a shunt on the bus is one that was.
Seen == /\ Range(candidates) \subseteq wasShunt
        /\ Discovers => OwnedByShunt \subseteq wasShunt

\* Of an undisturbed discovery: the answers so far and the names still to ask are in
\* order and account for every shunt; without a connection there are none of them.
Progress ==
    (quiet /\ Discovers) =>
        /\ Increasing(candidates) /\ Increasing(asking)
        /\ \A c \in Range(candidates), a \in Range(asking) : c < a
        /\ pc = "product" => link = "live"
        /\ pc = "choose" => asking = <<>>
        /\ IF link = "live"
           THEN Range(candidates) \cup (Range(asking) \cap OwnedByShunt) = OwnedByShunt
           ELSE candidates = <<>>

DiscoveryInv == Types /\ Seen /\ Progress

\* A sequence of ports is one of numbers.
LEMMA PortNames == Seq(Ports) \subseteq Seq(Nat) /\ Nothing \notin Ports
<1>1. Ports \subseteq Nat /\ Nothing \notin Ports
  BY DiscoveryAssumption
<1>2. ASSUME NEW seq \in Seq(Ports) PROVE seq \in Seq(Nat)
  <2> DEFINE n == Len(seq)
  <2>1. n \in Nat /\ seq \in [1..n -> Ports]
    OBVIOUS
  <2> HIDE DEF n
  <2>2. seq \in [1..n -> Nat]
    BY <1>1, <2>1
  <2> QED BY <2>1, <2>2
<1> QED BY <1>1, <1>2

LEMMA FoundType ==
    ASSUME candidates \in Seq(Ports)
    PROVE  Found \in (Range(candidates) \ Excluded) \cup {Nothing}
<1> DEFINE free == Without(candidates, Excluded)
<1>1. free \in Seq(Nat) /\ Range(free) = Range(candidates) \ Excluded
  BY PortNames, WithoutKeeps
<1>2. \A i \in DOMAIN free : free[i] \in Range(free)
  BY DEF Range
<1>3. Found = IF ShuntIndex + 1 \in DOMAIN free THEN free[ShuntIndex + 1] ELSE Nothing
  BY DEF Found
<1> HIDE DEF free
<1> QED BY <1>1, <1>2, <1>3

\* The listed names, in order.
LEMMA Listing ==
    ASSUME NEW names \in SUBSET Ports
    PROVE  /\ InOrder(names) \in Seq(Ports) /\ Increasing(InOrder(names))
           /\ Range(InOrder(names)) = names
<1>1. names \in SUBSET Nat /\ IsFiniteSet(names)
  BY DiscoveryAssumption, FS_Subset
<1>2. PICK seq \in [1..Cardinality(names) -> names] : Increasing(seq)
  BY <1>1, Enumeration
<1>3. /\ InOrder(names) \in [1..Cardinality(names) -> names]
      /\ Increasing(InOrder(names))
  BY <1>2 DEF InOrder, Increasing
<1>4. Cardinality(names) \in Nat
  BY <1>1, FS_CardinalityType
<1>5. InOrder(names) \in Seq(Ports)
  <2> DEFINE s == InOrder(names)
             n == Cardinality(names)
  <2> HIDE DEF s, n
  <2>1. s \in [1..n -> Ports] /\ n \in Nat
    BY <1>3, <1>4 DEF s, n
  <2>2. s \in Seq(Ports)
    BY <2>1
  <2> QED BY <2>2 DEF s
<1> QED BY <1>1, <1>3, <1>5, EnumeratesAll

LEMMA NoNames == /\ <<>> \in Seq(Ports) /\ Increasing(<<>>) /\ Range(<<>>) = {}
                 /\ \A seq \in Seq(Ports) : Range(seq) = {} => seq = <<>>
<1>1. <<>> \in Seq(Ports) /\ Increasing(<<>>) /\ Range(<<>>) = {}
  BY DEF Range, Increasing
<1>2. ASSUME NEW seq \in Seq(Ports), seq # <<>> PROVE Range(seq) # {}
  <2>1. Range(seq) = {Head(seq)} \cup Range(Tail(seq))
    BY <1>2, Headed
  <2> QED BY <2>1
<1> QED BY <1>1, <1>2

LEMMA DiscoveryStarts == Init => DiscoveryInv
<1> SUFFICES ASSUME Init PROVE DiscoveryInv
  OBVIOUS
<1>1. Types
  BY NoNames, DiscoveryAssumption, ReconnectAssumption
     DEF Init, Types, TypeOK, ConnectionType
<1>2. Seen /\ Progress
  BY NoNames DEF Init, Seen, Progress, Discovers
<1> QED BY <1>1, <1>2 DEF DiscoveryInv

\* A call on the connection leaves it of its type.
LEMMA Calls ==
    ASSUME ConnectionType, NEW breaks \in BOOLEAN, AfterCall(breaks), UNCHANGED daemon
    PROVE  ConnectionType'
BY ReconnectAssumption DEF ConnectionType, AfterCall, Ensured, Retries

LEMMA ListKeeps == ASSUME DiscoveryInv, List PROVE DiscoveryInv'
<1> USE DEF discovery
<1>1. ConnectionType'
  BY Calls DEF DiscoveryInv, Types, TypeOK, List, KeepsLink
<1> DEFINE named == {p \in Ports : owner[p] # Nothing}
           names == InOrder(named)
<1>2. names \in Seq(Ports) /\ Increasing(names) /\ Range(names) = named
  BY Listing
<1>3. /\ asking' \in {<<>>, names} /\ candidates' = <<>> /\ wasShunt' = OwnedByShunt
      /\ pc' = (IF asking' = <<>> THEN "choose" ELSE "product")
      /\ quiet' \in BOOLEAN
      /\ quiet' => asking' = (IF Ensured = "live" THEN names ELSE <<>>)
      /\ link' = Ensured
      /\ UNCHANGED <<owner, booting, selected, discWait, sampled>>
      /\ events' \in 0..MaxEvents
  <2>1. /\ candidates' = <<>> /\ wasShunt' = OwnedByShunt /\ link' = Ensured
        /\ pc' = (IF asking' = <<>> THEN "choose" ELSE "product")
        /\ UNCHANGED <<owner, booting, selected, discWait, sampled>>
    BY DEF List, KeepsLink, AfterCall
  <2>2. events \in 0..MaxEvents
    BY DEF DiscoveryInv, Types, TypeOK
  <2>3. \/ /\ Answered /\ quiet' = TRUE
           /\ asking' = IF Ensured # "live" THEN <<>> ELSE names
        \/ TimesOut /\ asking' = <<>> /\ quiet' = FALSE
    BY DEF List
  <2> HIDE DEF names
  <2>4. asking' \in {<<>>, names} /\ quiet' \in BOOLEAN
    BY <2>3
  <2>5. quiet' => asking' = (IF Ensured = "live" THEN names ELSE <<>>)
    BY <2>3
  <2>6. events' \in 0..MaxEvents
    BY <2>2, <2>3, DiscoveryAssumption DEF Answered, TimesOut
  <2> QED BY <2>1, <2>4, <2>5, <2>6
<1> HIDE DEF names
<1>4. Types'
  BY <1>1, <1>2, <1>3, NoNames DEF DiscoveryInv, Types, TypeOK, OwnedByShunt
<1>5. OwnedByShunt' = OwnedByShunt
  BY <1>3 DEF OwnedByShunt
<1>6. Seen'
  BY <1>3, <1>5, NoNames DEF Seen
<1>7. Progress'
  <2> SUFFICES ASSUME quiet' PROVE Progress'
    BY DEF Progress
  <2>1. OwnedByShunt \subseteq named
    BY DiscoveryAssumption DEF OwnedByShunt
  <2>2. CASE Ensured = "live"
    <3>1. asking' = names /\ link' = "live"
      BY <1>3, <2>2
    <3>2. Range(candidates') \cup (Range(asking') \cap OwnedByShunt') = OwnedByShunt'
      BY <1>2, <1>3, <1>5, <2>1, <3>1, NoNames
    <3> QED BY <1>2, <1>3, <3>1, <3>2, NoNames DEF Progress
  <2>3. CASE Ensured # "live"
    <3>1. asking' = <<>> /\ link' # "live"
      BY <1>3, <2>3
    <3> QED BY <1>3, <3>1, NoNames DEF Progress
  <2> QED BY <2>2, <2>3
<1> QED BY <1>4, <1>6, <1>7 DEF DiscoveryInv

LEMMA AskProductKeeps == ASSUME DiscoveryInv, AskProduct PROVE DiscoveryInv'
<1> USE DEF discovery
<1>1. ConnectionType'
  BY Calls DEF DiscoveryInv, Types, TypeOK, AskProduct, KeepsLink
<1> DEFINE x == Head(asking)
<1>2. /\ asking \in Seq(Ports) /\ asking # <<>> /\ candidates \in Seq(Ports)
      /\ pc = "product"
  BY DEF DiscoveryInv, Types, TypeOK, AskProduct
<1>3. x \in Ports /\ Tail(asking) \in Seq(Ports) /\ Range(asking) = {x} \cup Range(Tail(asking))
  BY <1>2, Headed
<1>4. PICK answers \in BOOLEAN :
          /\ candidates' = IF IsCandidate(x, answers) THEN Append(candidates, x)
                           ELSE candidates
          /\ quiet' = (quiet /\ answers)
          /\ IF answers THEN Answered ELSE TimesOut
  BY DEF AskProduct
<1>5. /\ asking' = Tail(asking) /\ pc' = (IF asking' = <<>> THEN "choose" ELSE "product")
      /\ UNCHANGED <<owner, booting, selected, discWait, wasShunt, sampled>>
      /\ link' = Ensured
  BY DEF AskProduct, KeepsLink, AfterCall
<1>6. /\ Append(candidates, x) \in Seq(Ports)
      /\ Range(Append(candidates, x)) = Range(candidates) \cup {x}
  BY <1>2, <1>3, Appended
<1>7. IsCandidate(x, answers) => x \in OwnedByShunt
  BY <1>3 DEF IsCandidate, OwnedByShunt
<1>8. OwnedByShunt' = OwnedByShunt
  BY <1>5 DEF OwnedByShunt
<1>9. Types'
  <2>1. candidates' \in Seq(Ports) /\ asking' \in Seq(Ports)
    BY <1>2, <1>3, <1>4, <1>5, <1>6
  <2>2. events' \in 0..MaxEvents
    BY <1>4, DiscoveryAssumption DEF Answered, TimesOut, DiscoveryInv, Types, TypeOK
  <2>3. quiet' \in BOOLEAN
    BY <1>4 DEF DiscoveryInv, Types, TypeOK
  <2> QED BY <1>1, <1>5, <2>1, <2>2, <2>3 DEF DiscoveryInv, Types, TypeOK
<1>10. Seen'
  BY <1>2, <1>4, <1>5, <1>6, <1>7, <1>8 DEF DiscoveryInv, Seen, Discovers
<1>11. Progress'
  <2> SUFFICES ASSUME quiet' PROVE Progress'
    BY DEF Progress
  <2>1. quiet /\ answers
    BY <1>4
  <2>2. /\ Increasing(candidates) /\ Increasing(asking)
        /\ \A c \in Range(candidates), a \in Range(asking) : c < a
        /\ link = "live"
        /\ Range(candidates) \cup (Range(asking) \cap OwnedByShunt) = OwnedByShunt
    BY <1>2, <2>1 DEF DiscoveryInv, Progress, Discovers
  <2>3. link' = "live" /\ Ensured = "live"
    BY <1>5, <2>2 DEF Ensured, Retries
  <2>4. IsCandidate(x, answers) <=> x \in OwnedByShunt
    BY <1>3, <2>1, <2>3 DEF IsCandidate, OwnedByShunt
  <2>5. Increasing(Tail(asking)) /\ \A a \in Range(Tail(asking)) : x < a
    <3> DEFINE rest == Tail(asking)
               m == Len(asking) - 1
    <3>1. /\ DOMAIN rest = 1..m /\ m \in Nat /\ DOMAIN asking = 1 .. m + 1
          /\ \A i \in 1..m : rest[i] = asking[i + 1]
          /\ x = asking[1]
      BY <1>2, Headed
    <3> HIDE DEF rest, m, x
    <3>2. ASSUME NEW i \in 1..m, NEW j \in 1..m, i < j PROVE rest[i] < rest[j]
      <4>1. i + 1 \in DOMAIN asking /\ j + 1 \in DOMAIN asking /\ i + 1 < j + 1
        BY <3>1, <3>2
      <4> QED BY <2>2, <3>1, <4>1 DEF Increasing
    <3>3. ASSUME NEW i \in 1..m PROVE x < rest[i]
      <4>1. i + 1 \in DOMAIN asking /\ 1 \in DOMAIN asking /\ 1 < i + 1
        BY <3>1
      <4> QED BY <2>2, <3>1, <4>1 DEF Increasing
    <3> QED BY <3>1, <3>2, <3>3 DEF Increasing, Range, rest
  <2>6. Increasing(Append(candidates, x))
    <3>1. candidates \in Seq(Nat) /\ x \in Nat
      BY <1>2, <1>3, DiscoveryAssumption, PortNames
    <3>2. \A c \in Range(candidates) : c < x
      BY <1>3, <2>2
    <3> HIDE DEF x
    <3> QED BY <2>2, <3>1, <3>2, IncreasingAppend
  <2>7. Increasing(candidates') /\ Increasing(asking')
    BY <1>4, <1>5, <2>2, <2>5, <2>6
  <2>8. \A c \in Range(candidates'), a \in Range(asking') : c < a
    BY <1>3, <1>4, <1>5, <1>6, <2>2, <2>5
  <2>9. Range(candidates') \cup (Range(asking') \cap OwnedByShunt') = OwnedByShunt'
    BY <1>3, <1>4, <1>5, <1>6, <1>8, <2>2, <2>4
  <2> QED BY <1>5, <2>3, <2>7, <2>8, <2>9 DEF Progress
<1> QED BY <1>9, <1>10, <1>11 DEF DiscoveryInv

\* Where nothing is asked there is nothing to account for.
LEMMA RestsAfter ==
    ASSUME DiscoveryInv, Types', UNCHANGED candidates, wasShunt \subseteq wasShunt', ~Discovers'
    PROVE  DiscoveryInv'
BY DEF DiscoveryInv, Seen, Progress

\* A step that leaves the names, their owners and the connection alone.
LEMMA SameNames ==
    ASSUME DiscoveryInv, Types', UNCHANGED <<pc, owner, link, discovery>>
    PROVE  DiscoveryInv'
BY DEF DiscoveryInv, Seen, Progress, Discovers, OwnedByShunt, discovery

LEMMA ServiceKeeps == ASSUME DiscoveryInv, Service PROVE DiscoveryInv'
<1> USE DEF discovery
<1>0. Types /\ TypeOK /\ ConnectionType
  BY DEF DiscoveryInv, Types, TypeOK
<1>1. CASE Boot
  <2>1. ConnectionType'
    BY <1>0, <1>1, ReconnectAssumption DEF Boot, Connects, ConnectionType
  <2>2. Types' /\ UNCHANGED candidates /\ wasShunt' = wasShunt /\ ~Discovers'
    BY <1>0, <1>1, <2>1 DEF Boot, Types, TypeOK, Discovers
  <2> QED BY <2>2, RestsAfter
<1>2. CASE StartPoll
  <2>1. ConnectionType'
    BY <1>0, <1>2 DEF StartPoll, connection, ConnectionType
  <2>2. discWait' \in 0..DiscoveryInterval
    BY <1>0, <1>2, DiscoveryAssumption DEF StartPoll, TypeOK
  <2>3. Types' /\ UNCHANGED candidates /\ wasShunt' = wasShunt /\ ~Discovers'
    BY <1>0, <1>2, <2>1, <2>2 DEF StartPoll, Types, TypeOK, Discovers
  <2> QED BY <2>3, RestsAfter
<1>3. CASE List
  BY <1>3, ListKeeps
<1>4. CASE AskProduct
  BY <1>4, AskProductKeeps
<1>5. CASE Choose
  <2>1. ConnectionType'
    BY <1>0, <1>5 DEF Choose, connection, ConnectionType
  <2>2. Found \in (Ports \ Excluded) \cup {Nothing}
    <3>1. candidates \in Seq(Ports)
      BY <1>0 DEF TypeOK
    <3>2. Range(candidates) \subseteq Ports
      BY <3>1 DEF Range
    <3> QED BY <3>1, <3>2, FoundType
  <2>3. selected' \in (Ports \ Chains) \cup {Nothing}
    BY <1>0, <1>5, <2>2 DEF Choose, Excluded, TypeOK
  <2>4. Types' /\ UNCHANGED candidates /\ wasShunt' = wasShunt /\ ~Discovers'
    BY <1>0, <1>5, <2>1, <2>3 DEF Choose, Types, TypeOK, Discovers
  <2> QED BY <2>4, RestsAfter
<1>6. CASE Register
  <2>1. ConnectionType'
    BY <1>0, <1>6 DEF Register, connection, ConnectionType
  <2>2. Types' /\ UNCHANGED candidates /\ wasShunt' = wasShunt /\ ~Discovers'
    BY <1>0, <1>6, <2>1 DEF Register, Types, TypeOK, Discovers
  <2> QED BY <2>2, RestsAfter
<1>7. CASE ReadShunt
  <2>1. ConnectionType'
    <3>1. CASE UNCHANGED connection
      BY <1>0, <3>1 DEF connection, ConnectionType
    <3>2. CASE AfterCall(Breaks) /\ UNCHANGED daemon
      <4>1. Breaks \in BOOLEAN
        BY DEF Breaks
      <4> QED BY <1>0, <3>2, <4>1, Calls
    <3> QED BY <1>7, <3>1, <3>2 DEF ReadShunt
  <2>2. sampled' \in Devices \cup {Nothing} /\ events' \in 0..MaxEvents
    BY <1>0, <1>7, DiscoveryAssumption DEF ReadShunt, TypeOK, Answered, TimesOut
  <2>3. Types' /\ UNCHANGED candidates /\ wasShunt' = wasShunt /\ ~Discovers'
    BY <1>0, <1>7, <2>1, <2>2 DEF ReadShunt, Types, TypeOK, Discovers
  <2> QED BY <2>3, RestsAfter
<1>8. CASE ReadChains
  <2>1. ConnectionType'
    <3>1. Breaks \in BOOLEAN
      BY DEF Breaks
    <3> QED BY <1>0, <1>8, <3>1, Calls DEF ReadChains
  <2>2. Types' /\ UNCHANGED candidates /\ wasShunt' = wasShunt /\ ~Discovers'
    BY <1>0, <1>8, <2>1 DEF ReadChains, Types, TypeOK, Discovers
  <2> QED BY <2>2, RestsAfter
<1> QED BY <1>1, <1>2, <1>3, <1>4, <1>5, <1>6, <1>7, <1>8 DEF Service, Discover, Poll

LEMMA EnvironmentKeeps == ASSUME DiscoveryInv, Environment PROVE DiscoveryInv'
<1> USE DEF discovery, Undisturbed
<1>0. Types /\ TypeOK /\ ConnectionType
  BY DEF DiscoveryInv, Types, TypeOK
<1>1. ASSUME NEW port \in Ports, NEW device \in Devices \cup {Nothing}, Plug(port, device)
      PROVE  DiscoveryInv'
  <2>1. ConnectionType'
    BY <1>0, <1>1 DEF Plug, connection, ConnectionType
  <2>2. /\ owner' \in [Ports -> Devices \cup {Nothing}]
        /\ events' \in 0..MaxEvents /\ quiet' = FALSE
        /\ wasShunt' = wasShunt \cup OwnedByShunt'
        /\ UNCHANGED <<pc, booting, selected, discWait, asking, candidates, sampled>>
    BY <1>0, <1>1, DiscoveryAssumption DEF Plug, Disturbs, TypeOK
  <2>3. OwnedByShunt' \subseteq Ports
    BY DEF OwnedByShunt
  <2>4. Types'
    BY <1>0, <2>1, <2>2, <2>3 DEF Types, TypeOK
  <2> QED BY <2>2, <2>4 DEF DiscoveryInv, Seen, Progress
<1>2. CASE DaemonStops
  <2>1. ConnectionType'
    BY <1>0, <1>2 DEF DaemonStops, LinkBreaks, ConnectionType
  <2>2. /\ events' \in 0..MaxEvents /\ quiet' = FALSE
        /\ UNCHANGED <<owner, wasShunt, pc, booting, selected, discWait, asking, candidates,
                       sampled>>
    BY <1>0, <1>2, DiscoveryAssumption DEF DaemonStops, Disturbs, TypeOK
  <2>3. Types'
    BY <1>0, <2>1, <2>2 DEF Types, TypeOK
  <2> QED BY <2>2, <2>3 DEF DiscoveryInv, Seen, Progress, Discovers, OwnedByShunt
<1>3. CASE DaemonStarts
  <2>1. ConnectionType'
    BY <1>0, <1>3 DEF DaemonStarts, DaemonReturns, ConnectionType
  <2>2. Types' /\ UNCHANGED <<pc, owner, link, discovery>>
    BY <1>0, <1>3, <2>1 DEF DaemonStarts, DaemonReturns, Types, TypeOK
  <2> QED BY <2>2, SameNames
<1>4. CASE Stop
  <2>1. ConnectionType'
    BY <1>0, <1>4 DEF Stop, connection, ConnectionType
  <2>2. /\ events' \in 0..MaxEvents /\ quiet' = FALSE /\ pc' = "down"
        /\ selected' = Nothing /\ discWait' = 0 /\ sampled' = Nothing
        /\ asking' = <<>> /\ candidates' = <<>>
        /\ UNCHANGED <<owner, booting, wasShunt>>
    BY <1>0, <1>4, DiscoveryAssumption DEF Stop, Disturbs, TypeOK
  <2>3. /\ asking' \in Seq(Ports) /\ candidates' \in Seq(Ports)
        /\ discWait' \in 0..DiscoveryInterval
    BY <2>2, DiscoveryAssumption
  <2>4. Types'
    BY <1>0, <2>1, <2>2, <2>3 DEF Types, TypeOK
  <2> QED BY <2>2, <2>4, NoNames DEF DiscoveryInv, Seen, Progress, Discovers
<1>5. CASE Tick
  <2>1. ConnectionType'
    BY <1>0, <1>5, ReconnectAssumption DEF Tick, Older, ConnectionType
  <2>2. discWait' \in 0..DiscoveryInterval
    BY <1>0, <1>5, DiscoveryAssumption DEF Tick, TypeOK
  <2>3. Types' /\ UNCHANGED <<pc, owner, link, discovery>>
    BY <1>0, <1>5, <2>1, <2>2 DEF Tick, Types, TypeOK
  <2> QED BY <2>3, SameNames
<1> QED BY <1>1, <1>2, <1>3, <1>4, <1>5 DEF Environment

LEMMA DiscoveryStays == ASSUME DiscoveryInv, [Next]_vars PROVE DiscoveryInv'
<1>1. CASE UNCHANGED vars
  <2>1. UNCHANGED <<daemon, link, attemptAge, owner, pc, booting, selected, discWait,
                    asking, candidates, quiet, wasShunt, sampled, events>>
    BY <1>1 DEF vars, connection, discovery
  <2>2. ConnectionType'
    BY <2>1 DEF ConnectionType, DiscoveryInv, Types, TypeOK
  <2>3. Types'
    BY <2>1, <2>2 DEF DiscoveryInv, Types, TypeOK
  <2> QED BY <2>1, <2>3, SameNames DEF discovery
<1> QED BY <1>1, ServiceKeeps, EnvironmentKeeps DEF Next

LEMMA DiscoveryAlways == Spec => []DiscoveryInv
<1>1. DiscoveryInv /\ [Next]_vars => DiscoveryInv'
  BY DiscoveryStays
<1> QED BY <1>1, DiscoveryStarts, PTL DEF Spec

\* What an undisturbed discovery chooses, when it has asked everybody.
LEMMA ChosenAtOnce == DiscoveryInv => UndisturbedIsOneStep
<1> SUFFICES ASSUME DiscoveryInv, pc = "choose", quiet PROVE Found = OneStep(Excluded)
  BY DEF UndisturbedIsOneStep
<1>1. candidates \in Seq(Nat)
  BY PortNames DEF DiscoveryInv, Types, TypeOK
<1>2. /\ Increasing(candidates) /\ asking = <<>>
      /\ IF link = "live"
         THEN Range(candidates) \cup (Range(asking) \cap OwnedByShunt) = OwnedByShunt
         ELSE candidates = <<>>
  BY DEF DiscoveryInv, Progress, Discovers
<1> DEFINE free == Without(candidates, Excluded)
           shunts == OwnedByShunt \ Excluded
           chosen == {p \in shunts : Cardinality({q \in shunts : q < p}) = ShuntIndex}
           n == Len(free)
<1>3. /\ free \in Seq(Nat) /\ Range(free) = Range(candidates) \ Excluded
      /\ Increasing(free)
  BY <1>1, <1>2, WithoutKeeps
<1>4. Found = IF ShuntIndex + 1 \in DOMAIN free THEN free[ShuntIndex + 1] ELSE Nothing
  BY DEF Found
<1>5. OneStep(Excluded) = IF link # "live" \/ chosen = {} THEN Nothing
                          ELSE CHOOSE p \in chosen : TRUE
  BY DEF OneStep
<1>6. ShuntIndex \in Int
  BY DiscoveryAssumption
<1>7. n \in Nat /\ DOMAIN free = 1..n /\ free \in [1..n -> Nat]
  BY <1>3
<1> HIDE DEF free, n
<1>8. CASE link # "live"
  <2>1. Range(candidates) = {}
    BY <1>2, <1>8, NoNames
  <2>2. \A i \in DOMAIN free : free[i] \in Range(free)
    BY DEF Range
  <2> QED BY <1>3, <1>4, <1>5, <1>8, <2>1, <2>2
<1>9. CASE link = "live"
  <2>1. shunts = Range(free)
    BY <1>2, <1>3, <1>9, NoNames
  <2>2. \A k \in 1..n : Cardinality({q \in shunts : q < free[k]}) = k - 1
    BY <1>3, <1>7, <2>1, CountsBelow
  <2>3. shunts = {free[k] : k \in 1..n}
    BY <1>7, <2>1 DEF Range
  <2> HIDE DEF shunts
  <2>4. chosen = {free[k] : k \in {i \in 1..n : i = ShuntIndex + 1}}
    <3>1. \A k \in 1..n : (Cardinality({q \in shunts : q < free[k]}) = ShuntIndex)
                              <=> k = ShuntIndex + 1
      BY <1>6, <1>7, <2>2
    <3> QED BY <2>3, <3>1
  <2>5. CASE ShuntIndex + 1 \in 1..n
    <3>1. chosen = {free[ShuntIndex + 1]}
      BY <2>4, <2>5
    <3> HIDE DEF chosen
    <3> QED BY <1>4, <1>5, <1>7, <1>9, <2>5, <3>1
  <2>6. CASE ShuntIndex + 1 \notin 1..n
    <3>1. chosen = {}
      BY <2>4, <2>6
    <3> HIDE DEF chosen
    <3> QED BY <1>4, <1>5, <1>7, <2>6, <3>1
  <2> QED BY <2>5, <2>6
<1> QED BY <1>8, <1>9

(***************************************************************************)
(* The variables of the discovery keep their types; in particular the      *)
(* selected SmartShunt is never one of the configured chains.              *)
(***************************************************************************)
THEOREM DiscoveryTyped == Spec => []TypeOK
<1>1. DiscoveryInv => TypeOK
  BY DEF DiscoveryInv, Types
<1> QED BY <1>1, DiscoveryAlways, PTL

(***************************************************************************)
(* The many D-Bus calls of a discovery that nothing disturbs find what one *)
(* look at the whole bus would find: whatever the ports, the devices and   *)
(* the chains (discover_smartshunt), and that is the step VirtualBattery   *)
(* takes.                                                                  *)
(***************************************************************************)
THEOREM DiscoveryIsOneStep == Spec => []UndisturbedIsOneStep
BY DiscoveryAlways, ChosenAtOnce, PTL

(***************************************************************************)
(* However the hardware moves, the daemon stops and calls time out while   *)
(* it runs, a discovery selects no name that did not belong to a shunt at  *)
(* some instant of it.                                                     *)
(***************************************************************************)
THEOREM SelectsAShunt == Spec => SelectedWasShunt
<1> DEFINE Right == selected' # selected /\ selected' # Nothing => selected' \in wasShunt
<1>1. ASSUME DiscoveryInv, [Next]_vars PROVE [Right]_vars
  <2> SUFFICES ASSUME selected' # selected, selected' # Nothing PROVE selected' \in wasShunt
    OBVIOUS
  <2>1. Choose
    BY <1>1 DEF Next, Service, Discover, Poll, Environment, Boot, StartPoll, List, AskProduct,
        Register, ReadShunt, ReadChains, Plug, DaemonStops, DaemonStarts, Stop, Tick,
        Undisturbed, vars
  <2>2. selected' = Found
    BY <2>1 DEF Choose
  <2>3. Found \in Range(candidates)
    BY <1>1, <2>2, FoundType DEF DiscoveryInv, Types, TypeOK
  <2> QED BY <1>1, <2>2, <2>3 DEF DiscoveryInv, Seen
<1>2. Spec => [][Right]_vars
  BY <1>1, DiscoveryAlways, PTL DEF Spec
<1> QED BY <1>2 DEF SelectedWasShunt
===============================================================================

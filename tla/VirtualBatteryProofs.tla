------------------------- MODULE VirtualBatteryProofs -------------------------
(***************************************************************************)
(* Proofs about VirtualBattery, for every number of chains, set of ports,  *)
(* set of frames, age limit and discovery interval.                        *)
(***************************************************************************)
EXTENDS VirtualBattery, FoldTheorems

Orders == {ClearOrder, PublishOrder, PublishOrderNoCells}

\* The length of a write order and the membership of its paths.
LEMMA OrderFacts ==
    ASSUME NEW o \in Orders
    PROVE  /\ Len(o) \in 1..13
           /\ \A j \in 1..Len(o) : o[j] \in Paths
<1>1. CASE o = ClearOrder
  BY <1>1 DEF ClearOrder, Paths, Measurements
<1>2. CASE o = PublishOrder
  BY <1>2 DEF PublishOrder, Paths, Measurements
<1>3. CASE o = PublishOrderNoCells
  BY <1>3 DEF PublishOrderNoCells, Paths, Measurements
<1> QED BY <1>1, <1>2, <1>3 DEF Orders

\* The position a poll starts to write at is a position of the longest order.
LEMMA LongestOrder == Len(PublishOrder) = 13
BY DEF PublishOrder

LEMMA LastStepType == LastStep \in 1..13
<1>1. PICK o \in Orders : o = Order
  BY DEF Order, Orders
<1>2. Len(o) \in 1..13
  BY <1>1, OrderFacts
<1> QED BY <1>1, <1>2 DEF LastStep

\* What one accepted read yields is a sample.
LEMMA SampleType ==
    ASSUME NEW f \in Frame \cup {Absent}, NEW mqtt, Accepts(f, mqtt)
    PROVE  SampleOf(f) \in Sample
BY DEF Accepts, Usable, SampleOf, Sample, ValidSoc, Frame

\* Time passing keeps a frame a frame.
LEMMA AgedType ==
    ASSUME NEW f \in Frame \cup {Absent}
    PROVE  Aged(f) \in Frame \cup {Absent}
<1> USE FrameAssumption, SentinelAssumption
<1>1. CASE f = Absent \/ f.age = None \/ f.age = AgeLimit
  BY <1>1 DEF Aged
<1>2. CASE ~(f = Absent \/ f.age = None \/ f.age = AgeLimit)
  <2>1. f \in Frame /\ f.age + 1 \in Time
    BY <1>2 DEF Frame, Time
  <2>2. Aged(f) = [f EXCEPT !.age = f.age + 1]
    BY <1>2 DEF Aged
  <2> QED BY <2>1, <2>2 DEF Frame
<1> QED BY <1>1, <1>2

\* A discovered shunt is a shunt and not an excluded service.
LEMMA DiscoverType ==
    ASSUME NEW excluded
    PROVE  Discover(excluded) \in (ShuntProducts \ excluded) \cup {None}
BY DEF Discover

\* While it writes, the service is at a position of the order it follows.
StepInOrder == pc = "write" => step \in 1..LastStep

TypeInv == TypeOK /\ StepInOrder

\* The type of the state, with the position it writes, is inductive.
LEMMA TypeInvInductive == TypeInv /\ [Next]_vars => TypeInv'
<1> USE NAssumption, ServiceAssumption, FrameAssumption, PublisherAssumption
<1>1. TypeInv /\ [Next]_vars => TypeOK'
  <2> SUFFICES ASSUME TypeOK, StepInOrder, [Next]_vars PROVE TypeOK'
    BY DEF TypeInv
  <2> USE DEF TypeOK
  <2>1. CASE Boot
    <3>1. shunt' \in Services \cup {None}
      BY <2>1, DiscoverType DEF Boot, Services
    <3> QED BY <2>1, <3>1 DEF Boot
  <2>2. CASE Stop
    BY <2>2 DEF Stop, NoSamples, InitialOut, Source, PublishOrder
  <2>3. CASE StartPoll
    <3>1. shunt' \in Services \cup {None} /\ discWait' \in 0..DiscoveryInterval
      BY <2>3, DiscoverType DEF StartPoll, Rediscover, Services
    <3> QED BY <2>3, <3>1 DEF StartPoll, Source
  <2>4. CASE ReadSource
    <3> DEFINE name == IF next = 0 THEN shunt ELSE next
    <3>1. name \in Services \cup {None}
      BY DEF Services, Chain, Source
    <3>2. name # None /\ Accepts(Reply(name), name \in MqttChains)
             => SampleOf(bus[name]) \in Sample
      BY <3>1, SampleType DEF Reply, Accepts
    <3>3. src' \in [Source -> Sample \cup {Offline}]
      BY <2>4, <3>2 DEF ReadSource
    <3>4. next' \in Source /\ step' \in 1..Len(PublishOrder)
      BY <2>4 DEF ReadSource, Source, PublishOrder
    <3>5. pc' \in {"down", "idle", "read", "write"}
      BY <2>4 DEF ReadSource
    <3> QED BY <2>4, <3>3, <3>4, <3>5 DEF ReadSource
  <2>5. CASE Write
    <3>1. step' \in 1..Len(PublishOrder)
      BY <2>5, LongestOrder, LastStepType DEF Write, StepInOrder
    <3>2. out' = [p \in Paths |-> out'[p]]
      BY <2>5 DEF Write
    <3> QED BY <2>5, <3>1, <3>2 DEF Write
  <2>6. ASSUME NEW s \in Services, Publish(s) PROVE TypeOK'
    BY <2>6 DEF Publish, service
  <2>7. ASSUME NEW s \in Services, Vanish(s) PROVE TypeOK'
    BY <2>7 DEF Vanish, service
  <2>8. CASE LoseBus
    BY <2>8 DEF LoseBus, service
  <2>9. CASE Reconnect
    BY <2>9 DEF Reconnect, service
  <2>10. CASE Tick
    <3>1. bus' \in [Services -> Frame \cup {Absent}]
      BY <2>10, AgedType DEF Tick
    <3>2. discWait' \in 0..DiscoveryInterval
      BY <2>10 DEF Tick
    <3> QED BY <2>10, <3>1, <3>2 DEF Tick, service
  <2>11. CASE UNCHANGED vars
    BY <2>11 DEF vars
  <2> QED BY <2>1, <2>2, <2>3, <2>4, <2>5, <2>6, <2>7, <2>8, <2>9, <2>10, <2>11
          DEF Next, Poll, Environment
<1>2. TypeInv /\ [Next]_vars => StepInOrder'
  <2> SUFFICES ASSUME TypeOK, StepInOrder, [Next]_vars, pc' = "write"
               PROVE  step' \in 1..LastStep'
    BY DEF TypeInv, StepInOrder
  <2>1. CASE ReadSource
    <3>1. step' = 1
      BY <2>1 DEF ReadSource
    <3>2. PICK o \in Orders : o = Order'
      BY DEF Order, Orders
    <3>3. Len(o) \in 1..13
      BY <3>2, OrderFacts
    <3>4. LastStep' \in 1..13
      BY <3>2, <3>3 DEF LastStep
    <3> QED BY <3>1, <3>4
  <2>2. CASE Write
    <3>1. LastStep' = LastStep
      BY <2>2 DEF Write, LastStep, Order, AllOnline, Calc
    <3> QED BY <2>2, <3>1, LastStepType DEF Write, StepInOrder
  <2>3. CASE UNCHANGED service
    <3>1. LastStep' = LastStep
      BY <2>3 DEF service, LastStep, Order, AllOnline, Calc
    <3> QED BY <2>3, <3>1 DEF service, StepInOrder
  <2>4. CASE Boot \/ Stop \/ StartPoll
    BY <2>4 DEF Boot, Stop, StartPoll
  <2>5. CASE Environment \/ UNCHANGED vars
    BY <2>3, <2>5 DEF Environment, Publish, Vanish, LoseBus, Reconnect, Tick, vars, service
  <2> QED BY <2>1, <2>2, <2>4, <2>5 DEF Next, Poll
<1> QED BY <1>1, <1>2 DEF TypeInv

LEMMA TypeInvInit == Init => TypeInv
BY NAssumption, ServiceAssumption, FrameAssumption, PublisherAssumption
   DEF Init, TypeInv, TypeOK, StepInOrder, NoSamples, InitialOut, Source, PublishOrder

\* The type invariant of the service, its publishers and its clock.
THEOREM TypeCorrect == Spec => []TypeOK
<1>1. TypeInv => TypeOK
  BY DEF TypeInv
<1> QED BY <1>1, TypeInvInit, TypeInvInductive, PTL DEF Spec

-------------------------------------------------------------------------------
(***************************************************************************)
(* The published state between polls.  What a poll has written so far      *)
(* agrees with what it is to write; a process that is down shows nothing.  *)
(***************************************************************************)
WrittenSoFar == pc = "write" => \A j \in 1..step-1 : out[Order[j]] = Values[Order[j]]
DownIsClear == pc = "down" => shunt = None /\ src = NoSamples /\ out = InitialOut

PublishInv == /\ TypeInv
              /\ WrittenSoFar
              /\ DownIsClear
              /\ AvailableWhenComplete

\* Every position of the order names a path.
LEMMA OrderPaths == \A j \in 1..LastStep : Order[j] \in Paths
<1>1. PICK o \in Orders : o = Order
  BY DEF Order, Orders
<1>2. \A j \in 1..Len(o) : o[j] \in Paths
  BY <1>1, OrderFacts
<1> QED BY <1>1, <1>2 DEF LastStep

\* What a step that leaves the samples alone leaves alone too.
LEMMA SameSamples ==
    ASSUME src' = src
    PROVE  /\ Order' = Order
           /\ Values' = Values
           /\ LastStep' = LastStep
           /\ AllOnline' = AllOnline
BY DEF Order, Values, LastStep, AllOnline, Calc, MissingSources, Ready

\* One write adds its path to what has been written.
LEMMA WriteAdds ==
    ASSUME TypeInv, WrittenSoFar, Write
    PROVE  \A j \in 1..step : out'[Order[j]] = Values[Order[j]]
<1> SUFFICES ASSUME NEW j \in 1..step
             PROVE  out'[Order[j]] = Values[Order[j]]
  OBVIOUS
<1>1. step \in 1..LastStep /\ LastStep \in 1..13
  BY LastStepType DEF TypeInv, StepInOrder, Write
<1>2. Order[step] \in Paths /\ Order[j] \in Paths
  BY <1>1, OrderPaths
<1>3. j = step \/ (j # step /\ j \in 1..step-1)
  BY <1>1
<1>4. out' = [out EXCEPT ![Order[step]] = Values[Order[step]]]
  BY DEF Write
<1>5. out = [p \in Paths |-> out[p]]
  BY DEF TypeInv, TypeOK
<1>6. j \in 1..step-1 => out[Order[j]] = Values[Order[j]]
  BY DEF WrittenSoFar, Write
<1> QED BY <1>2, <1>3, <1>4, <1>5, <1>6

\* After the last write an unavailable battery is cleared, an available one ready.
LEMMA LastWrite ==
    ASSUME TypeInv, WrittenSoFar, Write, step = LastStep
    PROVE  AvailableWhenComplete'
<1> DEFINE written(p) == out'[p] = Values[p]
<1>1. AllOnline' = AllOnline
  BY SameSamples DEF Write
<1>2. CASE ~AllOnline
  <2>1. Order = ClearOrder /\ LastStep = 13
    BY <1>2 DEF Order, ClearOrder, LastStep
  <2>2. \A j \in 1..13 : written(ClearOrder[j])
    BY <2>1, WriteAdds
  <2>3. written(ClearOrder[3]) /\ written(ClearOrder[5]) /\ written(ClearOrder[6])
        /\ written(ClearOrder[7]) /\ written(ClearOrder[8]) /\ written(ClearOrder[9])
        /\ written(ClearOrder[10]) /\ written(ClearOrder[11]) /\ written(ClearOrder[12])
    BY <2>2
  <2>4. written("DataComplete") /\ written("Connected")
    BY <2>3 DEF ClearOrder
  <2>5. \A p \in Measurements : written(p)
    BY <2>3 DEF ClearOrder, Measurements
  <2>6. Values["DataComplete"] = 0 /\ Values["Connected"] = 0
    BY <1>2 DEF Values, Ready
  <2>7. \A p \in Measurements : Values[p] = None
    BY <1>2 DEF Values, Measurements, Calc, InvalidCalculation
  <2> QED BY <1>1, <1>2, <2>4, <2>5, <2>6, <2>7 DEF AvailableWhenComplete
<1>3. CASE AllOnline
  <2>1. PICK o \in {PublishOrder, PublishOrderNoCells} : o = Order
    BY <1>3 DEF Order
  <2>2. \A j \in 1..LastStep : written(o[j])
    BY <2>1, WriteAdds
  <2>3. LastStep = Len(o)
    BY <2>1 DEF LastStep
  <2>4. \A p \in {"Missing", "DataComplete", "Connected", "CustomName"} : written(p)
    <3>1. CASE o = PublishOrder
      <4>1. LastStep = 13
        BY <2>3, <3>1 DEF PublishOrder
      <4>2. written(o[2]) /\ written(o[11]) /\ written(o[12]) /\ written(o[13])
        BY <2>2, <4>1
      <4> QED BY <3>1, <4>2 DEF PublishOrder
    <3>2. CASE o = PublishOrderNoCells
      <4>1. LastStep = 12
        BY <2>3, <3>2 DEF PublishOrderNoCells
      <4>2. written(o[2]) /\ written(o[10]) /\ written(o[11]) /\ written(o[12])
        BY <2>2, <4>1
      <4> QED BY <3>2, <4>2 DEF PublishOrderNoCells
    <3> QED BY <3>1, <3>2
  <2>5. /\ Values["DataComplete"] = 1 /\ Values["Connected"] = 1
        /\ Values["Missing"] = {} /\ Values["CustomName"] = {}
    BY <1>3 DEF Values, Ready, MissingSources, AllOnline
  <2> QED BY <1>1, <1>3, <2>4, <2>5 DEF AvailableWhenComplete
<1> QED BY <1>2, <1>3

\* The published state is inductive.
LEMMA PublishInvInductive == PublishInv /\ [Next]_vars => PublishInv'
<1> SUFFICES ASSUME PublishInv, [Next]_vars PROVE PublishInv'
  OBVIOUS
<1> USE DEF PublishInv
<1>1. TypeInv'
  BY TypeInvInductive
<1>2. WrittenSoFar'
  <2>1. CASE Write
    <3>1. Order' = Order /\ Values' = Values
      BY <2>1, SameSamples DEF Write
    <3>2. \A j \in 1..step : out'[Order[j]] = Values[Order[j]]
      BY <2>1, WriteAdds
    <3>3. pc' = "write" => step' = step + 1
      BY <2>1 DEF Write
    <3>4. step \in Nat
      BY LongestOrder DEF TypeInv, TypeOK
    <3> QED BY <3>1, <3>2, <3>3, <3>4 DEF WrittenSoFar
  <2>2. CASE ReadSource
    BY <2>2 DEF ReadSource, WrittenSoFar
  <2>3. CASE UNCHANGED service
    <3>1. Order' = Order /\ Values' = Values
      BY <2>3, SameSamples DEF service
    <3> QED BY <2>3, <3>1 DEF service, WrittenSoFar
  <2>4. CASE Boot \/ Stop \/ StartPoll
    BY <2>4 DEF Boot, Stop, StartPoll, WrittenSoFar
  <2>5. CASE Environment \/ UNCHANGED vars
    BY <2>3, <2>5 DEF Environment, Publish, Vanish, LoseBus, Reconnect, Tick, vars, service
  <2> QED BY <2>1, <2>2, <2>4, <2>5 DEF Next, Poll
<1>3. DownIsClear'
  BY DEF DownIsClear, Next, Poll, Environment, Boot, Stop, StartPoll, ReadSource, Write,
         Publish, Vanish, LoseBus, Reconnect, Tick, vars, service
<1>4. AvailableWhenComplete'
  <2>1. CASE Write
    BY <2>1, LastWrite DEF Write, AvailableWhenComplete
  <2>2. CASE Boot
    <3>1. src' = NoSamples /\ out' = InitialOut
      BY <2>2 DEF Boot, DownIsClear
    <3>2. ~AllOnline'
      BY <3>1, NAssumption DEF AllOnline, NoSamples, Source
    <3> QED BY <3>1, <3>2, SentinelAssumption
            DEF AvailableWhenComplete, InitialOut, Paths, Measurements
  <2>3. CASE UNCHANGED service
    BY <2>3 DEF service, AvailableWhenComplete, AllOnline
  <2>4. CASE Stop \/ StartPoll \/ ReadSource
    BY <2>4 DEF Stop, StartPoll, ReadSource, AvailableWhenComplete
  <2>5. CASE Environment \/ UNCHANGED vars
    BY <2>3, <2>5 DEF Environment, Publish, Vanish, LoseBus, Reconnect, Tick, vars, service
  <2> QED BY <2>1, <2>2, <2>4, <2>5 DEF Next, Poll
<1> QED BY <1>1, <1>2, <1>3, <1>4

LEMMA PublishInvInit == Init => PublishInv
BY TypeInvInit DEF Init, PublishInv, WrittenSoFar, DownIsClear, AvailableWhenComplete

\* Between polls the battery is available exactly when every source was accepted,
\* and an unavailable one shows no measurement, for any number of chains.
THEOREM AvailabilityCorrect == Spec => []AvailableWhenComplete
<1>1. PublishInv => AvailableWhenComplete
  BY DEF PublishInv
<1> QED BY <1>1, PublishInvInit, PublishInvInductive, PTL DEF Spec

\* A selected shunt survives everything but the end of the process.
THEOREM ShuntRetained == Spec => ShuntKept
<1>1. PublishInv /\ [Next]_vars => [shunt # None /\ pc' # "down" => shunt' = shunt]_vars
  BY DEF PublishInv, DownIsClear, Next, Poll, Environment, Boot, Stop, StartPoll,
         Rediscover, ReadSource, Write, Publish, Vanish, LoseBus, Reconnect, Tick,
         vars, service
<1> QED BY <1>1, PublishInvInit, PublishInvInductive, PTL DEF Spec, ShuntKept

\* The shunt is never a chain, and a discovered one has a shunt's product name.
THEOREM ShuntIdentity == Spec => []ShuntIdentified
<1>1. Init => ShuntIdentified
  BY DEF Init, ShuntIdentified
<1>2. ShuntIdentified /\ [Next]_vars => ShuntIdentified'
  <2> SUFFICES ASSUME ShuntIdentified, [Next]_vars PROVE ShuntIdentified'
    OBVIOUS
  <2>1. CASE Boot
    BY <2>1, DiscoverType DEF Boot, ShuntIdentified
  <2>2. CASE StartPoll
    BY <2>2, DiscoverType DEF StartPoll, Rediscover, ShuntIdentified
  <2>3. CASE UNCHANGED shunt
    BY <2>3 DEF ShuntIdentified
  <2>4. CASE Stop
    BY <2>4 DEF Stop, ShuntIdentified
  <2>5. CASE ReadSource \/ Write \/ Environment \/ UNCHANGED vars
    BY <2>3, <2>5 DEF ReadSource, Write, Environment, Publish, Vanish, LoseBus,
                      Reconnect, Tick, vars, service
  <2> QED BY <2>1, <2>2, <2>4, <2>5 DEF Next, Poll
<1> QED BY <1>1, <1>2, PTL DEF Spec

-------------------------------------------------------------------------------
(***************************************************************************)
(* What is calculated from samples.  The total over the chains is added up *)
(* chain by chain, and one that stays in the range of a float is exact.    *)
(***************************************************************************)
LEMMA FloatAddType ==
    ASSUME NEW a \in Number, NEW b \in Number PROVE FloatAdd(a, b) \in Number
BY DEF FloatAdd, Clip, Number

\* A sum in the range of a float is the exact one.
LEMMA FloatAddExact ==
    ASSUME NEW a \in Number, NEW b \in Int, FloatAdd(a, b) # NonFinite
    PROVE  a \in Int /\ FloatAdd(a, b) = a + b /\ Abs(a + b) <= MaxFinite
BY SentinelAssumption, MaxFiniteAssumption DEF FloatAdd, Clip, InRange, Number

TotalFold(h, chains_, field) ==
    h = [s \in SUBSET DOMAIN chains_ |->
            IF s = {} THEN 0
            ELSE FloatAdd(h[s \ {Max(s)}], chains_[Max(s)][field])]

RunningTotal(r, n, c, field) == /\ r[0] = 0
                                /\ \A k \in 1..n : r[k] = FloatAdd(r[k - 1], c[k][field])

\* The total of the first k chains is that of the chains before and the last one's.
LEMMA ChainTotalSteps ==
    ASSUME NEW n \in Nat, NEW c, DOMAIN c = 1..n, NEW field,
           \A i \in 1..n : c[i][field] \in Int
    PROVE  \E r : RunningTotal(r, n, c, field) /\ ChainTotal(c, field) = r[n]
<1> DEFINE adds == [p \in (1..n) \X Number |-> FloatAdd(p[2], c[p[1]][field])]
<1>1. \A i \in 1..n, v \in Number :
          adds[<<i, v>>] = FloatAdd(v, c[i][field]) /\ adds[<<i, v>>] \in Number
  <2>1. ASSUME NEW i \in 1..n, NEW v \in Number PROVE FloatAdd(v, c[i][field]) \in Number
    BY FloatAddType DEF Number
  <2>2. ASSUME NEW i \in 1..n, NEW v \in Number PROVE adds[<<i, v>>] = FloatAdd(v, c[i][field])
    OBVIOUS
  <2> HIDE DEF adds
  <2> QED BY <2>1, <2>2
<1>2. PICK g \in [SUBSET (1..n) -> Number] : FoldsLeft(g, n, 0, adds)
  <2>1. 0 \in Number
    BY DEF Number
  <2> HIDE DEF adds
  <2>2. StepsTo(adds, 1..n, Number)
    BY <1>1 DEF StepsTo
  <2> QED BY <2>1, <2>2, LeftRecursion
<1>3. TotalFold(g, c, field)
  <2>1. ASSUME NEW s \in SUBSET (1..n), s # {}
        PROVE  g[s] = FloatAdd(g[s \ {Max(s)}], c[Max(s)][field])
    <3>1. Max(s) \in 1..n /\ g[s \ {Max(s)}] \in Number
      BY <2>1, MaxInside
    <3>2. g[s] = adds[<<Max(s), g[s \ {Max(s)}]>>]
      BY <1>2, <2>1 DEF FoldsLeft
    <3> HIDE DEF adds
    <3> QED BY <1>1, <3>1, <3>2
  <2>2. g[{}] = 0 /\ g = [s \in SUBSET (1..n) |-> g[s]]
    BY <1>2 DEF FoldsLeft
  <2> QED BY <2>1, <2>2 DEF TotalFold
<1> DEFINE h == CHOOSE iter : TotalFold(iter, c, field)
<1>4. TotalFold(h, c, field)
  BY <1>3
<1>5. ChainTotal(c, field) = h[1..n]
  BY DEF ChainTotal, FoldLeft, MapThenFoldSet, TotalFold
<1> HIDE DEF h
<1> DEFINE r == [k \in 0..n |-> h[1..k]]
<1>6. r[0] = 0
  BY <1>4 DEF TotalFold
<1>7. ASSUME NEW k \in 1..n PROVE r[k] = FloatAdd(r[k - 1], c[k][field])
  <2>1. 1..k \in SUBSET (1..n) /\ 1..k # {} /\ Max(1..k) = k /\ (1..k) \ {k} = 1..(k - 1)
    BY MaxOfRange
  <2>2. h[1..k] = FloatAdd(h[1..(k - 1)], c[k][field])
    BY <1>4, <2>1 DEF TotalFold
  <2>3. r[k] = h[1..k] /\ r[k - 1] = h[1..(k - 1)]
    OBVIOUS
  <2> HIDE DEF r
  <2> QED BY <2>2, <2>3
<1>8. ChainTotal(c, field) = r[n]
  BY <1>5
<1> HIDE DEF r
<1>9. RunningTotal(r, n, c, field)
  BY <1>6, <1>7 DEF RunningTotal
<1> QED BY <1>8, <1>9

\* A total that is a number is the exact sum over every chain, in any order.
LEMMA ChainTotalExact ==
    ASSUME NEW n \in Nat, NEW c, DOMAIN c = 1..n, NEW field,
           \A i \in 1..n : c[i][field] \in Int
    PROVE  ChainTotal(c, field) \in {NonFinite, SumTo([i \in 1..n |-> c[i][field]], n)}
<1> DEFINE v == [i \in 1..n |-> c[i][field]]
<1>1. PICK r : RunningTotal(r, n, c, field) /\ ChainTotal(c, field) = r[n]
  BY ChainTotalSteps
<1> USE DEF RunningTotal
<1>2. Integers1(v, n) /\ \A k \in 1..n : v[k] = c[k][field]
  BY DEF Integers1
<1> HIDE DEF v
<1> DEFINE S == {k \in 0..n : r[k] \in {NonFinite, SumTo(v, k)}}
<1>3. 0 \in S
  BY <1>1, <1>2, SumToSteps
<1>4. ASSUME NEW k \in 1..n, k - 1 \in S PROVE k \in S
  <2>1. SumTo(v, k) = SumTo(v, k - 1) + v[k] /\ SumTo(v, k - 1) \in Int
    <3>1. k - 1 \in 0..n
      OBVIOUS
    <3> QED BY <1>2, <3>1, SumToSteps
  <2>2. r[k - 1] \in Number /\ v[k] \in Int
    BY <1>2, <1>4, <2>1 DEF Number, Integers1
  <2>3. r[k] = FloatAdd(r[k - 1], v[k])
    BY <1>1, <1>2
  <2>4. CASE r[k] = NonFinite
    BY <2>4
  <2>5. CASE r[k] # NonFinite
    <3>1. r[k - 1] \in Int /\ r[k] = r[k - 1] + v[k]
      BY <2>2, <2>3, <2>5, FloatAddExact
    <3>2. r[k - 1] = SumTo(v, k - 1)
      BY <1>4, <3>1, SentinelAssumption
    <3> QED BY <2>1, <3>1, <3>2
  <2> QED BY <2>4, <2>5
<1>5. 0..n \subseteq S
  <2> HIDE DEF S
  <2> QED BY <1>3, <1>4, RangeInduction
<1>6. n \in S
  <2> HIDE DEF S
  <2> QED BY <1>5
<1> QED BY <1>1, <1>6 DEF v

LEMMA ChainTotalType ==
    ASSUME NEW n \in Nat, NEW c, DOMAIN c = 1..n, NEW field,
           \A i \in 1..n : c[i][field] \in Int
    PROVE  ChainTotal(c, field) \in Number
<1>1. ChainTotal(c, field) \in {NonFinite, SumTo([i \in 1..n |-> c[i][field]], n)}
  BY ChainTotalExact
<1> DEFINE v == [i \in 1..n |-> c[i][field]]
<1>2. Integers1(v, n)
  BY DEF Integers1
<1> HIDE DEF v
<1>3. SumTo(v, n) \in Int
  BY <1>2, SumToSteps
<1> QED BY <1>1, <1>3 DEF v, Number

\* A calculation succeeds with numbers, the current being the shunt's minus every
\* chain's, or gives nothing.
Accounted(r, current, drawn) ==
    IF r.status = "ok"
    THEN /\ r.voltage \in Int /\ r.power \in Int /\ r.cell_voltage = r.voltage
         /\ r.current = current - drawn /\ r.current \in Int /\ drawn \in Int
    ELSE r.voltage = None /\ r.current = None /\ r.power = None

LEMMA Calculated ==
    ASSUME NEW n \in Nat \ {0}, NEW c \in [1..n -> Sample], NEW voltage \in Int,
           NEW current \in Int, NEW capacity
    PROVE  Accounted(CalculateVirtualBattery(voltage, current, c, capacity),
                     current, SumFunction([i \in 1..n |-> c[i].current]))
<1> USE SentinelAssumption
<1> DEFINE r == CalculateVirtualBattery(voltage, current, c, capacity)
           d == Derive(current, c, capacity)
           volts == ChainTotal(c, "voltage")
           total == ChainTotal(c, "current")
           cur == IF total = NonFinite THEN NonFinite ELSE Clip(current - total)
           currents == [i \in 1..n |-> c[i].current]
<1>1. DOMAIN c = 1..n /\ \A i \in 1..n : c[i].voltage \in Int /\ c[i].current \in Int
  BY DEF Sample
<1>2. volts \in Number /\ total \in Number
  BY <1>1, ChainTotalType
<1>3. total \in {NonFinite, SumTo(currents, n)}
  <2>1. total \in {NonFinite, SumTo([i \in 1..n |-> c[i]["current"]], n)}
    BY <1>1, ChainTotalExact
  <2> QED BY <2>1
<1>4. SumTo(currents, n) = SumFunction([i \in 1..n |-> c[i].current])
  <2>1. [i \in 1..n |-> currents[i]] = [i \in 1..n |-> c[i].current]
    OBVIOUS
  <2> QED BY <2>1 DEF SumTo
<1>5. d = InvalidCalculation("Calculation overflow")
      \/ /\ NonFinite \notin {volts, cur} /\ d.voltage = volts /\ d.cell_voltage = volts
         /\ d.current = cur /\ d.power = volts * cur /\ d.status = "ok"
  BY DEF Derive
<1>6. r = d \/ \E s \in {"SmartShunt missing", "Chain data missing", "Invalid chain capacity"} :
                  r = InvalidCalculation(s)
  BY DEF CalculateVirtualBattery
<1>7. \A s : /\ InvalidCalculation(s).status = s /\ InvalidCalculation(s).voltage = None
             /\ InvalidCalculation(s).current = None /\ InvalidCalculation(s).power = None
  BY DEF InvalidCalculation
<1> HIDE DEF r, d
<1>8. CASE r.status = "ok"
  <2>1. /\ NonFinite \notin {volts, cur} /\ r.voltage = volts /\ r.cell_voltage = volts
        /\ r.current = cur /\ r.power = volts * cur
    BY <1>5, <1>6, <1>7, <1>8
  <2>2. volts \in Int /\ total \in Int /\ total = SumTo(currents, n)
    BY <1>2, <1>3, <2>1 DEF Number
  <2>3. cur = current - total
    BY <2>1, <2>2 DEF Clip
  <2> HIDE DEF volts, total, cur, currents
  <2>4. cur \in Int /\ volts * cur \in Int
    BY <2>2, <2>3
  <2> QED BY <1>4, <1>8, <2>1, <2>2, <2>3, <2>4 DEF Accounted, r
<1>9. CASE r.status # "ok"
  BY <1>5, <1>6, <1>7, <1>9 DEF Accounted, r
<1> QED BY <1>8, <1>9 DEF Accounted, r

\* The calculation of a poll that has accepted every source.
LEMMA CalcMeans ==
    ASSUME TypeOK, AllOnline
    PROVE  IF Calc.status = "ok"
           THEN /\ Calc.voltage \in Int /\ Calc.power \in Int
                /\ Calc.cell_voltage = Calc.voltage /\ Calc.current \in Int
                /\ Calc.current + SumFunction([i \in Chain |-> src[i].current])
                       = src[0].current
           ELSE Calc.voltage = None /\ Calc.current = None /\ Calc.power = None
<1> DEFINE c == [i \in 1..N |-> src[i]]
           drawn == SumFunction([i \in 1..N |-> c[i].current])
<1>1. \A i \in Source : src[i] \in Sample
  BY DEF TypeOK, AllOnline
<1>2. N \in Nat \ {0} /\ 0 \in Source /\ 1..N \subseteq Source
  BY NAssumption DEF Source
<1>3. c \in [1..N -> Sample] /\ src[0].voltage \in Int /\ src[0].current \in Int
  BY <1>1, <1>2 DEF Sample
<1>4. Calc = CalculateVirtualBattery(src[0].voltage, src[0].current, c, Capacity)
  BY DEF Calc, Chain
<1>5. drawn = SumFunction([i \in Chain |-> src[i].current])
  <2>1. [i \in 1..N |-> c[i].current] = [i \in Chain |-> src[i].current]
    BY DEF Chain
  <2> QED BY <2>1
<1>6. IF Calc.status = "ok"
      THEN /\ Calc.voltage \in Int /\ Calc.power \in Int /\ Calc.cell_voltage = Calc.voltage
           /\ Calc.current = src[0].current - drawn /\ Calc.current \in Int /\ drawn \in Int
      ELSE Calc.voltage = None /\ Calc.current = None /\ Calc.power = None
  <2> DEFINE v == src[0].voltage
             k == src[0].current
  <2>1. v \in Int /\ k \in Int /\ Calc = CalculateVirtualBattery(v, k, c, Capacity)
    BY <1>3, <1>4
  <2> HIDE DEF c, v, k
  <2>2. Accounted(Calc, k, SumFunction([i \in 1..N |-> c[i].current]))
    BY <1>2, <1>3, <2>1, Calculated
  <2> QED BY <2>2 DEF Accounted, k
<1> HIDE DEF drawn
<1>7. Calc.status = "ok" => Calc.current + drawn = src[0].current
  BY <1>3, <1>6
<1> QED BY <1>5, <1>6, <1>7

\* A write leaves every path but its own.
LEMMA WritesOne ==
    ASSUME TypeInv, Write, NEW p \in Paths
    PROVE  out'[p] = IF p = Order[step] THEN Values[p] ELSE out[p]
BY DEF TypeInv, TypeOK, Write

(***************************************************************************)
(* A current that appears on the bus is the SmartShunt's minus that of     *)
(* every chain, all of them accepted in the running poll: for any number   *)
(* of chains, whatever their publishers, the clock and the bus do.         *)
(***************************************************************************)
THEOREM CurrentIsComplete == Spec => CurrentFromEverySource
<1> DEFINE Complete == \/ out'["Current"] \in {out["Current"], None}
                       \/ /\ AllOnline
                          /\ out'["Current"] + SumFunction([i \in Chain |-> src[i].current])
                                = src[0].current
<1>1. ASSUME TypeInv, [Next]_vars PROVE [Complete]_vars
  <2>1. "Current" \in Paths
    BY DEF Paths, Measurements
  <2>2. CASE Write
    <3>1. out'["Current"] \in {out["Current"], Values["Current"]}
      BY <1>1, <2>1, <2>2, WritesOne
    <3>2. Values["Current"] = Calc.current
      BY DEF Values
    <3>3. CASE ~AllOnline
      <4>1. Calc.current = None
        BY <3>3 DEF Calc, InvalidCalculation
      <4> QED BY <3>1, <3>2, <4>1
    <3>4. CASE AllOnline
      <4>1. \/ Calc.current = None
            \/ Calc.current + SumFunction([i \in Chain |-> src[i].current]) = src[0].current
        BY <1>1, <3>4, CalcMeans DEF TypeInv
      <4> QED BY <3>1, <3>2, <3>4, <4>1
    <3> QED BY <3>3, <3>4
  <2>3. CASE Stop
    BY <2>1, <2>3 DEF Stop, InitialOut, Measurements
  <2>4. CASE UNCHANGED out
    BY <2>4
  <2>5. CASE Boot \/ StartPoll \/ ReadSource \/ Environment \/ UNCHANGED vars
    BY <2>4, <2>5 DEF Boot, StartPoll, ReadSource, Environment, Publish, Vanish, LoseBus,
                      Reconnect, Tick, vars, service
  <2> QED BY <1>1, <2>2, <2>3, <2>5 DEF Next, Poll
<1> HIDE DEF Complete
<1>2. Spec => [][Complete]_vars
  BY <1>1, TypeInvInit, TypeInvInductive, PTL DEF Spec
<1> QED BY <1>2, PTL DEF CurrentFromEverySource, Complete

-------------------------------------------------------------------------------
(***************************************************************************)
(* What a client sees between two writes.  The run `overflow` shows that a *)
(* battery can be connected without measurements when a calculation leaves *)
(* the range of a float; Representable says that none does.                *)
(***************************************************************************)
\* The samples the publishers can bring about.
Readings == {SampleOf(f) : f \in UNION {Frames[s] : s \in Services}}
UsableReading(r) == Usable(r.voltage, r.current)

\* The capacity is valid, and no usable samples of all sources overflow.
Representable ==
    /\ Capacity \in Int /\ Capacity > 0
    /\ \A r \in [Source -> Readings] :
          (\A i \in Source : UsableReading(r[i])) =>
              CalculateVirtualBattery(r[0].voltage, r[0].current, [i \in Chain |-> r[i]],
                                      Capacity).status # "Calculation overflow"

\* What is on the bus and what was accepted came from the publishers.
FromPublishers ==
    /\ \A s \in Services : bus[s] # Absent => SampleOf(bus[s]) \in Readings
    /\ \A i \in Source : src[i] # Offline => src[i] \in Readings /\ UsableReading(src[i])

MeasuredInv == PublishInv /\ FromPublishers /\ ConnectedMeansMeasured

LEMMA FromPublishersInductive ==
    ASSUME TypeInv, FromPublishers, [Next]_vars
    PROVE  FromPublishers'
<1> USE DEF FromPublishers
<1>1. CASE ReadSource
  <2> DEFINE name == IF next = 0 THEN shunt ELSE next
  <2>1. name \in Services \cup {None}
    BY <1>1, NAssumption DEF TypeInv, TypeOK, Services, Chain, Source
  <2>2. /\ UNCHANGED bus
        /\ src' = [src EXCEPT ![next] =
                      IF name # None /\ Accepts(Reply(name), name \in MqttChains)
                      THEN SampleOf(bus[name]) ELSE Offline]
    BY <1>1 DEF ReadSource
  <2>3. ASSUME name # None, Accepts(Reply(name), name \in MqttChains)
        PROVE  SampleOf(bus[name]) \in Readings /\ UsableReading(SampleOf(bus[name]))
    BY <2>1, <2>3 DEF Accepts, Reply, UsableReading, SampleOf
  <2>4. src \in [Source -> Sample \cup {Offline}] /\ next \in Source
    BY DEF TypeInv, TypeOK
  <2> HIDE DEF name
  <2> QED BY <2>2, <2>3, <2>4
<1>2. ASSUME NEW s \in Services, Publish(s) PROVE FromPublishers'
  <2>1. PICK f \in Frames[s] : bus' = [bus EXCEPT ![s] = f]
    BY <1>2 DEF Publish
  <2>2. SampleOf(f) \in Readings
    BY DEF Readings
  <2> QED BY <1>2, <2>1, <2>2 DEF Publish, service, TypeInv, TypeOK
<1>3. ASSUME NEW s \in Services, Vanish(s) PROVE FromPublishers'
  BY <1>3 DEF Vanish, service, TypeInv, TypeOK
<1>4. CASE Tick
  <2>1. \A s \in Services : bus'[s] = Aged(bus[s]) /\ bus[s] \in Frame \cup {Absent}
    BY <1>4 DEF Tick, TypeInv, TypeOK
  <2>2. ASSUME NEW f \in Frame
        PROVE  SampleOf(Aged(f)) = SampleOf(f)
    BY DEF Aged, SampleOf, Frame
  <2>3. Aged(Absent) = Absent
    BY DEF Aged
  <2> QED BY <1>4, <2>1, <2>2, <2>3 DEF Tick, service
<1>5. CASE Stop
  BY <1>5 DEF Stop, NoSamples
<1>6. CASE UNCHANGED <<bus, src>>
  BY <1>6
<1>7. CASE Boot \/ StartPoll \/ Write \/ LoseBus \/ Reconnect \/ UNCHANGED vars
  BY <1>6, <1>7 DEF Boot, StartPoll, Write, LoseBus, Reconnect, vars, service
<1> QED BY <1>1, <1>2, <1>3, <1>4, <1>5, <1>7 DEF Next, Poll, Environment

\* When every source was accepted, every measurement of the poll is a number.
LEMMA PollMeasures ==
    ASSUME Representable, TypeOK, FromPublishers, AllOnline
    PROVE  \A p \in {"Voltage", "Current", "Power", "Cells"} : Values[p] # None
<1> DEFINE c == [i \in Chain |-> src[i]]
<1>1. \A i \in Source : src[i] \in Readings /\ UsableReading(src[i])
  BY DEF FromPublishers, AllOnline
<1>2. src \in [Source -> Readings]
  BY <1>1 DEF TypeOK
<1>3. Calc = CalculateVirtualBattery(src[0].voltage, src[0].current, c, Capacity)
  BY DEF Calc
<1>4. Calc.status # "Calculation overflow"
  BY <1>1, <1>2, <1>3 DEF Representable
<1>5. Calc.status = "ok"
  <2>1. 0 \in Source /\ Chain \subseteq Source /\ 1 \in Chain
    BY NAssumption DEF Source, Chain
  <2>2. Usable(src[0].voltage, src[0].current)
    BY <1>1, <2>1 DEF UsableReading
  <2>3. ChainsHaveMeasurements(c)
    <3>1. c # <<>> /\ DOMAIN c = Chain
      BY <2>1
    <3>2. \A i \in Chain : Usable(c[i].voltage, c[i].current)
      BY <1>1, <2>1 DEF UsableReading
    <3> HIDE DEF c
    <3> QED BY <3>1, <3>2 DEF ChainsHaveMeasurements
  <2> DEFINE d == Derive(src[0].current, c, Capacity)
  <2>4. d.status \in {"ok", "Calculation overflow"}
    BY DEF Derive, InvalidCalculation
  <2> HIDE DEF c, d
  <2>5. Calc = d
    BY <1>3, <2>2, <2>3 DEF CalculateVirtualBattery, Representable, d
  <2> QED BY <1>4, <2>4, <2>5
<1>6. Calc.voltage \in Int /\ Calc.current \in Int /\ Calc.power \in Int
      /\ Calc.cell_voltage \in Int
  BY <1>5, CalcMeans
<1> QED BY <1>6, SentinelAssumption DEF Values

\* /Connected is written after the measurements on recovery, before them on loss.
LEMMA WriteMeasures ==
    ASSUME Representable, MeasuredInv, Write
    PROVE  ConnectedMeansMeasured'
<1> DEFINE Shown == {"Voltage", "Current", "Power", "Cells"}
<1>1. TypeInv /\ TypeOK /\ FromPublishers /\ WrittenSoFar
  BY DEF MeasuredInv, PublishInv, TypeInv
<1>2. \A j \in 1..step : out'[Order[j]] = Values[Order[j]]
  BY <1>1, WriteAdds
<1>3. step \in 1..LastStep
  BY <1>1 DEF TypeInv, StepInOrder, Write
<1>4. \A p \in Shown \cup {"Connected"} :
          out'[p] = IF p = Order[step] THEN Values[p] ELSE out[p]
  <2>1. Shown \cup {"Connected"} \subseteq Paths
    BY DEF Paths, Measurements
  <2> QED BY <1>1, <2>1, WritesOne
<1>5. out["Connected"] = 1 => \A p \in Shown : out[p] # None
  BY DEF MeasuredInv, ConnectedMeansMeasured
<1>6. CASE AllOnline
  <2>1. \A p \in Shown : Values[p] # None
    BY <1>1, <1>6, PollMeasures
  <2>2. Order = PublishOrder
    BY <1>6, <2>1 DEF Order, Values
  <2>3. CASE Order[step] = "Connected"
    <3>1. step = 12
      BY <1>3, <2>2, <2>3 DEF LastStep, PublishOrder
    <3>2. \A j \in {4, 5, 6, 10} : out'[PublishOrder[j]] = Values[PublishOrder[j]]
      BY <1>2, <2>2, <3>1
    <3>3. \A p \in Shown : out'[p] = Values[p]
      BY <3>2 DEF PublishOrder
    <3> QED BY <2>1, <3>3 DEF ConnectedMeansMeasured
  <2>4. CASE Order[step] # "Connected"
    BY <1>4, <1>5, <2>1, <2>4 DEF ConnectedMeansMeasured
  <2> QED BY <2>3, <2>4
<1>7. CASE ~AllOnline
  <2>1. Order = ClearOrder /\ Values["Connected"] = 0
    BY <1>7 DEF Order, Values, Ready
  <2>2. CASE Order[step] \in Shown
    <3>1. step >= 5
      BY <1>3, <2>1, <2>2 DEF LastStep, ClearOrder
    <3>2. out'["Connected"] = 0
      BY <1>2, <1>3, <2>1, <3>1 DEF ClearOrder
    <3> QED BY <3>2 DEF ConnectedMeansMeasured
  <2>3. CASE Order[step] = "Connected"
    <3>1. out'["Connected"] = 0
      BY <1>4, <2>1, <2>3
    <3> QED BY <3>1 DEF ConnectedMeansMeasured
  <2>4. CASE Order[step] \notin Shown \cup {"Connected"}
    BY <1>4, <1>5, <2>4 DEF ConnectedMeansMeasured
  <2> QED BY <2>2, <2>3, <2>4
<1> QED BY <1>6, <1>7

LEMMA MeasuredInductive == Representable /\ MeasuredInv /\ [Next]_vars => MeasuredInv'
<1> SUFFICES ASSUME Representable, MeasuredInv, [Next]_vars PROVE MeasuredInv'
  OBVIOUS
<1>1. PublishInv' /\ FromPublishers'
  BY PublishInvInductive, FromPublishersInductive DEF MeasuredInv, PublishInv
<1>2. CASE Write
  BY <1>1, <1>2, WriteMeasures DEF MeasuredInv
<1>3. CASE Stop
  BY <1>1, <1>3 DEF MeasuredInv, ConnectedMeansMeasured, Stop, InitialOut, Paths, Measurements
<1>4. CASE UNCHANGED out
  BY <1>1, <1>4 DEF MeasuredInv, ConnectedMeansMeasured
<1>5. CASE Boot \/ StartPoll \/ ReadSource \/ Environment \/ UNCHANGED vars
  BY <1>4, <1>5 DEF Boot, StartPoll, ReadSource, Environment, Publish, Vanish, LoseBus,
                    Reconnect, Tick, vars, service
<1> QED BY <1>2, <1>3, <1>5 DEF Next, Poll

LEMMA MeasuredInit == Init => MeasuredInv
BY PublishInvInit DEF Init, MeasuredInv, FromPublishers, NoSamples, ConnectedMeansMeasured,
   InitialOut, Paths, Measurements

(***************************************************************************)
(* At every instant between two D-Bus writes a connected battery has its   *)
(* voltage, current, power and cell voltages: provided that no readings    *)
(* the publishers can bring about overflow.                                *)
(***************************************************************************)
THEOREM ConnectedIsMeasured == Representable => (Spec => []ConnectedMeansMeasured)
<1>1. MeasuredInv => ConnectedMeansMeasured
  BY DEF MeasuredInv
<1> SUFFICES ASSUME Representable PROVE Spec => []ConnectedMeansMeasured
  OBVIOUS
<1>2. MeasuredInv /\ [Next]_vars => MeasuredInv'
  BY MeasuredInductive
<1> QED BY <1>1, <1>2, MeasuredInit, PTL DEF Spec
===============================================================================

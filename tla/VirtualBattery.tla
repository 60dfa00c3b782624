---------------------------- MODULE VirtualBattery ----------------------------
(***************************************************************************)
(* The service of dbus-virtual-battery.py: a poll reads the SmartShunt and *)
(* every required chain over D-Bus, one after the other, derives the       *)
(* virtual chain and writes it to D-Bus path by path.  Publishers, the     *)
(* clock and the connection move between any two of those calls, and the   *)
(* process may stop and be restarted by its supervisor at any point.       *)
(*                                                                         *)
(* Chain i is source i; source 0 is the SmartShunt, whose service is       *)
(* configured or discovered.  A poll is StartPoll, one ReadSource per      *)
(* source, and one Write per D-Bus path.                                   *)
(***************************************************************************)
EXTENDS SourceFrame, FiniteSets

CONSTANTS N,                 \* number of required chains (services 1..N)
          Ports,             \* the other battery services: shunts and BMSs
          ShuntProducts,     \* services whose /ProductName contains "shunt"
          MqttChains,        \* chains whose suffix starts with mqtt_chain
          ConfiguredShunt,   \* --smartshunt, or None to discover one
          ShuntIndex,        \* --smartshunt-index
          Capacity,          \* --capacity
          Frames,            \* Frames[s]: what service s can publish
          DiscoveryInterval  \* seconds between two late discoveries

Chain == 1..N
Source == 0..N
Services == Chain \cup Ports

ASSUME NAssumption == N \in Nat \ {0}
ASSUME ServiceAssumption ==
    /\ Ports \subseteq Nat \ (0..N)
    /\ ShuntProducts \subseteq Services
    /\ MqttChains \subseteq Chain
    /\ ConfiguredShunt \in Ports \cup {None}
    /\ ShuntIndex \in Int
ASSUME PublisherAssumption == /\ DiscoveryInterval \in Nat
                              /\ Frames \in [Services -> SUBSET Frame]

VARIABLES bus,       \* bus[s]: the frame service s publishes now, or Absent
          busUp,     \* the reader has a working bus connection
          shunt,     \* smartshunt.service, None while undiscovered
          discWait,  \* seconds until the next late discovery is allowed
          src,       \* src[i]: the accepted sample of source i, or Offline
          out,       \* out[p]: the value of D-Bus path p of this service
          pc,        \* "down", "idle", "read" or "write"
          next,      \* the source to read next
          step       \* the position in Order to write next

vars == <<bus, busUp, shunt, discWait, src, out, pc, next, step>>
service == <<shunt, src, out, pc, next, step>>
-------------------------------------------------------------------------------
\* What a read of service s returns now.
Reply(s) == IF busUp THEN bus[s] ELSE Absent

\* The candidate with exactly ShuntIndex candidates before it in name order.
Discover(excluded) ==
    LET candidates == {s \in ShuntProducts \ excluded : Reply(s) # Absent}
        chosen == {s \in candidates :
                     Cardinality({c \in candidates : c < s}) = ShuntIndex}
    IN  IF chosen = {} THEN None ELSE CHOOSE s \in chosen : TRUE
-------------------------------------------------------------------------------
(***************************************************************************)
(* What a poll writes, and in which order, once the sources have been      *)
(* read.  "Cells" stands for the paths derived from the cell voltage       *)
(* (/System/Min- and MaxCellVoltage, /Voltages/...), "Capacity" for        *)
(* /Capacity and /ConsumedAmphours, "Missing" for /Info/MissingSources and *)
(* /Info/SourceStatus, "Online" for the two module counts.                 *)
(***************************************************************************)
AllOnline == \A i \in Source : src[i] # Offline
MissingSources == {i \in Source : src[i] = Offline}

Calc == IF AllOnline
        THEN CalculateVirtualBattery(src[0].voltage, src[0].current,
                                     [i \in Chain |-> src[i]], Capacity)
        ELSE InvalidCalculation("Missing")

Measurements == {"Voltage", "Current", "Power", "Soc", "Capacity", "TimeToGo", "Cells"}
Paths == Measurements \cup
         {"Online", "Missing", "DataComplete", "InternalFailure", "Connected", "CustomName"}

\* Mutant: readiness is published before the measurements.
MutPublishOrder ==
    <<"Online", "Missing", "InternalFailure", "DataComplete", "Connected", "Voltage",
      "Current", "Power", "Soc", "Capacity", "TimeToGo", "Cells", "CustomName">>

PublishOrder ==
    <<"Online", "Missing", "InternalFailure", "Voltage", "Current", "Power", "Soc",
      "Capacity", "TimeToGo", "Cells", "DataComplete", "Connected", "CustomName">>

\* The cell paths are skipped when there is no cell voltage.
PublishOrderNoCells ==
    <<"Online", "Missing", "InternalFailure", "Voltage", "Current", "Power", "Soc",
      "Capacity", "TimeToGo", "DataComplete", "Connected", "CustomName">>

\* Mutant: the time to go and the cell voltages are not cleared.
MutClearOrder ==
    <<"Online", "Missing", "DataComplete", "InternalFailure", "Connected", "Voltage",
      "Current", "Power", "Soc", "Capacity", "CustomName">>

ClearOrder ==
    <<"Online", "Missing", "DataComplete", "InternalFailure", "Connected", "Voltage",
      "Current", "Power", "Soc", "Capacity", "TimeToGo", "Cells", "CustomName">>

Order == IF ~AllOnline THEN ClearOrder
         ELSE IF Calc.cell_voltage = None THEN PublishOrderNoCells ELSE PublishOrder

LastStep == Len(Order)

Ready == IF AllOnline THEN 1 ELSE 0

Values == [Online          |-> Cardinality(Source \ MissingSources),
           Missing         |-> MissingSources,
           DataComplete    |-> Ready,
           InternalFailure |-> 0,
           Connected       |-> Ready,
           Voltage         |-> Calc.voltage,
           Current         |-> Calc.current,
           Power           |-> Calc.power,
           Soc             |-> Calc.soc,
           Capacity        |-> Calc.remaining_capacity,
           TimeToGo        |-> Calc.time_to_go,
           Cells           |-> Calc.cell_voltage,
           CustomName      |-> MissingSources]

InitialOut == [p \in Paths |->
                 CASE p \in Measurements -> None
                   [] p \in {"Missing", "CustomName"} -> {}
                   [] OTHER -> 0]

NoSamples == [i \in Source |-> Offline]
-------------------------------------------------------------------------------
Init == /\ bus \in [Services -> {Absent}]
        /\ busUp = TRUE
        /\ shunt = None
        /\ discWait = 0
        /\ src = NoSamples
        /\ out = InitialOut
        /\ pc = "down"
        /\ next = 0
        /\ step = 1

\* Mutant: the constructor accepts a chain as the shunt.
MutBoot == /\ pc = "down"
           /\ busUp
           /\ shunt' = IF ConfiguredShunt = None THEN Discover({}) ELSE ConfiguredShunt
           /\ discWait' = 0
           /\ pc' = "idle"
           /\ UNCHANGED <<bus, busUp, src, out, next, step>>

(***************************************************************************)
(* The constructor: a shunt that is one of the chains raises ValueError    *)
(* and the process does not come up.  Chain membership is not yet known to *)
(* the discovery at this point, so it does not exclude the chains.         *)
(***************************************************************************)
Boot == /\ pc = "down"
        /\ busUp
        /\ LET found == IF ConfiguredShunt = None THEN Discover({}) ELSE ConfiguredShunt
           IN  /\ found \notin Chain
               /\ shunt' = found
        /\ discWait' = 0
        /\ pc' = "idle"
        /\ UNCHANGED <<bus, busUp, src, out, next, step>>

\* The process stops at any point; its name and its paths leave the bus.
Stop == /\ pc # "down"
        /\ pc' = "down"
        /\ shunt' = None
        /\ discWait' = 0
        /\ src' = NoSamples
        /\ out' = InitialOut
        /\ next' = 0
        /\ step' = 1
        /\ UNCHANGED <<bus, busUp>>

\* Mutant: rediscovery forgets to keep a selected shunt.
MutRediscover == /\ shunt' = Discover(Chain)
                 /\ discWait' = DiscoveryInterval

\* Mutant: discovery is not retried after the start.
MutNoRetry == UNCHANGED <<shunt, discWait>>

\* _rediscover_missing_smartshunt: only while no shunt is selected, and throttled.
Rediscover == IF shunt # None \/ discWait > 0
              THEN UNCHANGED <<shunt, discWait>>
              ELSE /\ shunt' = Discover(Chain)
                   /\ discWait' = DiscoveryInterval

StartPoll == /\ pc = "idle"
             /\ Rediscover
             /\ pc' = "read"
             /\ next' = 0
             /\ UNCHANGED <<bus, busUp, src, out, step>>

\* _read_source: the sample of the source's current frame, or nothing.
ReadSource ==
    LET name == IF next = 0 THEN shunt ELSE next
    IN  /\ pc = "read"
        /\ src' = [src EXCEPT ![next] =
                     IF name # None /\ Accepts(Reply(name), name \in MqttChains)
                     THEN SampleOf(bus[name]) ELSE Offline]
        /\ next' = IF next = N THEN 0 ELSE next + 1
        /\ pc' = IF next = N THEN "write" ELSE "read"
        /\ step' = 1
        /\ UNCHANGED <<bus, busUp, shunt, discWait, out>>

\* One assignment to a D-Bus path of this service, visible at once.
Write == /\ pc = "write"
         /\ out' = [out EXCEPT ![Order[step]] = Values[Order[step]]]
         /\ step' = IF step = LastStep THEN 1 ELSE step + 1
         /\ pc' = IF step = LastStep THEN "idle" ELSE "write"
         /\ UNCHANGED <<bus, busUp, shunt, discWait, src, next>>

Poll == StartPoll \/ ReadSource \/ Write
-------------------------------------------------------------------------------
(***************************************************************************)
(* The environment: publishers, the system bus and the monotonic clock.    *)
(***************************************************************************)
Publish(s) == /\ \E f \in Frames[s] : bus' = [bus EXCEPT ![s] = f]
              /\ UNCHANGED <<busUp, discWait, service>>

Vanish(s) == /\ bus[s] # Absent
             /\ bus' = [bus EXCEPT ![s] = Absent]
             /\ UNCHANGED <<busUp, discWait, service>>

LoseBus == /\ busUp
           /\ busUp' = FALSE
           /\ UNCHANGED <<bus, discWait, service>>

Reconnect == /\ ~busUp
             /\ busUp' = TRUE
             /\ UNCHANGED <<bus, discWait, service>>

Tick == /\ bus' = [s \in Services |-> Aged(bus[s])]
        /\ discWait' = IF discWait = 0 THEN 0 ELSE discWait - 1
        /\ UNCHANGED <<busUp, service>>

Environment == \/ \E s \in Services : Publish(s) \/ Vanish(s)
               \/ LoseBus
               \/ Reconnect
               \/ Tick

Next == Boot \/ Stop \/ Poll \/ Environment

Spec == Init /\ [][Next]_vars

\* The main loop keeps polling, the supervisor keeps restarting, time passes.
FairSpec == /\ Spec
            /\ WF_vars(Poll)
            /\ WF_vars(Boot)
            /\ WF_vars(Tick)
-------------------------------------------------------------------------------
TypeOK == /\ bus \in [Services -> Frame \cup {Absent}]
          /\ busUp \in BOOLEAN
          /\ shunt \in Services \cup {None}
          /\ discWait \in 0..DiscoveryInterval
          /\ src \in [Source -> Sample \cup {Offline}]
          /\ out = [p \in Paths |-> out[p]]
          /\ pc \in {"down", "idle", "read", "write"}
          /\ next \in Source
          /\ step \in 1..Len(PublishOrder)

(***************************************************************************)
(* Between polls, when the main loop can serve a client, the battery is    *)
(* available exactly when every required source was accepted by the last   *)
(* poll, readiness and connection agree, and an unavailable battery shows  *)
(* no measurement of an earlier poll (update, lines 863-922).              *)
(***************************************************************************)
AvailableWhenComplete ==
    pc = "idle" => /\ out["Connected"] = out["DataComplete"]
                   /\ out["Connected"] = 1 <=> AllOnline
                   /\ out["Connected"] = 0 => \A p \in Measurements : out[p] = None
                   /\ out["Connected"] = 1 => out["Missing"] = {} /\ out["CustomName"] = {}

(***************************************************************************)
(* A client that follows every change of a path never sees a connected     *)
(* battery without its measurements: on recovery they are written before   *)
(* /Connected, on loss they are cleared after it.                          *)
(***************************************************************************)
ConnectedMeansMeasured ==
    out["Connected"] = 1 =>
        \A p \in {"Voltage", "Current", "Power", "Cells"} : out[p] # None

(***************************************************************************)
(* The shunt is never one of the chains it is compared with, and one that  *)
(* was discovered is identified by its product name.                       *)
(***************************************************************************)
ShuntIdentified ==
    shunt # None => /\ shunt \notin Chain
                    /\ shunt \in ShuntProducts \/ shunt = ConfiguredShunt

(***************************************************************************)
(* A new current on the bus is the SmartShunt's minus that of every        *)
(* required chain, all accepted in the running poll: a missing chain is    *)
(* never left out of the subtraction.                                      *)
(***************************************************************************)
CurrentFromEverySource ==
    [][\/ out'["Current"] \in {out["Current"], None}
       \/ /\ AllOnline
          /\ out'["Current"] + SumFunction([i \in Chain |-> src[i].current])
                = src[0].current]_vars

(***************************************************************************)
(* A selected shunt is kept through outages for the life of the process.   *)
(***************************************************************************)
ShuntKept == [][shunt # None /\ pc' # "down" => shunt' = shunt]_vars

(***************************************************************************)
(* If an MQTT chain's publisher freezes (its frame only ages, though the   *)
(* bus still answers), the battery becomes and stays unavailable.          *)
(***************************************************************************)
FrozenChainExpires ==
    \A i \in MqttChains :
        <>[][bus'[i] \in {bus[i], Absent} \cup {Aged(bus[i])}]_bus
            => <>[](out["Connected"] = 0)

\* Every required source publishes acceptable frames, on a working connection.
SourcesValid ==
    LET selected == IF shunt = None THEN Discover(Chain) ELSE shunt
    IN  /\ busUp
        /\ \A i \in Chain : Accepts(bus[i], i \in MqttChains)
        /\ selected # None
        /\ Accepts(bus[selected], FALSE)

(***************************************************************************)
(* Once the process stays up and every source stays valid, delayed or      *)
(* returned, the battery becomes available again without intervention.     *)
(***************************************************************************)
Recovers == <>[](pc # "down" /\ SourcesValid) => <>[](out["Connected"] = 1)
-------------------------------------------------------------------------------
(***************************************************************************)
(* What the documentation says and the code does not do: each of these is  *)
(* refuted by a run of its own.                                            *)
(***************************************************************************)
(***************************************************************************)
(* "Never publish nonfinite derived values as a valid battery sample"      *)
(* (_invalid_calculation, line 171): data marked complete has a voltage.   *)
(***************************************************************************)
CompleteMeansDerived ==
    pc = "idle" /\ out["DataComplete"] = 1 => out["Voltage"] # None

(***************************************************************************)
(* "automatically discovers a delayed SmartShunt" (README.md:43): a shunt  *)
(* that stays present, and that a starting process would select, is        *)
(* selected by one that was started too early.                             *)
(***************************************************************************)
DelayedShuntFound ==
    <>[](pc # "down" /\ busUp /\ Discover({}) \in Ports) => <>(shunt # None)
===============================================================================

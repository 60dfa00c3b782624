------------------------------ MODULE SourceRead ------------------------------
(***************************************************************************)
(* One D-Bus call at a time: how _read_source obtains a sample through a   *)
(* DbusReader, while publishers change their items, calls time out and the *)
(* connection breaks.  VirtualBattery takes a source's read as one step;   *)
(* this module shows what a read can be composed of.                       *)
(*                                                                         *)
(* An MQTT chain is read as one GetItems snapshot or not at all; any other *)
(* service falls back to one GetValue per item through a cache.            *)
(***************************************************************************)
EXTENDS SourceFrame, BusConnection, FiniteSets

CONSTANTS K,                  \* sources are 1..K, read in this order
          Mqtt,               \* sources whose suffix starts with mqtt_chain
          Snapshots,          \* sources that implement GetItems
          Frames,             \* Frames[s]: what source s can publish
          Ttl                 \* _cache_ttl, seconds

Source == 1..K
Fields == <<"connected", "voltage", "current", "soc", "complete", "age", "timeout">>
Field == {Fields[k] : k \in 1..Len(Fields)}
Entries == [value : Int, age : 0..Ttl]

ASSUME ReaderAssumption == /\ K \in Nat \ {0}
                           /\ Mqtt \subseteq Source
                           /\ Snapshots \subseteq Source
                           /\ Frames \in [Source -> SUBSET Frame]
                           /\ Ttl \in Nat

VARIABLES bus,         \* bus[s]: the frame source s publishes now, or Absent
          cache,       \* cache[s][f]: the cached item and its age, or None
          pc,          \* "idle", "snapshot", "items" or "judge"
          cur,         \* the source being read
          item,        \* position in Fields of the item to get
          got,         \* the items obtained by this read
          seen,        \* history: what cur has published since its read began
          src          \* src[s]: the accepted sample of s, or Offline

vars == <<bus, connection, cache, pc, cur, item, got, seen, src>>

Nothing == [f \in Field |-> None]
EmptyCache == [s \in Source |-> [f \in Field |-> None]]

Init == /\ bus \in [Source -> {Absent}]
        /\ daemon \in BOOLEAN
        /\ link = IF daemon THEN "live" ELSE "none"
        /\ attemptAge = 0
        /\ cache = EmptyCache
        /\ pc = "idle"
        /\ cur = 1
        /\ item = 1
        /\ got = Nothing
        /\ seen = {}
        /\ src = [s \in Source |-> Offline]
-------------------------------------------------------------------------------
\* Mutant: values of an earlier poll stay in the cache.
MutInvalidateSource(s) == cache

\* invalidate_source
InvalidateSource(s) == [cache EXCEPT ![s] = [f \in Field |-> None]]

BeginRead == /\ pc = "idle"
             /\ cache' = InvalidateSource(cur)
             /\ got' = Nothing
             /\ item' = 1
             /\ seen' = {bus[cur]}
             /\ pc' = "snapshot"
             /\ UNCHANGED <<bus, connection, cur, src>>

FieldsOf(frame) == [f \in Field |-> frame[f]]

\* Mutant: an MQTT chain without a snapshot is read item by item.
MutFallback == "items"

\* Without a snapshot an MQTT frame is not assembled from separate replies.
Fallback == IF cur \in Mqtt THEN "judge" ELSE "items"

\* get_snapshot: the whole frame, or the item by item fallback of native services.
GetSnapshot ==
    /\ pc = "snapshot"
    /\ AfterCall(Breaks)
    /\ \/ /\ Ensured = "live" /\ cur \in Snapshots /\ bus[cur] # Absent
          /\ got' = FieldsOf(bus[cur])
          /\ pc' = "judge"
       \/ /\ got' = got
          /\ pc' = Fallback
    /\ cache' = IF Breaks \/ Retries THEN EmptyCache ELSE cache
    /\ UNCHANGED <<bus, daemon, cur, item, seen, src>>

\* A cached item younger than the time to live.
Cached(f) == cache[cur][f] # None /\ cache[cur][f].age < Ttl

\* get_value of the next item.
GetValue ==
    LET f == Fields[item]
    IN  /\ pc = "items"
        /\ IF Ensured # "none" /\ ~Retries /\ Cached(f)
           THEN /\ got' = [got EXCEPT ![f] = cache[cur][f].value]
                /\ UNCHANGED <<link, attemptAge, cache>>
           ELSE /\ AfterCall(Breaks)
                /\ \/ /\ Ensured = "live" /\ bus[cur] # Absent
                      /\ got' = [got EXCEPT ![f] = bus[cur][f]]
                      /\ cache' = LET kept == IF Retries THEN EmptyCache ELSE cache
                                  IN  IF bus[cur][f] = None THEN kept
                                      ELSE [kept EXCEPT ![cur][f] =
                                              [value |-> bus[cur][f], age |-> 0]]
                   \/ /\ got' = got
                      /\ cache' = IF Breaks \/ Retries THEN EmptyCache ELSE cache
        /\ item' = IF item = Len(Fields) THEN 1 ELSE item + 1
        /\ pc' = IF item = Len(Fields) THEN "judge" ELSE "items"
        /\ UNCHANGED <<bus, daemon, cur, seen, src>>

\* The decision of _read_source, on the clock of this moment.
Judge == /\ pc = "judge"
         /\ src' = [src EXCEPT ![cur] =
                      IF Accepts(got, cur \in Mqtt) THEN SampleOf(got) ELSE Offline]
         /\ cur' = IF cur = K THEN 1 ELSE cur + 1
         /\ pc' = "idle"
         /\ seen' = {}
         /\ UNCHANGED <<bus, connection, cache, item, got>>

Read == BeginRead \/ GetSnapshot \/ GetValue \/ Judge
-------------------------------------------------------------------------------
(***************************************************************************)
(* The environment.                                                        *)
(***************************************************************************)
Reading == pc # "idle"

Shows(s, frame) ==
    /\ bus' = [bus EXCEPT ![s] = frame]
    /\ seen' = IF Reading /\ s = cur THEN seen \cup {frame} ELSE seen
    /\ UNCHANGED <<connection, cache, pc, cur, item, got, src>>

Publish == \E s \in Source, f \in UNION {Frames[t] : t \in Source} :
               f \in Frames[s] /\ Shows(s, f)

Vanish == \E s \in Source : bus[s] # Absent /\ Shows(s, Absent)

DaemonStops == /\ LinkBreaks
               /\ UNCHANGED <<bus, cache, pc, cur, item, got, seen, src>>

DaemonStarts == /\ DaemonReturns
                /\ UNCHANGED <<bus, cache, pc, cur, item, got, seen, src>>

Tick == /\ bus' = [s \in Source |-> Aged(bus[s])]
        /\ seen' = {Aged(f) : f \in seen}
        /\ got' = Aged(got)
        /\ cache' = [s \in Source |-> [f \in Field |->
                       IF cache[s][f] = None THEN None
                       ELSE LET e == cache[s][f]
                                v == IF f = "age" THEN Older(e.value, AgeLimit) ELSE e.value
                            IN  [value |-> v, age |-> Older(e.age, Ttl)]]]
        /\ attemptAge' = Older(attemptAge, ReconnectInterval)
        /\ UNCHANGED <<daemon, link, pc, cur, item, src>>

Environment == Publish \/ Vanish \/ DaemonStops \/ DaemonStarts \/ Tick

Next == Read \/ Environment
Spec == Init /\ [][Next]_vars
-------------------------------------------------------------------------------
TypeOK == /\ bus \in [Source -> Frame \cup {Absent}]
          /\ ConnectionType
          /\ \A s \in Source, f \in Field : cache[s][f] \in Entries \cup {None}
          /\ pc \in {"idle", "snapshot", "items", "judge"}
          /\ cur \in Source
          /\ item \in 1..Len(Fields)
          /\ got \in Frame
          /\ seen \subseteq Frame \cup {Absent}
          /\ src \in [Source -> Sample \cup {Offline}]

\* This step accepts a sample of the source being read.
AcceptsNow == pc = "judge" /\ pc' = "idle" /\ src'[cur] # Offline

(***************************************************************************)
(* The sample accepted from an MQTT chain is one frame the chain published *)
(* whole while it was read, and that is still fresh when it is accepted:   *)
(* never a mixture of two frames, a cached one or one that expired while   *)
(* the read was waiting.                                                   *)
(***************************************************************************)
WholeMqttFrame ==
    [][AcceptsNow /\ cur \in Mqtt =>
          \E f \in seen : Accepts(f, TRUE) /\ src'[cur] = SampleOf(f)]_vars

(***************************************************************************)
(* A native service may be read item by item, so its sample may mix two    *)
(* frames; each part still was on the bus, with the source connected,      *)
(* after the read began: nothing of an earlier poll or connection is used. *)
(***************************************************************************)
ReadSinceBegin ==
    [][AcceptsNow => LET published == seen \ {Absent}
                     IN  /\ \E f \in published : f.connected = 1
                         /\ \E f \in published : f.voltage = src'[cur].voltage
                         /\ \E f \in published : f.current = src'[cur].current]_vars

(***************************************************************************)
(* "Any source that publishes freshness metadata must provide the complete,*)
(* valid contract: partial metadata or an explicit incomplete/stale status *)
(* cannot be ignored just because the service has a different name"        *)
(* (README.md:182): a source all of whose frames have metadata and none of *)
(* which is fresh is not accepted.                                         *)
(***************************************************************************)
StaleContractRejected ==
    [][AcceptsNow =>
          \E f \in seen \ {Absent} :
              Fresh(f, FALSE) \/ {f.complete, f.age, f.timeout} = {None}]_vars
===============================================================================

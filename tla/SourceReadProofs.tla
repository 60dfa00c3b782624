--------------------------- MODULE SourceReadProofs ----------------------------
(***************************************************************************)
(* Proofs about SourceRead, for every number of sources, every set of      *)
(* frames they publish and every time to live of the cache.                *)
(***************************************************************************)
EXTENDS SourceRead, TLAPS

\* The fields that do not change with the clock.
Stable == {"connected", "voltage", "current"}

\* The source has published value v of field x since the read began.
Published(x, v) == \E f \in seen \ {Absent} : f[x] = v

(***************************************************************************)
(* The inductive invariant.  While a read is under way, the frame on the   *)
(* bus is one that the read may see; whatever the read has got, and        *)
(* whatever the cache holds of the source, was published since the read    *)
(* began; and of a chain the read holds a whole frame or nothing.          *)
(***************************************************************************)
Typed == /\ bus \in [Source -> Frame \cup {Absent}] /\ seen \subseteq Frame \cup {Absent}
         /\ cur \in Source /\ item \in 1..Len(Fields)
         /\ pc \in {"idle", "snapshot", "items", "judge"}
         /\ got = [x \in Field |-> got[x]]
         /\ cache = [s \in Source |-> [x \in Field |-> cache[s][x]]]
         /\ src = [s \in Source |-> src[s]]

InView == Reading => bus[cur] \in seen
GotPublished == Reading => \A x \in Stable : got[x] # None => Published(x, got[x])
CachePublished == Reading => \A x \in Stable : cache[cur][x] # None
                                => Published(x, cache[cur][x].value)
Whole == Reading /\ cur \in Mqtt =>
            /\ pc # "items"
            /\ got.connected = None \/ got \in seen \ {Absent}

IInv == Typed /\ InView /\ GotPublished /\ CachePublished /\ Whole
-------------------------------------------------------------------------------
LEMMA FieldNames ==
    /\ Field = {"connected", "voltage", "current", "soc", "complete", "age", "timeout"}
    /\ Len(Fields) = 7 /\ Stable \subseteq Field /\ "age" \notin Stable
<1>1. Len(Fields) = 7
  BY DEF Fields
<1>2. Field = {Fields[1], Fields[2], Fields[3], Fields[4], Fields[5], Fields[6], Fields[7]}
  <2>1. 1..7 = {1, 2, 3, 4, 5, 6, 7}
    OBVIOUS
  <2> QED BY <1>1, <2>1 DEF Field
<1>3. /\ Fields[1] = "connected" /\ Fields[2] = "voltage" /\ Fields[3] = "current"
      /\ Fields[4] = "soc" /\ Fields[5] = "complete" /\ Fields[6] = "age" /\ Fields[7] = "timeout"
  BY DEF Fields
<1> QED BY <1>1, <1>2, <1>3 DEF Stable

\* A snapshot is the frame.
LEMMA SnapshotIsFrame == ASSUME NEW f \in Frame PROVE FieldsOf(f) = f
<1>1. DOMAIN f = Field /\ f = [x \in DOMAIN f |-> f[x]]
  BY FieldNames DEF Frame
<1> QED BY <1>1 DEF FieldsOf

\* Time changes no field but the age.
LEMMA AgedFrame ==
    ASSUME NEW f \in Frame
    PROVE  /\ Aged(f) \in Frame /\ Aged(f) # Absent
           /\ \A x \in Stable : Aged(f)[x] = f[x]
<1>1. f.age # None /\ f.age # AgeLimit => f.age + 1 \in -1..AgeLimit
  BY FrameAssumption DEF Frame, Time
<1>2. f # Absent
  BY FrameAssumption
<1>3. CASE f.age = None \/ f.age = AgeLimit
  BY <1>2, <1>3 DEF Aged
<1>4. CASE ~(f.age = None \/ f.age = AgeLimit)
  <2>1. Aged(f) = [f EXCEPT !.age = f.age + 1]
    BY <1>2, <1>4 DEF Aged
  <2>2. Aged(f) \in Frame
    BY <1>1, <1>4, <2>1 DEF Frame, Time
  <2>3. \A x \in Stable : Aged(f)[x] = f[x]
    BY <2>1 DEF Frame, Stable
  <2> QED BY <2>2, <2>3, FrameAssumption
<1> QED BY <1>3, <1>4
-------------------------------------------------------------------------------
LEMMA InitIInv == Init => IInv
<1> SUFFICES ASSUME Init PROVE IInv
  OBVIOUS
<1>1. 1 \in Source /\ 1 \in 1..Len(Fields)
  BY ReaderAssumption, FieldNames DEF Source
<1>2. Typed
  BY <1>1 DEF Init, Typed, Nothing, EmptyCache
<1>3. ~Reading
  BY DEF Init, Reading
<1> QED BY <1>2, <1>3 DEF IInv, InView, GotPublished, CachePublished, Whole

\* A read begins with nothing, and with nothing of the source in the cache.
LEMMA BeginReadStep == ASSUME IInv, BeginRead PROVE IInv'
<1>1. /\ cache' = [cache EXCEPT ![cur] = [x \in Field |-> None]] /\ got' = [x \in Field |-> None]
      /\ bus' = bus /\ cur' = cur /\ src' = src /\ seen' = {bus[cur]}
      /\ item' = 1 /\ pc' = "snapshot"
  BY DEF BeginRead, InvalidateSource, Nothing
<1>2. Typed
  BY DEF IInv
<1>3. \A x \in Field : got'[x] = None /\ cache'[cur][x] = None
  BY <1>1, <1>2 DEF Typed
<1>4. Typed'
  <2>1. got' = [x \in Field |-> got'[x]] /\ seen' \subseteq Frame \cup {Absent}
    BY <1>1, <1>2 DEF Typed
  <2>2. cache' = [s \in Source |-> [x \in Field |-> cache'[s][x]]]
    BY <1>1, <1>2 DEF Typed
  <2>3. 1 \in 1..Len(Fields)
    BY FieldNames
  <2> QED BY <1>1, <1>2, <2>1, <2>2, <2>3 DEF Typed
<1>5. InView' /\ GotPublished' /\ CachePublished' /\ Whole'
  BY <1>1, <1>3, FieldNames DEF InView, GotPublished, CachePublished, Whole, Stable
<1> QED BY <1>4, <1>5 DEF IInv

\* The cache is kept or emptied.
LEMMA CacheKept ==
    ASSUME IInv, Reading, cache' \in {cache, EmptyCache}, cur' = cur, seen' = seen
    PROVE  CachePublished' /\ cache' = [s \in Source |-> [x \in Field |-> cache'[s][x]]]
<1>1. cur \in Source /\ cache = [s \in Source |-> [x \in Field |-> cache[s][x]]]
  BY DEF IInv, Typed
<1>2. CASE cache' = cache
  BY <1>1, <1>2 DEF IInv, CachePublished, Published
<1>3. CASE cache' = EmptyCache
  BY <1>1, <1>3, FieldNames DEF EmptyCache, CachePublished, Stable
<1> QED BY <1>2, <1>3

LEMMA GetSnapshotStep == ASSUME IInv, GetSnapshot PROVE IInv'
<1>1. /\ pc = "snapshot" /\ Reading /\ cache' \in {cache, EmptyCache}
      /\ bus' = bus /\ cur' = cur /\ item' = item /\ seen' = seen /\ src' = src
  BY DEF GetSnapshot, Reading
<1>2. Typed /\ bus[cur] \in seen /\ cur \in Source
  BY <1>1 DEF IInv, Typed, InView
<1>3. CachePublished' /\ cache' = [s \in Source |-> [x \in Field |-> cache'[s][x]]]
  BY <1>1, CacheKept
<1>4. CASE bus[cur] # Absent /\ got' = FieldsOf(bus[cur]) /\ pc' = "judge"
  <2>1. bus[cur] \in Frame /\ bus[cur] \in seen \ {Absent} /\ got' = bus[cur]
    BY <1>2, <1>4, SnapshotIsFrame DEF Typed
  <2>2. got' = [x \in Field |-> got'[x]]
    BY <1>4 DEF FieldsOf
  <2>3. \A x \in Stable : Published(x, got[x])'
    BY <1>1, <2>1 DEF Published
  <2> QED BY <1>1, <1>2, <1>3, <1>4, <2>1, <2>2, <2>3
          DEF IInv, Typed, InView, GotPublished, Whole, Reading
<1>5. CASE got' = got /\ pc' = Fallback
  <2>1. pc' \in {"items", "judge"} /\ (cur \in Mqtt => pc' = "judge")
    BY <1>5 DEF Fallback
  <2>2. Typed'
    BY <1>1, <1>2, <1>3, <1>5, <2>1 DEF Typed
  <2>3. GotPublished' /\ Whole' /\ InView'
    BY <1>1, <1>2, <1>5, <2>1 DEF IInv, GotPublished, Published, Whole, InView, Reading
  <2> QED BY <1>3, <2>2, <2>3 DEF IInv
<1> QED BY <1>4, <1>5 DEF GetSnapshot

\* An item comes from the bus, or from a cache that was filled since the read began.
LEMMA GetValueStep == ASSUME IInv, GetValue PROVE IInv'
<1> DEFINE f == Fields[item]
<1>1. /\ pc = "items" /\ pc' \in {"items", "judge"} /\ Reading
      /\ bus' = bus /\ cur' = cur /\ seen' = seen /\ src' = src
  BY DEF GetValue, Reading
<1>2. Typed /\ bus[cur] \in seen /\ cur \in Source /\ cur \notin Mqtt /\ f \in Field
      /\ GotPublished /\ CachePublished
  BY <1>1 DEF IInv, Typed, InView, Whole, Field
<1>3. item' \in 1..Len(Fields)
  BY <1>2, FieldNames DEF GetValue, Typed
<1>4. \A x \in Stable : got[x] # None => Published(x, got[x])
  BY <1>1, <1>2 DEF GotPublished
<1>5. \A x \in Stable : cache[cur][x] # None => Published(x, cache[cur][x].value)
  BY <1>1, <1>2 DEF CachePublished
<1>6. SUFFICES
        /\ got' = [x \in Field |-> got'[x]]
        /\ cache' = [s \in Source |-> [x \in Field |-> cache'[s][x]]]
        /\ \A x \in Stable : got'[x] # None => Published(x, got'[x])
        /\ \A x \in Stable : cache'[cur][x] # None => Published(x, cache'[cur][x].value)
  BY <1>1, <1>2, <1>3, <1>6
     DEF IInv, Typed, InView, GotPublished, CachePublished, Whole, Published, Reading
<1>7. CASE Cached(f) /\ got' = [got EXCEPT ![f] = cache[cur][f].value] /\ cache' = cache
  <2>1. cache[cur][f] # None
    BY <1>7 DEF Cached
  <2>2. \A x \in Field : got'[x] = IF x = f THEN cache[cur][f].value ELSE got[x]
    BY <1>2, <1>7 DEF Typed
  <2>3. got' = [x \in Field |-> got'[x]]
    BY <1>2, <1>7 DEF Typed
  <2>4. \A x \in Stable : got'[x] # None => Published(x, got'[x])
    <3> SUFFICES ASSUME NEW x \in Stable, got'[x] # None PROVE Published(x, got'[x])
      OBVIOUS
    <3>1. x \in Field
      BY FieldNames
    <3>2. CASE x = f
      BY <1>5, <2>1, <2>2, <3>1, <3>2
    <3>3. CASE x # f
      BY <1>4, <2>2, <3>1, <3>3
    <3> QED BY <3>2, <3>3
  <2>5. cache' = [s \in Source |-> [x \in Field |-> cache'[s][x]]]
    BY <1>2, <1>7 DEF Typed
  <2>6. \A x \in Stable : cache'[cur][x] # None => Published(x, cache'[cur][x].value)
    BY <1>5, <1>7
  <2> QED BY <2>3, <2>4, <2>5, <2>6
<1>8. CASE got' = got /\ cache' \in {cache, EmptyCache}
  <2>1. CachePublished' /\ cache' = [s \in Source |-> [x \in Field |-> cache'[s][x]]]
    BY <1>1, <1>8, CacheKept
  <2>2. \A x \in Stable : cache'[cur][x] # None => Published(x, cache'[cur][x].value)
    BY <1>1, <2>1 DEF CachePublished, Reading, Published
  <2> QED BY <1>2, <1>4, <1>8, <2>1, <2>2 DEF Typed
<1>9. CASE /\ bus[cur] # Absent /\ got' = [got EXCEPT ![f] = bus[cur][f]]
           /\ \E kept \in {cache, EmptyCache} :
                cache' = IF bus[cur][f] = None THEN kept
                         ELSE [kept EXCEPT ![cur][f] = [value |-> bus[cur][f], age |-> 0]]
  <2>1. PICK kept \in {cache, EmptyCache} :
          cache' = IF bus[cur][f] = None THEN kept
                   ELSE [kept EXCEPT ![cur][f] = [value |-> bus[cur][f], age |-> 0]]
    BY <1>9
  <2>2. kept = [s \in Source |-> [x \in Field |-> kept[s][x]]]
    BY <1>2 DEF Typed, EmptyCache
  <2>3. \A x \in Stable : kept[cur][x] # None => Published(x, kept[cur][x].value)
    BY <1>2, <1>5, FieldNames DEF EmptyCache
  <2>4. \A x \in Stable : x = f => Published(x, bus[cur][f])
    BY <1>2, <1>9 DEF Published
  <2>5. got' = [x \in Field |-> got'[x]]
        /\ \A x \in Field : got'[x] = IF x = f THEN bus[cur][f] ELSE got[x]
    BY <1>2, <1>9 DEF Typed
  <2>6. cache' = [s \in Source |-> [x \in Field |-> cache'[s][x]]]
    BY <1>2, <2>1, <2>2
  <2>7. \A x \in Stable : cache'[cur][x] # kept[cur][x] =>
                             x = f /\ cache'[cur][x].value = bus[cur][f]
    BY <1>2, <2>1, <2>2, FieldNames
  <2>8. \A x \in Stable : cache'[cur][x] # None => Published(x, cache'[cur][x].value)
    BY <2>3, <2>4, <2>7
  <2>9. \A x \in Stable : got'[x] # None => Published(x, got'[x])
    <3> SUFFICES ASSUME NEW x \in Stable, got'[x] # None PROVE Published(x, got'[x])
      OBVIOUS
    <3>1. x \in Field
      BY FieldNames
    <3>2. CASE x = f
      BY <2>4, <2>5, <3>1, <3>2
    <3>3. CASE x # f
      BY <1>4, <2>5, <3>1, <3>3
    <3> QED BY <3>2, <3>3
  <2> QED BY <2>5, <2>6, <2>8, <2>9
<1> QED
  <2>1. \/ Cached(f) /\ got' = [got EXCEPT ![f] = cache[cur][f].value] /\ cache' = cache
        \/ /\ bus[cur] # Absent /\ got' = [got EXCEPT ![f] = bus[cur][f]]
           /\ cache' = LET kept == IF Retries THEN EmptyCache ELSE cache
                       IN  IF bus[cur][f] = None THEN kept
                           ELSE [kept EXCEPT ![cur][f] = [value |-> bus[cur][f], age |-> 0]]
        \/ got' = got /\ cache' \in {cache, EmptyCache}
    BY DEF GetValue
  <2> QED BY <2>1, <1>7, <1>8, <1>9

LEMMA JudgeStep == ASSUME IInv, Judge PROVE IInv'
<1>1. /\ pc' = "idle" /\ seen' = {} /\ bus' = bus /\ cache' = cache /\ item' = item /\ got' = got
      /\ cur' = IF cur = K THEN 1 ELSE cur + 1
      /\ \E sample : src' = [src EXCEPT ![cur] = sample]
  BY DEF Judge
<1>2. cur' \in Source
  BY <1>1, ReaderAssumption DEF IInv, Typed, Source
<1>3. Typed'
  BY <1>1, <1>2 DEF IInv, Typed
<1>4. ~Reading'
  BY <1>1 DEF Reading
<1> QED BY <1>3, <1>4 DEF IInv, InView, GotPublished, CachePublished, Whole
-------------------------------------------------------------------------------
(***************************************************************************)
(* The environment.                                                        *)
(***************************************************************************)
LEMMA ShowsStep ==
    ASSUME IInv, NEW s \in Source, NEW frame \in Frame \cup {Absent}, Shows(s, frame)
    PROVE  IInv'
<1>1. /\ bus' = [bus EXCEPT ![s] = frame] /\ cache' = cache /\ pc' = pc /\ cur' = cur
      /\ item' = item /\ got' = got /\ src' = src
      /\ seen' = IF Reading /\ s = cur THEN seen \cup {frame} ELSE seen
  BY DEF Shows
<1>2. Typed'
  BY <1>1 DEF IInv, Typed
<1>3. seen \subseteq seen' /\ InView'
  BY <1>1 DEF IInv, Typed, InView, Reading
<1>4. \A v : \A x \in Stable : Published(x, v) => Published(x, v)'
  BY <1>3 DEF Published
<1>5. GotPublished' /\ CachePublished' /\ Whole'
  BY <1>1, <1>3, <1>4 DEF IInv, GotPublished, CachePublished, Whole, Reading
<1> QED BY <1>2, <1>3, <1>5 DEF IInv

LEMMA TickStep == ASSUME IInv, Tick PROVE IInv'
<1>1. /\ bus' = [s \in Source |-> Aged(bus[s])] /\ seen' = {Aged(f) : f \in seen}
      /\ got' = Aged(got) /\ pc' = pc /\ cur' = cur /\ item' = item /\ src' = src
      /\ cache' = [s \in Source |-> [x \in Field |-> cache'[s][x]]]
      /\ \A x \in Field : x # "age" =>
            cache'[cur][x] = IF cache[cur][x] = None THEN None
                             ELSE [value |-> cache[cur][x].value,
                                   age |-> Older(cache[cur][x].age, Ttl)]
  BY DEF Tick, IInv, Typed
<1>2. Typed /\ Aged(Absent) = Absent
  BY DEF IInv, Aged
<1>3. got' = [x \in Field |-> got'[x]] /\ \A x \in Stable : got'[x] = got[x]
  BY <1>1, <1>2, FieldNames DEF Typed, Aged, Stable
<1>4. Typed'
  <2>1. \A f \in Frame \cup {Absent} : Aged(f) \in Frame \cup {Absent}
    BY <1>2, AgedFrame
  <2>2. bus' \in [Source -> Frame \cup {Absent}] /\ seen' \subseteq Frame \cup {Absent}
    BY <1>1, <1>2, <2>1 DEF Typed
  <2> QED BY <1>1, <1>2, <1>3, <2>2 DEF Typed
<1>5. InView'
  BY <1>1, <1>2 DEF IInv, Typed, InView, Reading
<1>6. ASSUME NEW x \in Stable, NEW v, Published(x, v) PROVE Published(x, v)'
  <2>1. PICK f \in seen \ {Absent} : f[x] = v
    BY <1>6 DEF Published
  <2>2. f \in Frame
    BY <1>2, <2>1 DEF Typed
  <2>3. Aged(f) \in seen' \ {Absent} /\ Aged(f)[x] = v
    BY <1>1, <2>1, <2>2, AgedFrame
  <2> QED BY <2>3 DEF Published
<1>7. GotPublished'
  BY <1>1, <1>3, <1>6 DEF IInv, GotPublished, Reading
<1>8. CachePublished'
  BY <1>1, <1>6, FieldNames DEF IInv, CachePublished, Reading
<1>9. Whole'
  <2>1. got \in seen \ {Absent} => got' \in seen' \ {Absent}
    BY <1>1, <1>2, AgedFrame DEF Typed
  <2> QED BY <1>1, <1>3, <2>1 DEF IInv, Whole, Reading, Stable
<1> QED BY <1>4, <1>5, <1>7, <1>8, <1>9 DEF IInv

LEMMA Inductive == IInv /\ [Next]_vars => IInv'
<1> SUFFICES ASSUME IInv, [Next]_vars PROVE IInv'
  OBVIOUS
<1>1. ASSUME UNCHANGED <<bus, cache, pc, cur, item, got, seen, src>> PROVE IInv'
  BY <1>1 DEF IInv, Typed, InView, GotPublished, CachePublished, Whole, Reading, Published
<1>2. CASE UNCHANGED vars \/ DaemonStops \/ DaemonStarts
  BY <1>1, <1>2 DEF vars, DaemonStops, DaemonStarts
<1>3. CASE Read
  BY <1>3, BeginReadStep, GetSnapshotStep, GetValueStep, JudgeStep DEF Read
<1>4. CASE Publish
  <2>1. PICK s \in Source, f \in UNION {Frames[t] : t \in Source} : f \in Frames[s] /\ Shows(s, f)
    BY <1>4 DEF Publish
  <2>2. f \in Frame
    BY <2>1, ReaderAssumption
  <2> QED BY <2>1, <2>2, ShowsStep
<1>5. CASE Vanish
  BY <1>5, ShowsStep DEF Vanish
<1>6. CASE Tick
  BY <1>6, TickStep
<1> QED BY <1>2, <1>3, <1>4, <1>5, <1>6 DEF Next, Environment

LEMMA Invariant == Spec => []IInv
BY Inductive, InitIInv, PTL DEF Spec

\* What a step that accepts a sample has got.
LEMMA Accepted ==
    ASSUME IInv, [Next]_vars, AcceptsNow
    PROVE  Reading /\ Accepts(got, cur \in Mqtt) /\ src'[cur] = SampleOf(got)
<1>1. pc = "judge" /\ pc' = "idle" /\ src'[cur] # Offline
  BY DEF AcceptsNow
<1>2. Judge
  BY <1>1 DEF Next, Read, BeginRead, GetSnapshot, GetValue, Environment, Publish, Vanish, Shows,
     DaemonStops, DaemonStarts, Tick, vars
<1>3. src'[cur] = IF Accepts(got, cur \in Mqtt) THEN SampleOf(got) ELSE Offline
  BY <1>2 DEF Judge, IInv, Typed
<1> QED BY <1>1, <1>3 DEF Reading

(***************************************************************************)
(* The sample accepted from an MQTT chain is one frame that the chain      *)
(* published whole during the read and that is fresh when it is accepted.  *)
(***************************************************************************)
THEOREM AcceptsWholeFrames == Spec => WholeMqttFrame
<1>1. ASSUME IInv, [Next]_vars, AcceptsNow, cur \in Mqtt
      PROVE  \E f \in seen : Accepts(f, TRUE) /\ src'[cur] = SampleOf(f)
  <2>1. Reading /\ Accepts(got, TRUE) /\ src'[cur] = SampleOf(got)
    BY <1>1, Accepted
  <2>2. got.connected # None
    BY <2>1, SentinelAssumption DEF Accepts
  <2>3. got \in seen
    BY <1>1, <2>1, <2>2 DEF IInv, Whole
  <2> QED BY <2>1, <2>3
<1>2. IInv /\ [Next]_vars =>
        [AcceptsNow /\ cur \in Mqtt =>
            \E f \in seen : Accepts(f, TRUE) /\ src'[cur] = SampleOf(f)]_vars
  BY <1>1
<1> QED BY <1>2, Invariant, PTL DEF Spec, WholeMqttFrame

(***************************************************************************)
(* Every part of an accepted sample was on the bus since the read began,   *)
(* also when the read collected it item by item through the cache, while   *)
(* the source changed, the connection broke and calls failed.              *)
(***************************************************************************)
THEOREM ReadsSinceBegin == Spec => ReadSinceBegin
<1>1. ASSUME IInv, [Next]_vars, AcceptsNow
      PROVE  LET published == seen \ {Absent}
             IN  /\ \E f \in published : f.connected = 1
                 /\ \E f \in published : f.voltage = src'[cur].voltage
                 /\ \E f \in published : f.current = src'[cur].current
  <2>1. Reading /\ Accepts(got, cur \in Mqtt) /\ src'[cur] = SampleOf(got)
    BY <1>1, Accepted
  <2>2. /\ got.connected = 1 /\ got.connected # None
        /\ got.voltage # None /\ got.current # None
    BY <2>1, SentinelAssumption DEF Accepts, Usable
  <2>3. /\ Published("connected", got.connected) /\ Published("voltage", got.voltage)
        /\ Published("current", got.current)
    BY <1>1, <2>1, <2>2 DEF IInv, GotPublished, Stable
  <2>4. src'[cur].voltage = got.voltage /\ src'[cur].current = got.current
    BY <2>1 DEF SampleOf
  <2> QED BY <2>2, <2>3, <2>4 DEF Published
<1>2. IInv /\ [Next]_vars =>
        [AcceptsNow => LET published == seen \ {Absent}
                       IN  /\ \E f \in published : f.connected = 1
                           /\ \E f \in published : f.voltage = src'[cur].voltage
                           /\ \E f \in published : f.current = src'[cur].current]_vars
  BY <1>1
<1> QED BY <1>2, Invariant, PTL DEF Spec, ReadSinceBegin
===============================================================================

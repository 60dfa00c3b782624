----------------------------- MODULE SourceFrame ------------------------------
(***************************************************************************)
(* What a battery service publishes (a frame) and when a frame is accepted *)
(* as a measurement.  A source that publishes any freshness metadata must  *)
(* publish all of it, and an MQTT chain always must.  The age of a frame   *)
(* is the host's monotonic clock minus its measurement timestamp.          *)
(***************************************************************************)
EXTENDS Calculator

CONSTANTS Absent,     \* the service has no owner on the bus
          Offline,    \* a source without an accepted sample
          AgeLimit    \* ages are told apart up to this bound

Time == {None} \cup -1..AgeLimit
Frame == [connected : {None, 0, 1}, voltage : Int \cup {None}, current : Int \cup {None},
          soc : Int \cup {None}, complete : {None, 0, 1}, age : Time, timeout : Time]
Sample == [voltage : Int, current : Int, soc : 0..100 \cup {None}]

ASSUME FrameAssumption == /\ AgeLimit \in Nat
                          /\ Absent \notin Frame
                          /\ Offline \notin Sample

MutFresh(f, mqtt) == ~mqtt \/ f.complete = 1   \* mutant: age not compared

Fresh(f, mqtt) ==
    IF f.complete = 1 /\ f.age # None /\ f.timeout # None /\ f.timeout > 0
    THEN 0 <= f.age /\ f.age < f.timeout
    ELSE ~mqtt /\ {f.complete, f.age, f.timeout} = {None}

Accepts(reply, mqtt) == /\ reply # Absent
                        /\ reply.connected = 1
                        /\ Fresh(reply, mqtt)
                        /\ Usable(reply.voltage, reply.current)

\* Mutant: a state of charge outside 0..100 is kept.
MutSampleOf(f) == [voltage |-> f.voltage, current |-> f.current, soc |-> f.soc]

SampleOf(f) == [voltage |-> f.voltage, current |-> f.current,
                soc |-> IF ValidSoc(f.soc) THEN f.soc ELSE None]

\* A second later, a frame that is not renewed is a second older.
Aged(f) == IF f = Absent \/ f.age = None \/ f.age = AgeLimit
           THEN f ELSE [f EXCEPT !.age = @ + 1]
===============================================================================

----------------------------- MODULE MCSourceRead -----------------------------
(***************************************************************************)
(* An MQTT chain with a snapshot, and a native service without one.        *)
(***************************************************************************)
EXTENDS SourceRead

Stamped(voltage, current, complete, age) ==
    [connected |-> 1, voltage |-> voltage, current |-> current, soc |-> 101,
     complete |-> complete, age |-> age, timeout |-> 2]

Plain(connected, voltage, current) ==
    [connected |-> connected, voltage |-> voltage, current |-> current, soc |-> None,
     complete |-> None, age |-> None, timeout |-> None]

\* Source 1 is the chain, source 2 the native service.
MCFrames == <<{Stamped(1, 11, 1, 0), Stamped(2, 12, 1, 0)},
              {Plain(1, 3, 13), Plain(0, 4, 14)}>>

\* A native service that publishes the freshness contract, and reports it broken.
MCFramesContract == <<{Stamped(1, 11, 0, 0)}>>
===============================================================================

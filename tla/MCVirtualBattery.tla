--------------------------- MODULE MCVirtualBattery ---------------------------
(***************************************************************************)
(* Frames for the model checker: what each kind of publisher can show.     *)
(***************************************************************************)
EXTENDS VirtualBattery

ChainFrame(current, soc, complete, age) ==
    [connected |-> 1, voltage |-> 10, current |-> current, soc |-> soc,
     complete |-> complete, age |-> age, timeout |-> 2]

NativeFrame(connected, current) ==
    [connected |-> connected, voltage |-> 10, current |-> current, soc |-> None,
     complete |-> None, age |-> None, timeout |-> None]

\* Two chains whose readings change, may be incomplete or have an invalid state of
\* charge; a shunt on port 3 that may be disconnected, and a BMS on port 4.
MCFrames2 ==
    [s \in Services |->
       CASE s = 1 -> {ChainFrame(5, 50, 1, 0), ChainFrame(6, 50, 0, 0)}
         [] s = 2 -> {ChainFrame(20, 101, 1, 0), ChainFrame(12, 100, 1, 0)}
         [] s = 4 -> {NativeFrame(1, 99)}
         [] OTHER -> {NativeFrame(1, 30), NativeFrame(0, 30)}]

\* One chain for liveness: fresh frames, stamped now or by a clock ahead of ours.
MCFrames1 ==
    [s \in Services |->
       CASE s = 1 -> {ChainFrame(5, 50, 1, 0), ChainFrame(5, 50, 1, -1)}
         [] OTHER -> {NativeFrame(1, 30)}]

\* Readings at the edge of the float range: the power of 10 V at 400 A overflows.
MCFramesOverflow ==
    [s \in Services |->
       CASE s = 1 -> {ChainFrame(5, 50, 1, 0)}
         [] OTHER -> {NativeFrame(1, 30), NativeFrame(1, 400)}]
===============================================================================

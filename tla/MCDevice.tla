------------------------------- MODULE MCDevice -------------------------------
(***************************************************************************)
(* Two parts of the service that share no state, checked side by side: the *)
(* discovery of the SmartShunt (the actions of Discovery) and the          *)
(* calculator over its inputs (MCCalculator).  `part` says which of the    *)
(* two a behaviour is about; the other one rests in some initial state.    *)
(***************************************************************************)
EXTENDS Discovery, MCCalculator

\* The inputs of the calculator: an idle, a charging and a
\* discharging system, a float at the edge of the range, and invalid samples.
MCShunt == [voltage : {1}, current : {-40, 0, 30}]
             \cup [voltage : {None, 0, NonFinite, 3000}, current : {7}]
             \cup [voltage : {2}, current : {None, NonFinite, 3000, -3000}]
MCChain == [voltage : {2}, current : {-6, 5, 20}, soc : {None, 0, 50, 100}]
             \cup [voltage : {1499}, current : {3000, -3000}, soc : {30}]
             \cup [voltage : {1}, current : {0}, soc : {101}]
             \cup [voltage : {None, 0, NonFinite}, current : {1}, soc : {50}]
             \cup [voltage : {1}, current : {None, NonFinite}, soc : {50}]
-------------------------------------------------------------------------------
VARIABLE part

MCInit == /\ Init
          /\ AnyInputs
          /\ \/ part = "discovery" /\ chains = <<>>
                /\ shunt = [voltage |-> 1, current |-> 0] /\ capacity = 1
             \/ part = "calculator" /\ owner = [port \in Ports |-> Nothing] /\ ~daemon

Discovering == part = "discovery" /\ Next /\ UNCHANGED <<part, inputs>>
Calculating == part = "calculator" /\ ReplaceChain /\ UNCHANGED <<part, vars>>

MCFairness == /\ WF_vars(part = "discovery" /\ Service /\ UNCHANGED <<part, inputs>>)
              /\ WF_vars(part = "discovery" /\ Tick /\ UNCHANGED <<part, inputs>>)

MCSpec == MCInit /\ [][Discovering \/ Calculating]_<<part, inputs, vars>> /\ MCFairness
===============================================================================

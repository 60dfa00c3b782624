--------------------------- MODULE MCReleaseLedger ----------------------------
(***************************************************************************)
(* Two instances: two release candidates and two promotions that overlap,  *)
(* and one run of every channel, serialized and rerun.                     *)
(***************************************************************************)
EXTENDS ReleaseLedger, TLC

OverlapRuns == 1..4
OverlapChannel == 1 :> "rc" @@ 2 :> "rc" @@ 3 :> "promote" @@ 4 :> "promote"

SerialRuns == 1..4
SerialChannel == 1 :> "rc" @@ 2 :> "beta" @@ 3 :> "nightly" @@ 4 :> "promote"

OneBase == [r \in Runs |-> 1]
===============================================================================

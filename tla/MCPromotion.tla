----------------------------- MODULE MCPromotion ------------------------------
(***************************************************************************)
(* Four commits: the candidate's source, a later one with the same         *)
(* workflows, one that changes them and adopts fuzzing, and one that a     *)
(* forced push puts in place of the source.                                *)
(***************************************************************************)
EXTENDS Promotion, TLC

CONSTANTS built, other   \* contents of packages

MCAncestors == 1 :> {1} @@ 2 :> {1, 2} @@ 3 :> {1, 2, 3} @@ 4 :> {4}
MCWorkflows == 1 :> "old" @@ 2 :> "old" @@ 3 :> "new" @@ 4 :> "old"
Plain == [blocked |-> FALSE, fuzzing |-> FALSE, finalBuild |-> FALSE]
MCPolicy == 1 :> Plain @@ 2 :> Plain @@ 3 :> [Plain EXCEPT !.fuzzing = TRUE] @@ 4 :> Plain
MCBuilt == "package" :> built

\* A manifest for other bytes, one of another attempt, and one with another file.
MCManifests ==
    {[source |-> 1, attempt |-> 1, policy |-> Plain, files |-> "package" :> other],
     [source |-> 1, attempt |-> 2, policy |-> Plain, files |-> "package" :> built],
     [source |-> 1, attempt |-> 1, policy |-> Plain,
      files |-> "package" :> built @@ "extra" :> other]}
===============================================================================

---------------------------- MODULE ReleaseNumbers -----------------------------
(***************************************************************************)
(* What the release engine promises to whoever installs packages: every    *)
(* run gets at most one build number, larger than all before it; a number  *)
(* is published only if it is larger than all that were ever published,    *)
(* and once more as a stable release, if it still is the largest.  There   *)
(* is no ledger, no draft, no failure and no deletion here.                *)
(***************************************************************************)
EXTENDS Integers

CONSTANT Runs   \* workflow runs

VARIABLES issued,    \* issued[r]: the build number of run r, or 0
          published  \* the numbers ever published, as prerelease or as stable

vars == <<issued, published>>

Init == issued = [r \in Runs |-> 0] /\ published = {}

\* GitHub decides which run gets which number; the promise is only that it is new.
Issue(r) == /\ issued[r] = 0
            /\ issued'[r] \in Nat
            /\ \A s \in Runs : issued'[r] > issued[s]
            /\ issued' = [issued EXCEPT ![r] = issued'[r]]
            /\ UNCHANGED published

Publish(r) == /\ issued[r] # 0
              /\ \A old \in published : old.number < issued[r]
              /\ published' = published \cup {[number |-> issued[r], stable |-> FALSE]}
              /\ UNCHANGED issued

Promote(candidate) ==
    /\ ~candidate.stable
    /\ \A old \in published : old.number <= candidate.number
    /\ published' = published \cup {[number |-> candidate.number, stable |-> TRUE]}
    /\ UNCHANGED issued

Next == \/ \E r \in Runs : Issue(r) \/ Publish(r)
        \/ \E candidate \in published : Promote(candidate)

Spec == Init /\ [][Next]_vars
===============================================================================

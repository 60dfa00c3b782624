------------------------- MODULE MCVersionPreparation --------------------------
(***************************************************************************)
(* Two developers; the next patch is already tagged on another branch, so  *)
(* that calls choose between the patch after it and a minor version.       *)
(***************************************************************************)
EXTENDS VersionPreparation, TLC

FourVersions == {<<0, 0, 0>>, <<0, 0, 1>>, <<0, 0, 2>>, <<0, 1, 0>>}
TaggedElsewhere == {<<0, 0, 1>>}
Start == <<0, 0, 0>>

\* Bound: two calls overlap only while there are at most four commits.
OverlapCommits == 4
Overlap == \/ Len(objects) <= OverlapCommits
           \/ Cardinality({d \in Developers : call[d] # NoCall}) <= 1

Symmetry == Permutations(Developers)
===============================================================================

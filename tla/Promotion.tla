------------------------------ MODULE Promotion -------------------------------
(***************************************************************************)
(* Verification of a published release candidate.  A run on the default    *)
(* branch reads the candidate, its manifest, the run that built it and the *)
(* evidence of that run from GitHub, one request after another, to promote *)
(* its bytes to the stable tag, to accept it before a final build, or to   *)
(* let a scheduled nightly stand on it.  GitHub locks nothing: between any *)
(* two requests people replace assets, move tags, withdraw releases, rerun *)
(* the run, push to the default branch and change the protection of the    *)
(* release environment, and evidence expires.                              *)
(***************************************************************************)
EXTENDS Integers, Sequences

CONSTANTS Commits, Source,  \* commits in play; the one the candidate was built from
          Ancestors,        \* Ancestors[c]: the commits in the history of commit c
          Workflows,        \* Workflows[c]: the tree of workflow files of commit c
          Policy,           \* Policy[c]: the release policy at commit c
          Files, Bytes,     \* package names and contents
          Built,            \* the packages the accepted run built
          Manifests,        \* bound: manifests people may upload
          MaxAttempt,       \* bound on the attempts of the candidate's run
          MaxChanges,       \* bound on what happens around a verification
          None

Manifest == "release-manifest.json"
Names == Files \cup {Manifest}
Policies == [blocked : BOOLEAN, fuzzing : BOOLEAN, finalBuild : BOOLEAN]
\* What a manifest binds: the commit, the attempt of the run, the policy, the packages.
ManifestType == [source : Commits, attempt : 1..MaxAttempt, policy : Policies,
                 files : UNION {[names -> Bytes] : names \in SUBSET Files \ {{}}}]

Asset == [id : Nat, content : Bytes \cup ManifestType, downloads : Nat]
Candidate == [ref : Commits \cup {None}, public : BOOLEAN, updated : Nat,
              assets : [Names -> Asset \cup {None}]]

ASSUME PromotionAssumption ==
    /\ Source \in Commits
    /\ Ancestors \in [Commits -> SUBSET Commits]
    /\ Policy \in [Commits -> Policies]
    /\ Manifest \notin Files
    /\ Manifests \subseteq ManifestType
    /\ MaxAttempt \in Nat \ {0} /\ MaxChanges \in Nat
    /\ Built \in UNION {[names -> Bytes] : names \in SUBSET Files \ {{}}}
    /\ None \notin Commits \cup Bytes \cup ManifestType \cup Asset \cup Candidate

VARIABLES candidate,  \* the release candidate on GitHub
          evidence,   \* the evidence artifacts of its run
          attempts,   \* how each attempt of that run ended
          head,       \* the head of the default branch
          reviewers,  \* the release environment requires reviewers
          stable,     \* the stable tag and its release
          changes,    \* how often the world changed; also names assets and revisions
          purpose,    \* what the run verifies the candidate for
          checkout,   \* the commit the run was dispatched at
          at,         \* how far it is
          outcome,
          first,      \* the candidate as collected first
          second,     \* and again
          raw,        \* the manifest it read
          staged,     \* the packages it downloaded
          headSeen,   \* the head it compared workflows with
          witness,    \* history: the candidate when its tag was read again
          approval    \* history: the attempts when the evidence was read

github == <<candidate, evidence, attempts, head, reviewers, stable, changes>>
collected == <<first, second, raw, staged, headSeen, witness, approval>>
vars == <<github, purpose, checkout, at, outcome, collected>>

(***************************************************************************)
(* The requests of each purpose, in the order of the code.                 *)
(***************************************************************************)
Order == [promote |-> <<"reviewers", "ref", "release", "assets", "manifest", "policy",
                        "run", "gate", "ancestry", "evidence", "absent", "inventory",
                        "head", "head again", "download",
                        "ref again", "release again", "assets again",
                        "run", "gate", "reviewers", "head", "head again",
                        "absent", "head", "head again", "tag", "draft", "publish">>,
          accept |-> <<"ref", "release", "assets", "manifest", "policy", "run", "gate",
                       "ancestry", "evidence", "inventory", "download",
                       "ref again", "release again", "assets again">>,
          reuse |-> <<"current", "ref", "release", "assets", "manifest", "policy",
                      "inventory", "run", "gate", "evidence",
                      "ref again", "release again", "assets again", "current">>]

Accepted(attempt) == [source |-> Source, attempt |-> attempt, policy |-> Policy[Source],
                      files |-> Built]
Uploaded(manifest) ==
    [name \in Names |->
       IF name = Manifest THEN [id |-> 0, content |-> manifest, downloads |-> 0]
       ELSE IF name \in DOMAIN manifest.files
            THEN [id |-> 0, content |-> manifest.files[name], downloads |-> 0] ELSE None]

Blank == [ref |-> None, public |-> FALSE, updated |-> 0, assets |-> [name \in Names |-> None]]

\* The candidate is out; the attempt that built it may be a rerun, whose successful
\* jobs are either executed or copied from an attempt before it.
Init == /\ \E attempt \in 1..MaxAttempt :
              /\ evidence = {[manifest |-> Accepted(attempt), expired |-> FALSE]}
              /\ candidate = [ref |-> Source, public |-> TRUE, updated |-> 0,
                              assets |-> Uploaded(Accepted(attempt))]
              /\ \E ending \in {"executed"} \cup (IF attempt = 1 THEN {} ELSE {"copied"}) :
                    attempts = [i \in 1..attempt |-> IF i = attempt THEN ending ELSE "failed"]
        /\ head \in {c \in Commits : Source \in Ancestors[c]}
        /\ reviewers = TRUE
        /\ stable = [status |-> "absent", manifest |-> None, files |-> [f \in Files |-> None]]
        /\ changes = 0
        /\ purpose \in DOMAIN Order
        /\ checkout = head
        /\ at = 1
        /\ outcome = "running"
        /\ first = Blank /\ second = Blank
        /\ raw = None
        /\ staged = [f \in Files |-> None]
        /\ headSeen = None
        /\ witness = None
        /\ approval = <<>>
-------------------------------------------------------------------------------
(***************************************************************************)
(* The verification.  A step that does not hold ends it.                   *)
(***************************************************************************)
Doing(step) == outcome = "running" /\ Order[purpose][at] = step

Proceed == /\ at' = at + 1
           /\ outcome' = IF at = Len(Order[purpose]) THEN "done" ELSE "running"

Check(step, holds) == /\ Doing(step)
                      /\ \/ holds /\ Proceed
                         \/ ~holds /\ at' = at /\ outcome' = "refused"
                      /\ UNCHANGED <<purpose, checkout>>

\* A check of what GitHub says now, or of what was collected.
Ask(step, holds) == Check(step, holds) /\ UNCHANGED <<github, collected>>

RequireReviewers == Ask("reviewers", reviewers)

\* release_snapshot: the tag, the release and its assets, in three requests.
ReadRef == /\ Check("ref", candidate.ref # None)
           /\ first' = [first EXCEPT !.ref = candidate.ref]
           /\ UNCHANGED <<github, second, raw, staged, headSeen, witness, approval>>

ReadRelease == /\ Check("release", candidate.public)
               /\ first' = [first EXCEPT !.public = candidate.public, !.updated = candidate.updated]
               /\ UNCHANGED <<github, second, raw, staged, headSeen, witness, approval>>

ReadAssets == /\ Check("assets", TRUE)
              /\ first' = [first EXCEPT !.assets = candidate.assets]
              /\ UNCHANGED <<github, second, raw, staged, headSeen, witness, approval>>

\* An asset is downloaded by its id, which a replacement does not keep.
Downloadable(name) == /\ first.assets[name] # None
                      /\ candidate.assets[name] # None
                      /\ candidate.assets[name].id = first.assets[name].id

Fetched(name) == [candidate EXCEPT !.assets[name].downloads = @ + 1]

ReadManifest ==
    /\ Check("manifest", Downloadable(Manifest) /\ first.assets[Manifest].content \in ManifestType)
    /\ \/ /\ outcome' = "refused"
          /\ UNCHANGED <<candidate, raw>>
       \/ /\ outcome' # "refused"
          /\ candidate' = Fetched(Manifest)
          /\ raw' = first.assets[Manifest].content
    /\ UNCHANGED <<evidence, attempts, head, reviewers, stable, changes,
                   first, second, staged, headSeen, witness, approval>>

\* The manifest's policy is the one at its commit, and lets this run go on.
Eligible(policy) ==
    /\ ~policy.blocked
    /\ Policy[checkout].fuzzing => policy.fuzzing
    /\ purpose = "promote" => ~policy.finalBuild

PolicyHolds ==
    /\ first.ref = raw.source
    /\ raw.policy = Policy[raw.source]
    /\ IF purpose = "reuse" THEN raw.source = checkout ELSE Eligible(raw.policy)

VerifyPolicy == Ask("policy", PolicyHolds)

\* Mutant: the attempt that wrote the manifest need not be the latest of its run.
MutRunStands == /\ raw.attempt \in DOMAIN attempts
                /\ attempts[raw.attempt] \in {"executed", "copied"}

\* validate_run: nobody reran the run, and its attempt succeeded.
RunStands == /\ Len(attempts) = raw.attempt
             /\ attempts[raw.attempt] \in {"executed", "copied"}

\* release_gate_ready: the jobs of a rerun were executed, not copied.  A nightly that
\* reuses a release only asks for the gates' success.
GateStands == attempts[raw.attempt] = "executed" \/ purpose = "reuse"

ValidateRun == Ask("run", RunStands)
ValidateGate == Ask("gate", GateStands)

CheckAncestry == Ask("ancestry", raw.source \in Ancestors[head])

Unexpired == {artifact \in evidence : ~artifact.expired}

\* Mutant: it is enough that some run has retained evidence.
MutVerifyEvidence ==
    /\ Check("evidence", Unexpired # {})
    /\ approval' = attempts
    /\ UNCHANGED <<github, first, second, raw, staged, headSeen, witness>>

VerifyEvidence ==
    /\ Check("evidence", Unexpired = {[manifest |-> raw, expired |-> FALSE]})
    /\ approval' = attempts
    /\ UNCHANGED <<github, first, second, raw, staged, headSeen, witness>>

EnsureAbsent == Ask("absent", stable.status = "absent")

\* Exactly the files of the manifest; a nightly compares the published digests.
InventoryHolds ==
    /\ {name \in Names : first.assets[name] # None} = DOMAIN raw.files \cup {Manifest}
    /\ purpose = "reuse" => \A f \in DOMAIN raw.files : first.assets[f].content = raw.files[f]

CheckInventory == Ask("inventory", InventoryHolds)

\* check_workflow_publication: the head, the two trees, and the head once more.
ReadHead == /\ Check("head", TRUE)
            /\ headSeen' = head
            /\ UNCHANGED <<github, first, second, raw, staged, witness, approval>>

ConfirmHead ==
    Ask("head again", \/ raw.source = headSeen
                      \/ Workflows[raw.source] = Workflows[headSeen] /\ head = headSeen)

Current == Ask("current", head = checkout)

Missing == {f \in DOMAIN raw.files : staged[f] = None}

Download(f) ==
    /\ Doing("download")
    /\ f \in Missing
    /\ \/ /\ Downloadable(f) /\ first.assets[f].content = raw.files[f]
          /\ staged' = [staged EXCEPT ![f] = first.assets[f].content]
          /\ candidate' = Fetched(f)
          /\ \/ Missing = {f} /\ Proceed
             \/ Missing # {f} /\ UNCHANGED <<at, outcome>>
       \/ /\ ~(Downloadable(f) /\ first.assets[f].content = raw.files[f])
          /\ outcome' = "refused"
          /\ UNCHANGED <<at, staged, candidate>>
    /\ UNCHANGED <<evidence, attempts, head, reviewers, stable, changes, purpose, checkout,
                   first, second, raw, headSeen, witness, approval>>

ReadRefAgain == /\ Check("ref again", candidate.ref # None)
                /\ second' = [second EXCEPT !.ref = candidate.ref]
                /\ witness' = candidate
                /\ UNCHANGED <<github, first, raw, staged, headSeen, approval>>

ReadReleaseAgain ==
    /\ Check("release again", candidate.public)
    /\ second' = [second EXCEPT !.public = candidate.public, !.updated = candidate.updated]
    /\ UNCHANGED <<github, first, raw, staged, headSeen, witness, approval>>

\* Mutant: names and sizes instead of identities.
MutIdentity(snapshot) ==
    [ref |-> snapshot.ref, public |-> snapshot.public,
     assets |-> {name \in Names : snapshot.assets[name] # None}]

\* Mutant: the download counters count as well.
MutCounted(snapshot) == snapshot

\* snapshot_identity: everything but the counters that downloads raise.
Identity(snapshot) ==
    [snapshot EXCEPT !.assets =
       [name \in Names |-> IF snapshot.assets[name] = None THEN None
                           ELSE [snapshot.assets[name] EXCEPT !.downloads = 0]]]

ReadAssetsAgain ==
    /\ second' = [second EXCEPT !.assets = candidate.assets]
    /\ Check("assets again", Identity(second') = Identity(first))
    /\ UNCHANGED <<github, first, raw, staged, headSeen, witness, approval>>
-------------------------------------------------------------------------------
(***************************************************************************)
(* Publication of the staged bytes.  GitHub refuses a tag that exists, and *)
(* one on a commit whose workflows are not those of the default branch.    *)
(***************************************************************************)
CreateTag ==
    /\ Check("tag", stable.status = "absent" /\ Workflows[raw.source] = Workflows[head])
    /\ stable' = [stable EXCEPT !.status = IF outcome' = "refused" THEN @ ELSE "tag"]
    /\ UNCHANGED <<candidate, evidence, attempts, head, reviewers, changes, collected>>

CreateDraft ==
    /\ Check("draft", TRUE)
    /\ stable' = [status |-> "draft", manifest |-> raw, files |-> staged]
    /\ UNCHANGED <<candidate, evidence, attempts, head, reviewers, changes, collected>>

Publish ==
    /\ Check("publish", TRUE)
    /\ stable' = [stable EXCEPT !.status = "public"]
    /\ UNCHANGED <<candidate, evidence, attempts, head, reviewers, changes, collected>>

Collect == \/ ReadRef \/ ReadRelease \/ ReadAssets \/ ReadManifest
           \/ ReadRefAgain \/ ReadReleaseAgain \/ ReadAssetsAgain
           \/ \E f \in Files : Download(f)
Judge == \/ RequireReviewers \/ VerifyPolicy \/ ValidateRun \/ ValidateGate \/ CheckAncestry
         \/ VerifyEvidence \/ EnsureAbsent \/ CheckInventory \/ ReadHead \/ ConfirmHead \/ Current
Verify == Collect \/ Judge \/ CreateTag \/ CreateDraft \/ Publish
-------------------------------------------------------------------------------
(***************************************************************************)
(* What happens around it.                                                 *)
(***************************************************************************)
Local == <<purpose, checkout, at, collected>>
\* Nothing after the end of the run is of concern to it.
Changing == outcome = "running" /\ changes < MaxChanges /\ changes' = changes + 1

\* A request of the run fails.
RequestFails == /\ Changing
                /\ outcome' = "refused"
                /\ UNCHANGED <<candidate, evidence, attempts, head, reviewers, stable, Local>>

\* An asset is deleted, or uploaded under the same name and a new id.
ReplaceAsset(name) ==
    /\ Changing
    /\ \E asset \in {None} \cup [id : {changes'}, downloads : {0},
                                 content : IF name = Manifest THEN Manifests ELSE Bytes] :
          /\ candidate.assets[name] # asset
          /\ candidate' = [candidate EXCEPT !.assets[name] = asset]
    /\ UNCHANGED <<evidence, attempts, head, reviewers, stable, outcome, Local>>

MoveTag(commit) == /\ Changing
                   /\ candidate.ref # commit
                   /\ candidate' = [candidate EXCEPT !.ref = commit]
                   /\ UNCHANGED <<evidence, attempts, head, reviewers, stable, outcome, Local>>

\* The release becomes a draft, or public again.
EditRelease == /\ Changing
               /\ candidate' = [candidate EXCEPT !.public = ~@, !.updated = changes']
               /\ UNCHANGED <<evidence, attempts, head, reviewers, stable, outcome, Local>>

Rerun == /\ Changing
         /\ Len(attempts) < MaxAttempt /\ attempts[Len(attempts)] # "running"
         /\ attempts' = Append(attempts, "running")
         /\ UNCHANGED <<candidate, evidence, head, reviewers, stable, outcome, Local>>

\* A rerun that succeeds has built other bytes and stores evidence of its own.
FinishRerun(ending) ==
    /\ Changing
    /\ attempts[Len(attempts)] = "running"
    /\ attempts' = [attempts EXCEPT ![Len(attempts)] = ending]
    /\ \/ ending = "failed" /\ UNCHANGED evidence
       \/ /\ ending # "failed"
          /\ \E files \in [DOMAIN Built -> Bytes] :
                evidence' = evidence \cup
                   {[manifest |-> [Accepted(Len(attempts)) EXCEPT !.files = files],
                     expired |-> FALSE]}
    /\ UNCHANGED <<candidate, head, reviewers, stable, outcome, Local>>

Expire(artifact) == /\ Changing
                    /\ artifact \in Unexpired
                    /\ evidence' = (evidence \ {artifact})
                                   \cup {[artifact EXCEPT !.expired = TRUE]}
                    /\ UNCHANGED <<candidate, attempts, head, reviewers, stable, outcome, Local>>

MoveHead(commit) == /\ Changing
                    /\ head # commit /\ head' = commit
                    /\ UNCHANGED <<candidate, evidence, attempts, reviewers, stable, outcome, Local>>

EditEnvironment == /\ Changing
                   /\ reviewers' = ~reviewers
                   /\ UNCHANGED <<candidate, evidence, attempts, head, stable, outcome, Local>>

TakeStable == /\ Changing
              /\ stable.status = "absent"
              /\ stable' = [stable EXCEPT !.status = "taken"]
              /\ UNCHANGED <<candidate, evidence, attempts, head, reviewers, outcome, Local>>

World == \/ RequestFails \/ EditRelease \/ Rerun \/ EditEnvironment \/ TakeStable
         \/ \E name \in Names : ReplaceAsset(name)
         \/ \E commit \in Commits \cup {None} : MoveTag(commit)
         \/ \E commit \in Commits : MoveHead(commit)
         \/ \E ending \in {"failed", "executed", "copied"} : FinishRerun(ending)
         \/ \E artifact \in Unexpired : Expire(artifact)

Next == Verify \/ World
Spec == Init /\ [][Next]_vars
LiveSpec == Spec /\ WF_vars(Verify)
-------------------------------------------------------------------------------
TypeOK ==
    /\ candidate \in Candidate
    /\ evidence \subseteq [manifest : ManifestType, expired : BOOLEAN]
    /\ attempts \in Seq({"running", "failed", "executed", "copied"})
    /\ Len(attempts) \in 1..MaxAttempt
    /\ head \in Commits /\ checkout \in Commits /\ reviewers \in BOOLEAN
    /\ stable \in [status : {"absent", "taken", "tag", "draft", "public"},
                   manifest : ManifestType \cup {None}, files : [Files -> Bytes \cup {None}]]
    /\ changes \in 0..MaxChanges
    /\ purpose \in DOMAIN Order
    /\ at \in 1..(Len(Order[purpose]) + 1)
    /\ outcome \in {"running", "refused", "done"}
    /\ first \in Candidate /\ second \in Candidate
    /\ raw \in ManifestType \cup {None}
    /\ staged \in [Files -> Bytes \cup {None}]
    /\ headSeen \in Commits \cup {None}
    /\ witness \in Candidate \cup {None}
    /\ approval \in Seq({"running", "failed", "executed", "copied"})

\* The stable release holds the bytes and the manifest that the evidence of an
\* accepted run binds, whatever was uploaded to the candidate while promote read it.
PromotesAcceptedBytes ==
    stable.status = "public" =>
        \E artifact \in evidence :
            /\ stable.manifest = artifact.manifest
            /\ \A f \in Files : stable.files[f] =
                  IF f \in DOMAIN artifact.manifest.files THEN artifact.manifest.files[f] ELSE None

\* The step is behind the run.
Past(step) == \E i \in 1..(at - 1) : Order[purpose][i] = step

Holds(snapshot, manifest) ==
    /\ snapshot.public
    /\ snapshot.ref = manifest.source
    /\ snapshot.assets[Manifest] # None
    /\ snapshot.assets[Manifest].content = manifest
    /\ \A f \in DOMAIN manifest.files :
          snapshot.assets[f] # None /\ snapshot.assets[f].content = manifest.files[f]

\* release_snapshot takes three requests, the downloads take more, and none is atomic.
\* Comparing two collections still proves one instant at which the candidate was public,
\* tagged at its source and held every file of the manifest.  (A file beyond those may
\* have come and gone: an absence has no identity to compare.)
VerifiedAtOnce == Past("assets again") => Holds(witness, raw)

\* A promotion checks the run before and after it reads the evidence.  So when the
\* evidence was read, the attempt it stands for was the latest of its run and every
\* successful job of it had been executed.
EvidenceOfLatestAttempt ==
    purpose = "promote" /\ Past("tag") =>
        Len(approval) = raw.attempt /\ approval[raw.attempt] = "executed"

\* What one verification would accept if nothing moved.
Acceptable ==
    /\ attempts[Len(attempts)] = "executed"
    /\ ~Policy[Source].blocked
    /\ Policy[head].fuzzing => Policy[Source].fuzzing
    /\ purpose = "promote" => /\ ~Policy[Source].finalBuild
                             /\ Workflows[Source] = Workflows[head]
    /\ purpose = "reuse" => head = Source

\* An acceptable candidate that nobody touches is promoted, accepted or reused: the
\* verification is not disturbed by what its own requests change.
UndisturbedSucceeds == Acceptable => <>(outcome = "done" \/ changes > 0)
===============================================================================

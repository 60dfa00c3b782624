--------------------------- MODULE AutomaticRelease ---------------------------
(***************************************************************************)
(* Betas built for every push and nightlies built on a schedule publish    *)
(* what is the head of the default branch, without holding it: the branch  *)
(* moves between any two of their requests.  A run whose source is not the *)
(* head any more gives way to its replacement, the run of the push that    *)
(* moved the head.  The runs share a concurrency group: one executes, one  *)
(* waits, and a newer one takes the place of the one that waits.           *)
(***************************************************************************)
EXTENDS Integers, Sequences, FiniteSets

CONSTANTS MaxCommits,    \* bounds on commits,
          MaxPushes,     \* pushes, forced or not,
          MaxNightlies,  \* schedules,
          MaxFaults      \* and failures, reruns and forced pushes

VARIABLES head,      \* the head of the default branch
          past,      \* past[c]: commit c and everything it is based on
          pushed,    \* commits whose push has not created its run yet, oldest first
          nightlies, \* schedules so far
          runs,      \* the runs of release-pipeline.yml in the order of their ids
          seen,      \* the head the executing run has read last
          since,     \* history: the heads since the executing run consumed its number
          public,    \* the sources of the automatic releases, in order of publication
          dropped,   \* history: releases that a forced push took off the branch
          faults

vars == <<head, past, pushed, nightlies, runs, seen, since, public, dropped, faults>>

Shas == 1..MaxCommits
Events == {"push", "schedule"}
Verdicts == {"published", "reused", "superseded", "failed", "cancelled"}
Run == [event : Events, sha : Shas,
        at : {"waiting", "first", "replacement", "second", "replacement again", "reuse",
              "capture", "consume", "draft", "confirm", "publish"} \cup Verdicts]

Executes(r) == runs[r].at \notin Verdicts \cup {"waiting"}
Waits(r) == runs[r].at = "waiting"

Init == /\ head = 1
        /\ past = <<{1}>>
        /\ pushed = <<1>>
        /\ nightlies = 0
        /\ runs = <<>>
        /\ seen = 1
        /\ since = {}
        /\ public = <<>>
        /\ dropped = {}
        /\ faults = 0
-------------------------------------------------------------------------------
(***************************************************************************)
(* The concurrency group of the workflow.                                  *)
(***************************************************************************)
\* Mutant: the run that waits keeps its place, the newer one is cancelled.
MutQueue(all, r) ==
    IF \E other \in DOMAIN all \ {r} : all[other].at = "waiting"
    THEN [all EXCEPT ![r].at = "cancelled"] ELSE [all EXCEPT ![r].at = "waiting"]

\* cancel-in-progress: false spares the run that executes, not the one that waits.
Queue(all, r) ==
    [other \in DOMAIN all |->
        IF other = r THEN [all[r] EXCEPT !.at = "waiting"]
        ELSE IF all[other].at = "waiting" THEN [all[other] EXCEPT !.at = "cancelled"]
        ELSE all[other]]

Create(event, sha) ==
    runs' = Queue(Append(runs, [event |-> event, sha |-> sha, at |-> "waiting"]),
                  Len(runs) + 1)

CreatePushRun == /\ pushed # <<>>
                 /\ Create("push", Head(pushed))
                 /\ pushed' = Tail(pushed)
                 /\ UNCHANGED <<head, past, nightlies, seen, since, public, dropped, faults>>

CreateNightly == /\ nightlies < MaxNightlies
                 /\ nightlies' = nightlies + 1
                 /\ Create("schedule", head)
                 /\ UNCHANGED <<head, past, pushed, seen, since, public, dropped, faults>>

\* Its gates pass, and publish_versioned begins.
Start(r) == /\ Waits(r)
            /\ ~\E other \in DOMAIN runs : Executes(other)
            /\ runs' = [runs EXCEPT ![r].at = "first"]
            /\ since' = {}
            /\ UNCHANGED <<head, past, pushed, nightlies, seen, public, dropped, faults>>
-------------------------------------------------------------------------------
(***************************************************************************)
(* publish_versioned, request by request.                                  *)
(***************************************************************************)
Goes(r, from, to) == runs[r].at = from /\ runs' = [runs EXCEPT ![r].at = to]
Branch == <<head, past, pushed, nightlies, dropped>>

\* Mutant: it is enough that the source is in the history of the branch.
MutAtHead(r, commit) == runs[r].sha \in past[commit]

AtHead(r, commit) == runs[r].sha = commit

\* superseded_candidate reads the head, before and after staging.
ReadHead(r) ==
    /\ seen' = head
    /\ \/ Goes(r, "first", IF AtHead(r, head) THEN "second" ELSE "replacement")
       \/ Goes(r, "second", IF AtHead(r, head) THEN "reuse" ELSE "replacement again")
    /\ UNCHANGED <<Branch, since, public, faults>>

PushRuns(sha) == {s \in DOMAIN runs : runs[s].event = "push" /\ runs[s].sha = sha}

\* The head contains the source, and exactly one run of a push of it exists, a newer one:
\* a head that was pushed, left and pushed again has two.
Replaced(r) == /\ runs[r].sha \in past[seen]
               /\ \E s \in DOMAIN runs : PushRuns(seen) = {s} /\ s > r

\* It is listed, and the head read once more.
GiveWay(r) ==
    /\ runs[r].at \in {"replacement", "replacement again"}
    /\ runs' = [runs EXCEPT ![r].at = IF head = seen /\ Replaced(r)
                                      THEN "superseded" ELSE "failed"]
    /\ UNCHANGED <<Branch, seen, since, public, faults>>

\* A nightly whose source is released already, and verifiably so, reuses that release.
Reuse(r) ==
    /\ runs[r].at = "reuse"
    /\ \/ /\ runs[r].event = "schedule"
          /\ \E i \in DOMAIN public : public[i] = runs[r].sha
          /\ Goes(r, "reuse", "reused")
       \/ Goes(r, "reuse", "capture")
    /\ UNCHANGED <<Branch, seen, since, public, faults>>

\* The head must be the source before the number is consumed.
Capture(r) == /\ seen' = head
              /\ Goes(r, "capture", IF AtHead(r, head) THEN "consume" ELSE "failed")
              /\ UNCHANGED <<Branch, since, public, faults>>

Consume(r) == /\ Goes(r, "consume", "draft")
              /\ since' = {head}
              /\ UNCHANGED <<Branch, seen, public, faults>>

\* The tag, the draft and its assets.
Draft(r) == /\ Goes(r, "draft", "confirm")
            /\ UNCHANGED <<Branch, seen, since, public, faults>>

\* Mutant: the draft is published without another look at the branch.
MutConfirm(r) == /\ Goes(r, "confirm", "publish")
                 /\ UNCHANGED <<Branch, seen, since, public, faults>>

\* confirm_automatic_source: the captured head is still the head.
Confirm(r) == /\ Goes(r, "confirm", IF head = seen THEN "publish" ELSE "failed")
              /\ UNCHANGED <<Branch, seen, since, public, faults>>

Publish(r) == /\ Goes(r, "publish", "published")
              /\ public' = Append(public, runs[r].sha)
              /\ UNCHANGED <<Branch, seen, since, faults>>

Execute(r) == \/ Start(r) \/ ReadHead(r) \/ GiveWay(r) \/ Reuse(r) \/ Capture(r)
              \/ Consume(r) \/ Draft(r) \/ Confirm(r) \/ Publish(r)
-------------------------------------------------------------------------------
\* A commit that is new, or one that exists, becomes the head.
NewCommit(base) == /\ Len(past) < MaxCommits
                   /\ head' = Len(past) + 1
                   /\ past' = Append(past, past[base] \cup {head'})
OldCommit(commit) == head' = commit /\ past' = past

Moved == /\ Len(pushed) + Cardinality({r \in DOMAIN runs : runs[r].event = "push"}) < MaxPushes
         /\ pushed' = Append(pushed, head')
         /\ since' = since \cup {head'}
         /\ UNCHANGED <<nightlies, runs, seen, public>>

\* A push only adds to the branch.
Push == /\ \/ NewCommit(head)
           \/ \E later \in {c \in DOMAIN past : head \in past[c] \ {c}} : OldCommit(later)
        /\ Moved
        /\ UNCHANGED <<dropped, faults>>

Fault == faults < MaxFaults /\ faults' = faults + 1

\* The sources of what is released, or confirmed and about to be.
Released == {public[i] : i \in DOMAIN public}
                \cup {runs[r].sha : r \in {s \in DOMAIN runs : runs[s].at = "publish"}}

\* A forced push leaves the head: for a commit that it is based on, or for another line.
ForcePush == /\ Fault
             /\ \E base \in {c \in DOMAIN past : head \notin past[c]} :
                   NewCommit(base) \/ OldCommit(base)
             /\ dropped' = dropped \cup (Released \ past'[head'])
             /\ Moved

\* A check, a build, a request or the runner fails.
Fail(r) == /\ Fault
           /\ Executes(r)
           /\ runs' = [runs EXCEPT ![r].at = "failed"]
           /\ UNCHANGED <<Branch, seen, since, public>>

\* Somebody reruns an old run; a tag of its own is made for each attempt.
Rerun(r) == /\ Fault
            /\ runs[r].at \in Verdicts
            /\ runs' = Queue(runs, r)
            /\ UNCHANGED <<Branch, seen, since, public>>

Next == \/ CreatePushRun \/ CreateNightly \/ Push \/ ForcePush
        \/ \E r \in DOMAIN runs : Execute(r) \/ Fail(r) \/ Rerun(r)

Spec == Init /\ [][Next]_vars

\* GitHub creates the runs of pushes and executes what waits.
Fairness == WF_vars(CreatePushRun) /\ WF_vars(\E r \in DOMAIN runs : Execute(r))
FairSpec == Spec /\ Fairness
-------------------------------------------------------------------------------
TypeOK == /\ head \in Shas
          /\ past \in Seq(SUBSET Shas) /\ head \in DOMAIN past
          /\ pushed \in Seq(Shas)
          /\ nightlies \in 0..MaxNightlies /\ faults \in 0..MaxFaults
          /\ runs \in Seq(Run)
          /\ \A r, s \in DOMAIN runs : (Executes(r) /\ Executes(s)) \/ (Waits(r) /\ Waits(s))
                                       => r = s
          /\ seen \in Shas /\ since \subseteq Shas
          /\ public \in Seq(Shas) /\ dropped \subseteq Shas

\* An automatic release is older than one before it only if a forced push took that one off
\* the branch: reruns of old runs, and the requests between a look at the branch and the
\* publication, do not reorder releases.  After a forced push back to an older commit the
\* code does release that one: a run only compares its source with the head.
AutomaticOrder ==
    \A i, j \in DOMAIN public :
        i < j /\ public[j] \in past[public[i]] \ {public[i]} => public[i] \in dropped

\* What is published was the head at an instant after its number was consumed; how far
\* the head may have moved by then is only what happens between two requests.
PublishedWasHead ==
    [][\A r \in DOMAIN runs : runs[r].at = "publish" /\ runs'[r].at = "published"
          => runs[r].sha \in since]_vars

\* The last push is released in the end, whatever waiting runs the group cancelled and
\* whoever gave way, unless a run fails or a person interferes.
HeadReleased == [](faults = 0) => <>[](\E i \in DOMAIN public : public[i] = head)
===============================================================================

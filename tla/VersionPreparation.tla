-------------------------- MODULE VersionPreparation ---------------------------
(***************************************************************************)
(* Preparing the next base version (prepare-version --pr).  Several        *)
(* developers run the command at the same time from their own checkouts.   *)
(* Each chooses a version, projects it onto the current tree, pushes the   *)
(* result to the branch of that version without force, and opens a pull    *)
(* request, resuming what an earlier or a failed call left behind.         *)
(* Meanwhile people develop, edit and merge preparation branches, release  *)
(* and tag.                                                                *)
(***************************************************************************)
EXTENDS Integers, Sequences, FiniteSets

CONSTANTS Developers,
          Versions,    \* bound: the base versions <<major, minor, patch>> in play
          Foreign,     \* those with a tag that the default branch does not contain
          First,       \* the version the default branch starts with
          MaxCommits   \* bound on the commits of the repository

None == 0   \* no branch, no pull request
Bumps == {"next-patch", "patch", "minor", "major"}
ASSUME VersionAssumption == /\ First \in Versions /\ Versions \subseteq Nat \X Nat \X Nat
                            /\ Foreign \subseteq Versions
                            /\ MaxCommits \in Nat \ {0}

VARIABLES objects,  \* commits: their history, base version, other content, author
          main,     \* the default branch
          topic,    \* topic[v]: the branch release/version-v, or None
          open,     \* open[v]: its pull request is open
          tag,      \* tag[v]: where the commit tagged as stable version v is: merged into the
                \* default branch (which never loses a commit), elsewhere, or none
          call      \* call[d]: the developer's call of prepare and its local variables

remote == <<objects, main, topic, open, tag>>
vars == <<remote, call>>

Ids == 1..MaxCommits
Commit == [history : SUBSET Ids, base : Versions, content : SUBSET Ids, edit : BOOLEAN]
Id == Len(objects) + 1   \* of the next commit

\* merged: the stable tags in the checkout's history; listed: the head of the open
\* pull request found, or None; seen: the head of the branch found, or None.
NoCall == [pc |-> "idle", head |-> 1, merged |-> {}, target |-> First,
           listed |-> None, seen |-> None]

Init == /\ objects = <<[history |-> {1}, base |-> First, content |-> {}, edit |-> FALSE]>>
        /\ main = 1
        /\ topic = [v \in Versions |-> None]
        /\ open = [v \in Versions |-> FALSE]
        /\ tag = [v \in Versions |-> IF v \in Foreign THEN "elsewhere" ELSE "none"]
        /\ call = [d \in Developers |-> NoCall]

History(c) == objects[c].history
-------------------------------------------------------------------------------
(***************************************************************************)
(* choose_version: at most one version, none if the request is refused.    *)
(***************************************************************************)
Less(v, w) == \/ v[1] < w[1]
              \/ v[1] = w[1] /\ v[2] < w[2]
              \/ v[1] = w[1] /\ v[2] = w[2] /\ v[3] < w[3]

Newest(tags) == {v \in tags : \A w \in tags : ~Less(v, w)}
NextPatch(v) == <<v[1], v[2], v[3] + 1>>

Bumped(current, tags, bump) ==
    CASE bump = "major" -> {<<current[1] + 1, 0, 0>>}
      [] bump = "minor" -> {<<current[1], current[2] + 1, 0>>}
      [] bump = "patch" -> {NextPatch(current)}
      [] OTHER -> IF tags = {} THEN {current}
                  ELSE {IF Less(v, current) THEN current ELSE NextPatch(v) : v \in Newest(tags)}

\* The first patch that is not occupied.
FirstFree(v, occupied) ==
    {w \in {<<v[1], v[2], patch>> : patch \in v[3]..(v[3] + Cardinality(occupied))} :
        /\ w \notin occupied
        /\ \A patch \in v[3]..(w[3] - 1) : <<v[1], v[2], patch>> \in occupied}

\* Mutant: a version older than the current one may be requested.
MutRequested(current, version, occupied) == {version} \ occupied

Requested(current, version, occupied) ==
    IF Less(version, current) THEN {} ELSE {version} \ occupied

ChosenByBump(current, tags, bump, occupied) ==
    LET selected == {v \in Bumped(current, tags, bump) : ~Less(v, current)}
    IN  IF bump = "next-patch" THEN UNION {FirstFree(v, occupied) : v \in selected}
        ELSE selected \ occupied
-------------------------------------------------------------------------------
(***************************************************************************)
(* One call of prepare, remote request by remote request.                  *)
(***************************************************************************)
\* The checkout must be the default branch; the tags are fetched with it.
Fetch(d) == /\ call[d].pc = "idle"
            /\ call' = [call EXCEPT ![d].pc = "choose", ![d].head = main,
                                    ![d].merged = {v \in Versions : tag[v] = "merged"}]
            /\ UNCHANGED remote

\* Every tag the remote advertises is occupied, also one that was not fetched.
Choose(d) ==
    LET current == objects[call[d].head].base
        occupied == {v \in Versions : tag[v] # "none"}
    IN  /\ call[d].pc = "choose"
        /\ \E v \in Versions :
              /\ \/ v \in Requested(current, v, occupied)
                 \/ \E bump \in Bumps :
                       v \in ChosenByBump(current, call[d].merged, bump, occupied)
              /\ call' = [call EXCEPT ![d].pc = "list", ![d].target = v, ![d].merged = {}]
        /\ UNCHANGED remote

ListPullRequests(d) ==
    LET v == call[d].target
    IN  /\ call[d].pc = "list"
        /\ call' = [call EXCEPT ![d].pc = "topic",
                                ![d].listed = IF open[v] THEN topic[v] ELSE None]
        /\ UNCHANGED remote

\* The newest commits two commits have in common; git may take any of them.
MergeBases(a, b) ==
    LET common == History(a) \cap History(b)
    IN  {c \in common : \A e \in common \ {c} : c \notin History(e)}

Tree(c) == [base |-> objects[c].base, content |-> objects[c].content]
Projected(c, version) == [Tree(c) EXCEPT !.base = version]

\* A branch is ours if it is the version projected onto the commit it started from.
VerifyOwnedTopic(c, onto, version) ==
    \E ancestor \in MergeBases(c, onto) : Tree(c) = Projected(ancestor, version)

\* Mutant: the branch is taken as it is.
MutRemoteTopic(d) ==
    LET found == topic[call[d].target]
    IN  /\ call[d].pc = "topic"
        /\ call[d].listed # None => found = call[d].listed
        /\ call' = [call EXCEPT ![d].pc = "write", ![d].seen = found]
        /\ UNCHANGED remote

RemoteTopic(d) ==
    LET found == topic[call[d].target]
    IN  /\ call[d].pc = "topic"
        /\ call[d].listed # None => found = call[d].listed
        /\ found # None => VerifyOwnedTopic(found, call[d].head, call[d].target)
        /\ call' = [call EXCEPT ![d].pc = "write", ![d].seen = found]
        /\ UNCHANGED remote

Unprepared(d) == call[d].listed = None => objects[call[d].head].base # call[d].target
Updated(d) == call[d].seen # None =>
                 Tree(call[d].seen) # Projected(call[d].head, call[d].target)

\* With an open pull request the call ends here.
AfterWrite(d) == [call EXCEPT ![d] = IF @.listed # None THEN NoCall ELSE [@ EXCEPT !.pc = "create"]]

\* Mutant: an existing branch is extended without the current head as second parent.
MutParents(d) == IF call[d].seen = None THEN {call[d].head} ELSE {call[d].seen}
Parents(d) == {call[d].head, call[d].seen} \ {None}

\* git push without force: the branch, if there is one, must be an ancestor.
Push(d) ==
    LET history == {Id} \cup UNION {History(c) : c \in Parents(d)}
        v == call[d].target
    IN  /\ call[d].pc = "write" /\ Unprepared(d) /\ Updated(d)
        /\ Id \in Ids
        /\ topic[v] # None => topic[v] \in history
        /\ objects' = Append(objects, [history |-> history, base |-> v, edit |-> FALSE,
                                       content |-> objects[call[d].head].content])
        /\ topic' = [topic EXCEPT ![v] = Id]
        /\ call' = AfterWrite(d)
        /\ UNCHANGED <<main, open, tag>>

NoPush(d) == /\ call[d].pc = "write" /\ Unprepared(d) /\ ~Updated(d)
             /\ call' = AfterWrite(d)
             /\ UNCHANGED remote

\* GitHub refuses a second pull request, one without a branch and one without commits.
CreatePullRequest(d) ==
    LET v == call[d].target
    IN  /\ call[d].pc = "create"
        /\ ~open[v] /\ topic[v] # None /\ topic[v] \notin History(main)
        /\ open' = [open EXCEPT ![v] = TRUE]
        /\ call' = [call EXCEPT ![d] = NoCall]
        /\ UNCHANGED <<objects, main, topic, tag>>

\* Nothing to prepare, a check refuses, a request fails, or the response is lost.
Stop(d) == /\ call[d].pc # "idle"
           /\ call' = [call EXCEPT ![d] = NoCall]
           /\ UNCHANGED remote

Prepare(d) == \/ Fetch(d) \/ Choose(d) \/ ListPullRequests(d) \/ RemoteTopic(d)
              \/ Push(d) \/ NoPush(d) \/ CreatePullRequest(d) \/ Stop(d)
-------------------------------------------------------------------------------
(***************************************************************************)
(* What other people do.                                                   *)
(***************************************************************************)
Develop == /\ Id \in Ids
           /\ objects' = Append(objects, [objects[main] EXCEPT !.history = @ \cup {Id},
                                                               !.content = @ \cup {Id},
                                                               !.edit = FALSE])
           /\ main' = Id
           /\ UNCHANGED <<topic, open, tag, call>>

EditTopic(v) == /\ Id \in Ids /\ topic[v] # None
                /\ objects' = Append(objects, [objects[topic[v]] EXCEPT !.history = @ \cup {Id},
                                                                        !.content = @ \cup {Id},
                                                                        !.edit = TRUE])
                /\ topic' = [topic EXCEPT ![v] = Id]
                /\ UNCHANGED <<main, open, tag, call>>

\* Three-way merge of the version field; none if both sides changed it differently.
MergedBase(ancestor, ours, theirs) ==
    IF ours = theirs \/ theirs = ancestor THEN {ours}
    ELSE IF ours = ancestor THEN {theirs} ELSE {}

\* A pull request is merged or squashed, and its branch kept or deleted.
MergePullRequest(v) ==
    /\ open[v] /\ Id \in Ids
    /\ \E ancestor \in MergeBases(topic[v], main), squash \in BOOLEAN :
          \E base \in MergedBase(objects[ancestor].base, objects[main].base,
                                 objects[topic[v]].base) :
             objects' = Append(objects,
                [history |-> IF squash THEN History(main) \cup {Id}
                             ELSE History(main) \cup History(topic[v]) \cup {Id},
                 base |-> base, edit |-> FALSE,
                 content |-> objects[main].content \cup objects[topic[v]].content])
    /\ main' = Id
    /\ open' = [open EXCEPT ![v] = FALSE]
    /\ topic' \in {topic, [topic EXCEPT ![v] = None]}
    /\ UNCHANGED <<tag, call>>

DeleteTopic(v) == /\ topic[v] # None
                  /\ topic' = [topic EXCEPT ![v] = None]
                  /\ open' = [open EXCEPT ![v] = FALSE]
                  /\ UNCHANGED <<objects, main, tag, call>>

Release == LET v == objects[main].base
           IN  /\ tag[v] = "none"
               /\ tag' = [tag EXCEPT ![v] = "merged"]
               /\ UNCHANGED <<objects, main, topic, open, call>>

People == \/ Develop \/ Release
          \/ \E v \in Versions : EditTopic(v) \/ MergePullRequest(v) \/ DeleteTopic(v)

Next == (\E d \in Developers : Prepare(d)) \/ People
Spec == Init /\ [][Next]_vars
-------------------------------------------------------------------------------
(***************************************************************************)
(* Types; a pull request has a branch, and a command that found one writes *)
(* with the branch it verified as the pull request's head.                 *)
(***************************************************************************)
TypeOK ==
    LET commits == 1..Len(objects)
    IN  /\ objects \in Seq(Commit) /\ commits \subseteq Ids
        /\ \A c \in commits : History(c) \subseteq 1..c
        /\ main \in commits
        /\ topic \in [Versions -> commits \cup {None}]
        /\ open \in [Versions -> BOOLEAN]
        /\ \A v \in Versions : open[v] => topic[v] # None
        /\ tag \in [Versions -> {"none", "merged", "elsewhere"}]
        /\ call \in [Developers ->
                       [pc : {"idle", "choose", "list", "topic", "write", "create"},
                        head : commits, merged : SUBSET Versions, target : Versions,
                        listed : commits \cup {None}, seen : commits \cup {None}]]
        /\ \A d \in Developers : call[d].pc = "write" /\ call[d].listed # None
                                   => call[d].seen = call[d].listed

Edits(c) == {e \in History(c) : objects[e].edit}

(***************************************************************************)
(* No call makes a change that a person pushed to a preparation branch     *)
(* disappear from it: not from its history, which a push without force     *)
(* keeps, and not from its tree, which every update replaces               *)
(* (verify_owned_topic before the push).                                   *)
(***************************************************************************)
EditsKept == \A v \in Versions :
                topic[v] # None => Edits(topic[v]) \subseteq objects[topic[v]].content

(***************************************************************************)
(* The command never locks itself out: a branch that only calls have       *)
(* written, and of which nothing was merged, is accepted by the next call  *)
(* from the default branch, wherever the last one stopped, however far the *)
(* default branch has moved and whichever merge base git takes             *)
(* (verify_owned_topic, commit-tree with two parents).                     *)
(***************************************************************************)
Resumable ==
    \A v \in Versions :
       /\ topic[v] # None /\ Edits(topic[v]) = {}
       /\ \A c \in History(topic[v]) \cap History(main) : objects[c].base # v
       => \A ancestor \in MergeBases(topic[v], main) :
             Tree(topic[v]) = Projected(ancestor, v)

(***************************************************************************)
(* The base version of the default branch never goes down, though calls    *)
(* from outdated checkouts race with merges of other versions              *)
(* ("Preparation must not downgrade the active release base").             *)
(***************************************************************************)
BaseNeverDown == [][~Less(objects'[main'].base, objects[main].base)]_vars
===============================================================================

----------------------- MODULE VersionPreparationProofs -----------------------
(***************************************************************************)
(* Proofs about VersionPreparation, for every set of developers, versions  *)
(* and foreign tags and every number of commits.                           *)
(***************************************************************************)
EXTENDS VersionPreparation, TLAPS

Commits == 1..Len(objects)
Content(c) == objects[c].content
Base(c) == objects[c].base

(***************************************************************************)
(* The order of versions.                                                  *)
(***************************************************************************)
LEMMA LessOrder ==
    ASSUME NEW u \in Versions, NEW v \in Versions, NEW w \in Versions
    PROVE  /\ ~Less(v, v)
           /\ ~Less(v, u) /\ ~Less(w, v) => ~Less(w, u)
<1>1. /\ u[1] \in Nat /\ u[2] \in Nat /\ u[3] \in Nat
      /\ v[1] \in Nat /\ v[2] \in Nat /\ v[3] \in Nat
      /\ w[1] \in Nat /\ w[2] \in Nat /\ w[3] \in Nat
  BY VersionAssumption
<1> QED BY <1>1 DEF Less

\* The search for a free patch starts at a version that is not older than the current one.
LEMMA FreeNotOlder ==
    ASSUME NEW current \in Versions, NEW selected \in Nat \X Nat \X Nat, NEW occupied,
           NEW v \in Versions, v \in FirstFree(selected, occupied), ~Less(selected, current)
    PROVE  ~Less(v, current)
<1>1. PICK patch \in selected[3]..(selected[3] + Cardinality(occupied)) :
        v = <<selected[1], selected[2], patch>>
  BY DEF FirstFree
<1>2. /\ current[1] \in Nat /\ current[2] \in Nat /\ current[3] \in Nat
      /\ v[1] \in Nat /\ v[2] \in Nat /\ v[3] \in Nat
      /\ selected[1] \in Nat /\ selected[2] \in Nat /\ selected[3] \in Nat
  BY VersionAssumption
<1>3. v[1] = selected[1] /\ v[2] = selected[2] /\ v[3] = patch
  BY <1>1
<1> QED BY <1>1, <1>2, <1>3 DEF Less

LEMMA BumpedVersion ==
    ASSUME NEW current \in Versions, NEW tags \in SUBSET Versions, NEW bump,
           NEW v \in Bumped(current, tags, bump)
    PROVE  v \in Nat \X Nat \X Nat
<1>1. current \in Nat \X Nat \X Nat /\ tags \subseteq Nat \X Nat \X Nat
  BY VersionAssumption
<1>2. \A w \in Nat \X Nat \X Nat : NextPatch(w) \in Nat \X Nat \X Nat
  BY DEF NextPatch
<1>3. CASE bump \in {"major", "minor", "patch"}
  BY <1>1, <1>2, <1>3 DEF Bumped
<1>4. CASE bump \notin {"major", "minor", "patch"}
  BY <1>1, <1>2, <1>4 DEF Bumped, Newest
<1> QED BY <1>3, <1>4

\* A version that a call may choose is not older than the one it started from.
LEMMA ChosenNotOlder ==
    ASSUME NEW current \in Versions, NEW tags \in SUBSET Versions, NEW bump, NEW occupied,
           NEW v \in Versions,
           \/ v \in Requested(current, v, occupied)
           \/ v \in ChosenByBump(current, tags, bump, occupied)
    PROVE  ~Less(v, current)
<1>1. CASE v \in Requested(current, v, occupied)
  BY <1>1 DEF Requested
<1>2. CASE v \in ChosenByBump(current, tags, bump, occupied)
  <2>1. CASE bump = "next-patch"
    <3>1. PICK selected \in Bumped(current, tags, bump) :
            ~Less(selected, current) /\ v \in FirstFree(selected, occupied)
      BY <1>2, <2>1 DEF ChosenByBump
    <3> QED BY <3>1, BumpedVersion, FreeNotOlder
  <2>2. CASE bump # "next-patch"
    BY <1>2, <2>2 DEF ChosenByBump
  <2> QED BY <2>1, <2>2
<1> QED BY <1>1, <1>2
-------------------------------------------------------------------------------
(***************************************************************************)
(* The inductive invariant.  Along the history of a commit nothing is      *)
(* lost: what an ancestor holds the commit holds, its base version is not  *)
(* older, and an edit it descends from is in its tree.  A call that is     *)
(* about to write has a target that is not older than the head it started  *)
(* from, and the branch it verified adds nothing to that head.             *)
(***************************************************************************)
Sound == \A c \in Commits : \A a \in History(c) :
            /\ Content(a) \subseteq Content(c)
            /\ ~Less(Base(c), Base(a))
            /\ objects[a].edit => a \in Content(c)

CallOwns(d) ==
    /\ call[d].pc \in {"list", "topic", "write"} => ~Less(call[d].target, Base(call[d].head))
    /\ call[d].pc = "write" /\ call[d].seen # None =>
          /\ Base(call[d].seen) = call[d].target
          /\ Content(call[d].seen) \subseteq Content(call[d].head)
CallsOwn == \A d \in Developers : CallOwns(d)

\* The parts of TypeOK: the repository, and the calls.
ObjectsTyped == /\ objects \in Seq(Commit) /\ Commits \subseteq Ids
                /\ \A c \in Commits : History(c) \subseteq 1..c
BranchesTyped == /\ main \in Commits
                 /\ topic \in [Versions -> Commits \cup {None}]
                 /\ open \in [Versions -> BOOLEAN]
                 /\ \A v \in Versions : open[v] => topic[v] # None
                 /\ tag \in [Versions -> {"none", "merged", "elsewhere"}]
Calls == [pc : {"idle", "choose", "list", "topic", "write", "create"},
          head : Commits, merged : SUBSET Versions, target : Versions,
          listed : Commits \cup {None}, seen : Commits \cup {None}]
CallsTyped == /\ call \in [Developers -> Calls]
              /\ \A d \in Developers : call[d].pc = "write" /\ call[d].listed # None
                                           => call[d].seen = call[d].listed

LEMMA TypeParts == TypeOK <=> ObjectsTyped /\ BranchesTyped /\ CallsTyped
BY DEF TypeOK, ObjectsTyped, BranchesTyped, CallsTyped, Calls, Commits

IInv == ObjectsTyped /\ BranchesTyped /\ CallsTyped /\ Sound /\ CallsOwn

\* Nothing is pushed over: the commits there were are there, unchanged.
Extends == /\ Commits \subseteq Commits'
           /\ \A c \in Commits : objects'[c] = objects[c]
-------------------------------------------------------------------------------
\* A new commit keeps the commits sound if it holds what its ancestors hold.
LEMMA CommitAppended ==
    ASSUME ObjectsTyped, Sound, Id \in Ids, NEW new \in Commit,
           objects' = Append(objects, new),
           new.history \subseteq 1..Id, new.edit => Id \in new.content,
           \A a \in new.history \ {Id} :
              /\ Content(a) \subseteq new.content
              /\ ~Less(new.base, Base(a))
              /\ objects[a].edit => a \in new.content
    PROVE  ObjectsTyped' /\ Sound' /\ Extends /\ Id \in Commits'
<1>1. Len(objects) \in Nat /\ objects \in Seq(Commit)
  BY DEF ObjectsTyped
<1>2. objects' \in Seq(Commit) /\ Len(objects') = Id
  BY <1>1 DEF Id
<1>3. Commits' = Commits \cup {Id} /\ Id \notin Commits /\ Id \in Nat
  BY <1>1, <1>2 DEF Commits, Id
<1>4. objects'[Id] = new /\ \A c \in Commits : objects'[c] = objects[c]
  BY <1>1 DEF Commits, Id
<1>5. new.base \in Versions
  BY DEF Commit
<1>6. \A a \in 1..Id : a = Id \/ a \in Commits
  BY <1>1 DEF Commits, Id
<1>7. ObjectsTyped'
  BY <1>2, <1>3, <1>4 DEF ObjectsTyped, History
<1>8. ASSUME NEW c \in Commits', NEW a \in History(c)'
      PROVE  /\ Content(a)' \subseteq Content(c)'
             /\ ~Less(Base(c)', Base(a)')
             /\ objects'[a].edit => a \in Content(c)'
  <2>1. CASE c \in Commits
    <3>1. a \in History(c) /\ a \in Commits
      BY <2>1, <1>4, <1>1, <1>8 DEF History, ObjectsTyped, Commits
    <3> QED BY <2>1, <3>1, <1>4 DEF Sound, Content, Base
  <2>2. CASE c = Id /\ a # Id
    <3>1. a \in new.history \ {Id} /\ a \in Commits
      BY <2>2, <1>4, <1>6, <1>8 DEF History
    <3> QED BY <2>2, <3>1, <1>4 DEF Content, Base
  <2>3. CASE c = Id /\ a = Id
    BY <2>3, <1>4, <1>5, LessOrder DEF Content, Base
  <2> QED BY <1>3, <2>1, <2>2, <2>3
<1>9. Sound'
  BY <1>8 DEF Sound
<1> QED BY <1>3, <1>4, <1>7, <1>9 DEF Extends

\* Calls that go on, end, or reach the pull request stay typed and sound.
LEMMA CallsKept ==
    ASSUME ObjectsTyped, CallsTyped, CallsOwn, Extends,
           call' \in [Developers -> Calls'],
           \A d \in Developers : \/ call'[d] = call[d]
                                 \/ call'[d].pc \in {"idle", "choose", "create"}
    PROVE  CallsTyped' /\ CallsOwn'
<1>1. CallsTyped'
  BY DEF CallsTyped
<1>2. ASSUME NEW d \in Developers PROVE CallOwns(d)'
  <2>1. CASE call'[d] = call[d]
    <3>1. call[d] \in Calls /\ CallOwns(d)
      BY DEF CallsTyped, CallsOwn
    <3>2. call[d].head \in Commits /\ call[d].seen \in Commits \cup {None}
      BY <3>1 DEF Calls
    <3>3. objects'[call[d].head] = objects[call[d].head]
      BY <3>2 DEF Extends
    <3>4. call[d].seen # None => objects'[call[d].seen] = objects[call[d].seen]
      BY <3>2 DEF Extends
    <3> QED BY <2>1, <3>1, <3>3, <3>4 DEF CallOwns, Base, Content
  <2>2. CASE call'[d].pc \in {"idle", "choose", "create"}
    BY <2>2 DEF CallOwns
  <2> QED BY <2>1, <2>2
<1> QED BY <1>1, <1>2 DEF CallsOwn

LEMMA CallsGrow == ASSUME Extends PROVE Calls \subseteq Calls'
BY DEF Extends, Calls

LEMMA NoCallTyped == ASSUME ObjectsTyped, BranchesTyped PROVE NoCall \in Calls
<1>1. 1 \in Commits
  BY DEF BranchesTyped, Commits, ObjectsTyped
<1> QED BY <1>1, VersionAssumption DEF NoCall, Calls

\* The same with no change of the calls, and at the end of a write.
LEMMA SameCalls ==
    ASSUME ObjectsTyped, CallsTyped, CallsOwn, Extends, call' = call
    PROVE  CallsTyped' /\ CallsOwn'
<1>1. call' \in [Developers -> Calls']
  BY CallsGrow DEF CallsTyped
<1> QED BY <1>1, CallsKept

LEMMA Written ==
    ASSUME IInv, Extends, NEW d \in Developers, call' = AfterWrite(d)
    PROVE  CallsTyped' /\ CallsOwn'
<1>1. call \in [Developers -> Calls] /\ NoCall \in Calls
  BY NoCallTyped DEF IInv, CallsTyped
<1>2. [call[d] EXCEPT !.pc = "create"] \in Calls /\ [call[d] EXCEPT !.pc = "create"].pc = "create"
  BY <1>1 DEF Calls
<1>3. call' \in [Developers -> Calls]
  BY <1>1, <1>2 DEF AfterWrite
<1>4. call'[d].pc \in {"idle", "create"} /\ \A e \in Developers \ {d} : call'[e] = call[e]
  BY <1>1, <1>2 DEF AfterWrite, NoCall
<1> QED BY <1>3, <1>4, CallsGrow, CallsKept DEF IInv
-------------------------------------------------------------------------------
(***************************************************************************)
(* The steps of a call.                                                    *)
(***************************************************************************)
LEMMA InitIInv == Init => IInv
<1> SUFFICES ASSUME Init PROVE IInv
  OBVIOUS
<1> DEFINE first == [history |-> {1}, base |-> First, content |-> {}, edit |-> FALSE]
<1>1. objects = <<first>> /\ First \in Versions /\ 1 \in Ids
  BY VersionAssumption DEF Init, Ids
<1>2. first \in Commit
  BY <1>1 DEF Commit
<1>3. objects \in Seq(Commit) /\ Commits = {1} /\ objects[1] = first
  BY <1>1, <1>2 DEF Commits
<1>4. ObjectsTyped
  BY <1>1, <1>3 DEF ObjectsTyped, History
<1>5. BranchesTyped
  BY <1>3 DEF Init, BranchesTyped
<1>6. CallsTyped /\ CallsOwn
  <2>1. NoCall \in Calls
    BY <1>4, <1>5, NoCallTyped
  <2>2. call = [d \in Developers |-> NoCall]
    BY DEF Init
  <2> QED BY <2>1, <2>2 DEF CallsTyped, CallsOwn, CallOwns, NoCall
<1>7. Sound
  BY <1>1, <1>3, LessOrder DEF Sound, History, Content, Base
<1> QED BY <1>4, <1>5, <1>6, <1>7 DEF IInv

LEMMA BaseTyped == ASSUME IInv, NEW c \in Commits PROVE Base(c) \in Versions
<1>1. objects[c] \in Commit
  BY DEF IInv, ObjectsTyped, Commits
<1> QED BY <1>1 DEF Commit, Base

\* A step of a call that only changes the call.
LEMMA RemoteKept ==
    ASSUME IInv, UNCHANGED remote
    PROVE  ObjectsTyped' /\ BranchesTyped' /\ Sound' /\ Commits' = Commits /\ Calls' = Calls
<1> USE DEF remote
<1>1. Commits' = Commits
  BY DEF Commits
<1>2. ObjectsTyped'
  BY <1>1 DEF IInv, ObjectsTyped, History
<1>3. BranchesTyped'
  BY <1>1 DEF IInv, BranchesTyped
<1>4. Sound'
  BY <1>1 DEF IInv, Sound, History, Content, Base
<1> QED BY <1>1, <1>2, <1>3, <1>4 DEF Calls

LEMMA CallStep ==
    ASSUME IInv, UNCHANGED remote, NEW d \in Developers, NEW new \in Calls,
           call' = [call EXCEPT ![d] = new],
           new.pc = "write" /\ new.listed # None => new.seen = new.listed,
           new.pc \in {"list", "topic", "write"} => ~Less(new.target, Base(new.head)),
           new.pc = "write" /\ new.seen # None => /\ Base(new.seen) = new.target
                                                  /\ Content(new.seen) \subseteq Content(new.head)
    PROVE  IInv'
<1>1. call \in [Developers -> Calls] /\ CallsOwn /\ CallsTyped
  BY DEF IInv, CallsTyped
<1>2. call' \in [Developers -> Calls] /\ \A e \in Developers :
        call'[e] = IF e = d THEN new ELSE call[e]
  BY <1>1
<1>3. CallsTyped'
  BY <1>1, <1>2, RemoteKept DEF CallsTyped
<1>4. \A e \in Developers : CallOwns(e)'
  BY <1>1, <1>2 DEF CallsOwn, CallOwns, Base, Content, remote
<1> QED BY <1>3, <1>4, RemoteKept DEF IInv, CallsOwn

LEMMA FetchStep == ASSUME IInv, NEW d \in Developers, Fetch(d) PROVE IInv'
<1> DEFINE new == [call[d] EXCEPT !.pc = "choose", !.head = main,
                                  !.merged = {v \in Versions : tag[v] = "merged"}]
<1>1. call[d] \in Calls /\ call \in [Developers -> Calls] /\ main \in Commits
  BY DEF IInv, CallsTyped, BranchesTyped
<1>2. new \in Calls /\ new.pc = "choose"
  BY <1>1 DEF Calls
<1>3. UNCHANGED remote /\ call' = [call EXCEPT ![d] = new]
  BY <1>1 DEF Fetch, Calls
<1> QED BY <1>2, <1>3, CallStep

LEMMA ChooseStep == ASSUME IInv, NEW d \in Developers, Choose(d) PROVE IInv'
<1> DEFINE current == Base(call[d].head)
           occupied == {v \in Versions : tag[v] # "none"}
           new(v) == [call[d] EXCEPT !.pc = "list", !.target = v, !.merged = {}]
<1>1. call[d] \in Calls /\ call \in [Developers -> Calls]
  BY DEF IInv, CallsTyped
<1>2. current \in Versions /\ call[d].merged \in SUBSET Versions
  <2>1. call[d].head \in Commits /\ call[d].merged \in SUBSET Versions
    BY <1>1 DEF Calls
  <2>2. objects \in Seq(Commit)
    BY DEF IInv, ObjectsTyped
  <2>3. objects[call[d].head] \in Commit
    BY <2>1, <2>2 DEF Commits
  <2> QED BY <2>1, <2>3 DEF Commit, Base
<1>3. PICK v \in Versions :
        /\ \/ v \in Requested(current, v, occupied)
           \/ \E bump \in Bumps : v \in ChosenByBump(current, call[d].merged, bump, occupied)
        /\ call' = [call EXCEPT ![d].pc = "list", ![d].target = v, ![d].merged = {}]
  BY DEF Choose, Base
<1>4. ~Less(v, current)
  BY <1>2, <1>3, ChosenNotOlder
<1>5. new(v) \in Calls /\ new(v).pc = "list" /\ new(v).target = v /\ new(v).head = call[d].head
  BY <1>1 DEF Calls
<1>6. UNCHANGED remote /\ call' = [call EXCEPT ![d] = new(v)]
  BY <1>1, <1>3 DEF Choose, Calls
<1> HIDE DEF new
<1> QED BY <1>4, <1>5, <1>6, CallStep

LEMMA ListStep == ASSUME IInv, NEW d \in Developers, ListPullRequests(d) PROVE IInv'
<1> DEFINE found == IF open[call[d].target] THEN topic[call[d].target] ELSE None
           new == [call[d] EXCEPT !.pc = "topic", !.listed = found]
<1>1. call[d] \in Calls /\ call \in [Developers -> Calls] /\ CallOwns(d)
  BY DEF IInv, CallsTyped, CallsOwn
<1>2. found \in Commits \cup {None}
  BY <1>1 DEF IInv, BranchesTyped, Calls
<1>3. new \in Calls /\ new.pc = "topic" /\ new.target = call[d].target /\ new.head = call[d].head
  BY <1>1, <1>2 DEF Calls
<1>4. ~Less(new.target, Base(new.head))
  BY <1>1, <1>3 DEF CallOwns, ListPullRequests
<1>5. UNCHANGED remote /\ call' = [call EXCEPT ![d] = new]
  BY <1>1 DEF ListPullRequests, Calls
<1> HIDE DEF new
<1> QED BY <1>3, <1>4, <1>5, CallStep

\* A branch the command takes for its own adds nothing to the head it is merged with.
LEMMA OwnedAddsNothing ==
    ASSUME IInv, NEW c \in Commits, NEW onto \in Commits, NEW version,
           VerifyOwnedTopic(c, onto, version)
    PROVE  Base(c) = version /\ Content(c) \subseteq Content(onto)
<1>1. PICK ancestor \in MergeBases(c, onto) : Tree(c) = Projected(ancestor, version)
  BY DEF VerifyOwnedTopic
<1>2. ancestor \in History(onto)
  BY <1>1 DEF MergeBases
<1>3. Base(c) = version /\ Content(c) = Content(ancestor)
  BY <1>1 DEF Tree, Projected, Base, Content
<1> QED BY <1>2, <1>3 DEF IInv, Sound

LEMMA RemoteTopicStep == ASSUME IInv, NEW d \in Developers, RemoteTopic(d) PROVE IInv'
<1> DEFINE found == topic[call[d].target]
           new == [call[d] EXCEPT !.pc = "write", !.seen = found]
<1>1. call[d] \in Calls /\ call \in [Developers -> Calls] /\ CallOwns(d)
  BY DEF IInv, CallsTyped, CallsOwn
<1>2. found \in Commits \cup {None} /\ call[d].head \in Commits
  BY <1>1 DEF IInv, BranchesTyped, Calls
<1>3. /\ new \in Calls /\ new.pc = "write" /\ new.seen = found
      /\ new.target = call[d].target /\ new.head = call[d].head /\ new.listed = call[d].listed
  BY <1>1, <1>2 DEF Calls
<1>4. ~Less(new.target, Base(new.head))
  BY <1>1, <1>3 DEF CallOwns, RemoteTopic
<1>5. new.listed # None => new.seen = new.listed
  BY <1>3 DEF RemoteTopic
<1>6. ASSUME found # None
      PROVE  Base(found) = call[d].target /\ Content(found) \subseteq Content(call[d].head)
  BY <1>2, <1>6, OwnedAddsNothing DEF RemoteTopic
<1>7. UNCHANGED remote /\ call' = [call EXCEPT ![d] = new]
  BY <1>1 DEF RemoteTopic, Calls
<1> HIDE DEF new
<1> QED BY <1>3, <1>4, <1>5, <1>6, <1>7, CallStep

\* The commit that a push adds: the head, and the branch if there is one, in its history.
LEMMA PushStep == ASSUME IInv, NEW d \in Developers, Push(d) PROVE IInv'
<1> DEFINE v == call[d].target
           head == call[d].head
           history == {Id} \cup UNION {History(c) : c \in Parents(d)}
           new == [history |-> history, base |-> v, edit |-> FALSE, content |-> objects[head].content]
<1>1. /\ call[d] \in Calls /\ CallOwns(d) /\ call[d].pc = "write"
      /\ objects \in Seq(Commit) /\ Id \in Ids
  BY DEF IInv, CallsTyped, CallsOwn, ObjectsTyped, Push
<1>2. /\ head \in Commits /\ v \in Versions /\ call[d].seen \in Commits \cup {None}
      /\ Parents(d) \subseteq Commits
  BY <1>1 DEF Calls, Parents, None
<1>3. objects[head] \in Commit
  BY <1>1, <1>2 DEF Commits
<1>4. Len(objects) \in Nat /\ Id = Len(objects) + 1 /\ Commits = 1..Len(objects)
  BY <1>1 DEF Id, Commits
<1>5. ASSUME NEW a \in history \ {Id} PROVE \E c \in Parents(d) : a \in History(c)
  <2>1. a \in UNION {History(c) : c \in Parents(d)}
    BY <1>5
  <2>2. PICK h \in {History(c) : c \in Parents(d)} : a \in h
    BY <2>1
  <2> QED BY <2>2
<1>6. history \subseteq 1..Id /\ history \subseteq Ids
  <2>1. \A c \in Commits : History(c) \subseteq 1..c
    BY DEF IInv, ObjectsTyped
  <2>2. \A c \in Commits : 1..c \subseteq Commits /\ Commits \subseteq 1..Id
    BY <1>4
  <2>3. Commits \subseteq Ids /\ Id \in 1..Id
    BY <1>4 DEF IInv, ObjectsTyped
  <2>4. ASSUME NEW a \in history PROVE a \in 1..Id /\ a \in Ids
    <3>1. CASE a = Id
      BY <3>1, <1>1, <2>3
    <3>2. CASE a # Id
      BY <3>2, <1>2, <1>5, <2>1, <2>2, <2>3
    <3> QED BY <3>1, <3>2
  <2> QED BY <2>4
<1>7. new \in Commit
  BY <1>2, <1>3, <1>6 DEF Commit
<1>8. ASSUME NEW a \in history \ {Id}
      PROVE  /\ Content(a) \subseteq Content(head)
             /\ ~Less(v, Base(a))
             /\ objects[a].edit => a \in Content(head)
  <2>1. PICK c \in Parents(d) : a \in History(c)
    BY <1>5
  <2>2. c \in Commits /\ Content(a) \subseteq Content(c) /\ ~Less(Base(c), Base(a))
        /\ (objects[a].edit => a \in Content(c))
    BY <1>2, <2>1 DEF IInv, Sound
  <2>3. CASE c = head
    <3>1. a \in Commits
      BY <2>1, <2>2, <1>4, <1>2 DEF IInv, ObjectsTyped
    <3>2. Base(a) \in Versions /\ Base(head) \in Versions
      BY <1>2, <3>1, BaseTyped
    <3>3. ~Less(v, Base(head))
      BY <1>1 DEF CallOwns
    <3> QED BY <1>2, <2>2, <2>3, <3>2, <3>3, LessOrder
  <2>4. CASE c # head
    <3>1. c = call[d].seen /\ c # None
      BY <2>1, <2>4 DEF Parents
    <3> QED BY <1>1, <2>2, <3>1 DEF CallOwns
  <2> QED BY <2>3, <2>4
<1>9. objects' = Append(objects, new) /\ new.edit = FALSE /\ new.base = v
      /\ new.content = Content(head) /\ new.history = history
  BY DEF Push, Content
<1>10. ObjectsTyped' /\ Sound' /\ Extends /\ Id \in Commits'
  <2> HIDE DEF new, history, head, v
  <2> QED BY <1>1, <1>6, <1>7, <1>8, <1>9, CommitAppended DEF IInv
<1>11. BranchesTyped'
  BY <1>2, <1>10 DEF IInv, BranchesTyped, Push, Extends, Commits, None, Id
<1>12. CallsTyped' /\ CallsOwn'
  BY <1>10, Written DEF Push
<1> QED BY <1>10, <1>11, <1>12 DEF IInv

LEMMA SameRemote == ASSUME UNCHANGED remote PROVE Extends
BY DEF remote, Extends, Commits

LEMMA NoPushStep == ASSUME IInv, NEW d \in Developers, NoPush(d) PROVE IInv'
<1>1. UNCHANGED remote /\ call' = AfterWrite(d)
  BY DEF NoPush
<1> QED BY <1>1, RemoteKept, SameRemote, Written DEF IInv

LEMMA StopStep == ASSUME IInv, NEW d \in Developers, Stop(d) PROVE IInv'
<1>1. UNCHANGED remote /\ call' = [call EXCEPT ![d] = NoCall] /\ NoCall \in Calls
  BY NoCallTyped DEF Stop, IInv
<1>2. NoCall.pc = "idle"
  BY DEF NoCall
<1> QED BY <1>1, <1>2, CallStep

LEMMA CreateStep == ASSUME IInv, NEW d \in Developers, CreatePullRequest(d) PROVE IInv'
<1>1. objects' = objects /\ main' = main /\ topic' = topic /\ tag' = tag
  BY DEF CreatePullRequest
<1>2. ObjectsTyped' /\ Sound' /\ Extends /\ Commits' = Commits /\ Calls' = Calls
  BY <1>1 DEF IInv, ObjectsTyped, Sound, Extends, Commits, Calls, History, Content, Base
<1>3. call[d] \in Calls /\ call \in [Developers -> Calls] /\ NoCall \in Calls
  BY NoCallTyped DEF IInv, CallsTyped
<1>4. BranchesTyped'
  BY <1>1, <1>2, <1>3 DEF IInv, BranchesTyped, CreatePullRequest, Calls
<1>5. call' \in [Developers -> Calls'] /\ \A e \in Developers : call'[e] \in {call[e], NoCall}
  BY <1>2, <1>3 DEF CreatePullRequest
<1>6. CallsTyped' /\ CallsOwn'
  BY <1>2, <1>5, CallsKept DEF NoCall, IInv
<1> QED BY <1>2, <1>4, <1>6 DEF IInv
-------------------------------------------------------------------------------
(***************************************************************************)
(* The steps of other people.                                              *)
(***************************************************************************)
\* A commit on top of another one, with a change of its own.
LEMMA ChangeAppended ==
    ASSUME IInv, Id \in Ids, NEW c \in Commits, NEW edit \in BOOLEAN,
           objects' = Append(objects, [objects[c] EXCEPT !.history = @ \cup {Id},
                                                         !.content = @ \cup {Id},
                                                         !.edit = edit])
    PROVE  /\ ObjectsTyped' /\ Sound' /\ Extends /\ Id \in Commits'
           /\ objects'[Id].base = Base(c)
<1> DEFINE new == [objects[c] EXCEPT !.history = @ \cup {Id}, !.content = @ \cup {Id}, !.edit = edit]
<1>1. objects \in Seq(Commit) /\ objects[c] \in Commit /\ c \in 1..Len(objects)
      /\ History(c) \subseteq 1..c
  BY DEF IInv, ObjectsTyped, Commits
<1>2. new \in Commit /\ new.history = History(c) \cup {Id} /\ new.content = Content(c) \cup {Id}
      /\ new.base = Base(c)
  BY <1>1 DEF Commit, History, Content, Base
<1>3. new.history \subseteq 1..Id
  BY <1>1, <1>2 DEF Id
<1>4. \A a \in new.history \ {Id} : /\ Content(a) \subseteq new.content
                                    /\ ~Less(new.base, Base(a))
                                    /\ objects[a].edit => a \in new.content
  BY <1>2 DEF IInv, Sound
<1>5. objects' = Append(objects, new) /\ Id \in new.content
  BY <1>2
<1> HIDE DEF new
<1>6. objects'[Id] = new
  BY <1>1, <1>5 DEF Id
<1>7. ObjectsTyped' /\ Sound' /\ Extends /\ Id \in Commits'
  BY <1>2, <1>3, <1>4, <1>5, CommitAppended DEF IInv
<1> QED BY <1>2, <1>6, <1>7

LEMMA DevelopStep == ASSUME IInv, Develop PROVE IInv' /\ ~Less(Base(main)', Base(main))
<1>1. main \in Commits /\ Id \in Ids
  BY DEF IInv, BranchesTyped, Develop
<1>2. ObjectsTyped' /\ Sound' /\ Extends /\ Id \in Commits' /\ objects'[Id].base = Base(main)
  BY <1>1, ChangeAppended DEF Develop
<1>3. BranchesTyped'
  BY <1>2 DEF IInv, BranchesTyped, Develop, Extends
<1>4. CallsTyped' /\ CallsOwn'
  BY <1>2, SameCalls DEF IInv, Develop
<1>5. Base(main)' = Base(main) /\ Base(main) \in Versions
  BY <1>1, <1>2 DEF Develop, Base, IInv, ObjectsTyped, Commits, Commit
<1> QED BY <1>2, <1>3, <1>4, <1>5, LessOrder DEF IInv

LEMMA EditStep == ASSUME IInv, NEW v \in Versions, EditTopic(v) PROVE IInv'
<1>1. topic[v] \in Commits /\ Id \in Ids /\ Id # None
  BY DEF IInv, BranchesTyped, EditTopic, Ids, None
<1>2. ObjectsTyped' /\ Sound' /\ Extends /\ Id \in Commits'
  BY <1>1, ChangeAppended DEF EditTopic
<1>3. BranchesTyped'
  BY <1>1, <1>2 DEF IInv, BranchesTyped, EditTopic, Extends
<1>4. CallsTyped' /\ CallsOwn'
  BY <1>2, SameCalls DEF IInv, EditTopic
<1> QED BY <1>2, <1>3, <1>4 DEF IInv

\* A merge takes the newer base version of the two sides.
LEMMA MergeNotOlder ==
    ASSUME IInv, NEW ours \in Commits, NEW theirs \in Commits,
           NEW ancestor \in MergeBases(theirs, ours),
           NEW base \in MergedBase(Base(ancestor), Base(ours), Base(theirs))
    PROVE  base \in Versions /\ ~Less(base, Base(ours)) /\ ~Less(base, Base(theirs))
<1>1. ancestor \in History(ours) /\ ancestor \in History(theirs)
  BY DEF MergeBases
<1>2. ~Less(Base(ours), Base(ancestor)) /\ ~Less(Base(theirs), Base(ancestor))
  BY <1>1 DEF IInv, Sound
<1>3. Base(ours) \in Versions /\ Base(theirs) \in Versions
  BY BaseTyped
<1>4. ~Less(Base(ours), Base(ours)) /\ ~Less(Base(theirs), Base(theirs))
  BY <1>3, LessOrder
<1>5. CASE Base(ours) = Base(theirs) \/ Base(theirs) = Base(ancestor)
  BY <1>2, <1>3, <1>4, <1>5 DEF MergedBase
<1>6. CASE ~(Base(ours) = Base(theirs) \/ Base(theirs) = Base(ancestor))
  BY <1>2, <1>3, <1>4, <1>6 DEF MergedBase
<1> QED BY <1>5, <1>6

LEMMA MergeStep ==
    ASSUME IInv, NEW v \in Versions, MergePullRequest(v)
    PROVE  IInv' /\ ~Less(Base(main)', Base(main))
<1> DEFINE theirs == topic[v]
           new(base, squash) ==
              [history |-> IF squash THEN History(main) \cup {Id}
                           ELSE History(main) \cup History(theirs) \cup {Id},
               base |-> base, edit |-> FALSE, content |-> Content(main) \cup Content(theirs)]
<1>1. main \in Commits /\ theirs \in Commits /\ Id \in Ids
  BY DEF IInv, BranchesTyped, MergePullRequest
<1>2. PICK ancestor \in MergeBases(theirs, main), squash \in BOOLEAN :
        \E base \in MergedBase(Base(ancestor), Base(main), Base(theirs)) :
           objects' = Append(objects, new(base, squash))
  BY DEF MergePullRequest, Base, Content
<1>3. PICK base \in MergedBase(Base(ancestor), Base(main), Base(theirs)) :
        objects' = Append(objects, new(base, squash))
  BY <1>2
<1>4. base \in Versions /\ ~Less(base, Base(main)) /\ ~Less(base, Base(theirs))
  BY <1>1, MergeNotOlder
<1>5. /\ objects \in Seq(Commit) /\ objects[main] \in Commit /\ objects[theirs] \in Commit
      /\ main \in 1..Len(objects) /\ theirs \in 1..Len(objects)
      /\ History(main) \subseteq 1..main /\ History(theirs) \subseteq 1..theirs
  BY <1>1 DEF IInv, ObjectsTyped, Commits
<1>6. /\ History(main) \subseteq Ids /\ History(theirs) \subseteq Ids
      /\ Content(main) \subseteq Ids /\ Content(theirs) \subseteq Ids
  BY <1>5 DEF Commit, History, Content
<1>7. new(base, squash) \in Commit
  BY <1>1, <1>4, <1>6 DEF Commit
<1>8. /\ new(base, squash).history \subseteq History(main) \cup History(theirs) \cup {Id}
      /\ new(base, squash).base = base /\ new(base, squash).edit = FALSE
      /\ new(base, squash).content = Content(main) \cup Content(theirs)
  OBVIOUS
<1> HIDE DEF new
<1>9. new(base, squash).history \subseteq 1..Id
  BY <1>5, <1>8 DEF Id
<1>10. ASSUME NEW a \in new(base, squash).history \ {Id}
       PROVE  /\ Content(a) \subseteq Content(main) \cup Content(theirs)
              /\ ~Less(base, Base(a))
              /\ objects[a].edit => a \in Content(main) \cup Content(theirs)
  <2>1. PICK c \in {main, theirs} : a \in History(c)
    BY <1>8
  <2>2. /\ c \in Commits /\ Content(a) \subseteq Content(c) /\ ~Less(Base(c), Base(a))
        /\ objects[a].edit => a \in Content(c)
    BY <1>1, <2>1 DEF IInv, Sound
  <2>3. a \in 1..Len(objects)
    BY <1>5, <2>1
  <2>4. Base(a) \in Versions /\ Base(c) \in Versions
    BY <2>2, <2>3, BaseTyped DEF Commits
  <2>5. ~Less(base, Base(a))
    BY <1>4, <2>1, <2>2, <2>4, LessOrder
  <2> QED BY <2>1, <2>2, <2>5
<1>11. ObjectsTyped' /\ Sound' /\ Extends /\ Id \in Commits'
  BY <1>1, <1>3, <1>7, <1>8, <1>9, <1>10, CommitAppended DEF IInv
<1>12. BranchesTyped'
  <2>1. main' = Id /\ open' = [open EXCEPT ![v] = FALSE] /\ tag' = tag
        /\ topic' \in {topic, [topic EXCEPT ![v] = None]}
    BY DEF MergePullRequest
  <2> QED BY <1>11, <2>1 DEF IInv, BranchesTyped, Extends
<1>13. CallsTyped' /\ CallsOwn'
  BY <1>11, SameCalls DEF IInv, MergePullRequest
<1>14. Base(main)' = base
  BY <1>3, <1>5, <1>8 DEF MergePullRequest, Base, Id
<1> QED BY <1>4, <1>11, <1>12, <1>13, <1>14 DEF IInv

LEMMA DeleteStep == ASSUME IInv, NEW v \in Versions, DeleteTopic(v) PROVE IInv'
<1>1. objects' = objects /\ main' = main /\ tag' = tag /\ call' = call
  BY DEF DeleteTopic
<1>2. ObjectsTyped' /\ Sound' /\ Extends /\ Commits' = Commits
  BY <1>1 DEF IInv, ObjectsTyped, Sound, Extends, Commits, History, Content, Base
<1>3. BranchesTyped'
  BY <1>1, <1>2 DEF IInv, BranchesTyped, DeleteTopic
<1> QED BY <1>1, <1>2, <1>3, SameCalls DEF IInv

LEMMA ReleaseStep == ASSUME IInv, Release PROVE IInv'
<1>1. objects' = objects /\ main' = main /\ topic' = topic /\ open' = open /\ call' = call
  BY DEF Release
<1>2. ObjectsTyped' /\ Sound' /\ Extends /\ Commits' = Commits
  BY <1>1 DEF IInv, ObjectsTyped, Sound, Extends, Commits, History, Content, Base
<1>3. BranchesTyped'
  BY <1>1, <1>2 DEF IInv, BranchesTyped, Release
<1> QED BY <1>1, <1>2, <1>3, SameCalls DEF IInv
-------------------------------------------------------------------------------
\* No call changes the base of the default branch, and no one lowers it.
LEMMA Inductive == IInv /\ [Next]_vars => IInv' /\ ~Less(objects'[main'].base, objects[main].base)
<1> SUFFICES ASSUME IInv, [Next]_vars
             PROVE  IInv' /\ ~Less(objects'[main'].base, objects[main].base)
  OBVIOUS
<1>1. main \in Commits /\ Base(main) \in Versions
  BY BaseTyped DEF IInv, BranchesTyped
<1>2. ASSUME objects'[main'] = objects[main] PROVE ~Less(objects'[main'].base, objects[main].base)
  BY <1>1, <1>2, LessOrder DEF Base
<1>3. CASE UNCHANGED vars
  <2>1. UNCHANGED remote /\ call' = call
    BY <1>3 DEF vars
  <2>2. objects'[main'] = objects[main]
    BY <2>1 DEF remote
  <2> QED BY <1>2, <2>1, <2>2, RemoteKept, SameRemote, SameCalls DEF IInv
<1>4. ASSUME NEW d \in Developers, Prepare(d)
      PROVE  IInv' /\ ~Less(objects'[main'].base, objects[main].base)
  <2>1. CASE Push(d)
    <3>1. objects'[main'] = objects[main]
      BY <1>1, <2>1 DEF Push, Commits, IInv, ObjectsTyped
    <3> QED BY <1>2, <2>1, <3>1, PushStep
  <2>2. CASE ~Push(d)
    <3>1. IInv'
      BY <1>4, <2>2, FetchStep, ChooseStep, ListStep, RemoteTopicStep, NoPushStep, CreateStep,
         StopStep DEF Prepare
    <3>2. objects' = objects /\ main' = main
      BY <1>4, <2>2 DEF Prepare, Fetch, Choose, ListPullRequests, RemoteTopic, NoPush,
         CreatePullRequest, Stop, remote
    <3> QED BY <1>2, <3>1, <3>2
  <2> QED BY <2>1, <2>2
<1>5. ASSUME NEW v \in Versions, EditTopic(v)
      PROVE  IInv' /\ ~Less(objects'[main'].base, objects[main].base)
  <2>1. objects'[main'] = objects[main]
    BY <1>1, <1>5 DEF EditTopic, Commits, IInv, ObjectsTyped
  <2> QED BY <1>2, <1>5, <2>1, EditStep
<1>6. ASSUME NEW v \in Versions, DeleteTopic(v)
      PROVE  IInv' /\ ~Less(objects'[main'].base, objects[main].base)
  BY <1>2, <1>6, DeleteStep DEF DeleteTopic
<1>7. CASE Release
  BY <1>2, <1>7, ReleaseStep DEF Release
<1>8. ASSUME NEW v \in Versions, MergePullRequest(v)
      PROVE  IInv' /\ ~Less(objects'[main'].base, objects[main].base)
  BY <1>8, MergeStep DEF Base
<1>9. CASE Develop
  BY <1>9, DevelopStep DEF Base
<1> QED BY <1>3, <1>4, <1>5, <1>6, <1>7, <1>8, <1>9 DEF Next, People

LEMMA Invariant == Spec => []IInv
<1>1. IInv /\ [Next]_vars => IInv'
  BY Inductive
<1> QED BY <1>1, InitIInv, PTL DEF Spec

(***************************************************************************)
(* The repository, its branches and the local variables of every call are  *)
(* typed, and a call that found a pull request writes only with the branch *)
(* it verified as the head of that pull request.                           *)
(***************************************************************************)
THEOREM PreparationTyped == Spec => []TypeOK
<1>1. IInv => TypeOK
  BY TypeParts DEF IInv
<1> QED BY <1>1, Invariant, PTL

(***************************************************************************)
(* A change that a person pushed to a preparation branch stays in its      *)
(* tree, whatever the calls of any number of developers do at any moment   *)
(* between each other's requests.                                          *)
(***************************************************************************)
THEOREM KeepsEdits == Spec => []EditsKept
<1>1. IInv => EditsKept
  <2> SUFFICES ASSUME IInv, NEW v \in Versions, topic[v] # None
               PROVE  Edits(topic[v]) \subseteq objects[topic[v]].content
    BY DEF EditsKept
  <2>1. topic[v] \in Commits
    BY DEF IInv, BranchesTyped
  <2> QED BY <2>1 DEF IInv, Sound, Edits, Content
<1> QED BY <1>1, Invariant, PTL

(***************************************************************************)
(* The base version of the default branch never goes down, in whatever     *)
(* order preparations of any versions are pushed and merged.               *)
(***************************************************************************)
THEOREM BaseGoesUp == Spec => BaseNeverDown
<1>1. IInv /\ [Next]_vars => [~Less(objects'[main'].base, objects[main].base)]_vars
  BY Inductive
<1> QED BY <1>1, Invariant, PTL DEF Spec, BaseNeverDown
-------------------------------------------------------------------------------
(***************************************************************************)
(* A branch that only calls have written.  It is the head of its last      *)
(* push, a commit that was once the tip of the default branch, with        *)
(* nothing beside it but commits of the same version.  Tips of the default *)
(* branch are comparable, and Line collects enough of them.                *)
(***************************************************************************)
Closed == \A c \in Commits : c \in History(c) /\ \A a \in History(c) : History(a) \subseteq History(c)

Beside(t, h, v) == \A c \in History(t) : c \in History(h) \/ Base(c) = v
OwnedBy(t, h, v) == /\ h \in History(t) /\ Beside(t, h, v)
                    /\ Base(t) = v /\ Content(t) = Content(h)

Line(tips) ==
    /\ 1 \in tips /\ main \in tips /\ tips \subseteq History(main)
    /\ \A a, b \in tips : a \in History(b) \/ b \in History(a)
    /\ \A d \in Developers : call[d].head \in tips
    /\ \A v \in Versions : topic[v] # None /\ Edits(topic[v]) = {} =>
          \E h \in tips : OwnedBy(topic[v], h, v)

WritesBeside == \A d \in Developers :
    call[d].pc = "write" /\ call[d].seen # None /\ Edits(call[d].seen) = {} /\ Updated(d) =>
       Beside(call[d].seen, call[d].head, call[d].target)

Lines == \E tips \in SUBSET Commits : Line(tips)
ResumeInv == Closed /\ WritesBeside /\ Lines

\* A common commit of two histories that holds every other one is their merge base.
LEMMA OneMergeBase ==
    ASSUME NEW t, NEW onto, NEW h \in History(t) \cap History(onto),
           \A c \in History(t) \cap History(onto) : c \in History(h),
           NEW ancestor \in MergeBases(t, onto)
    PROVE  ancestor = h
<1>1. /\ ancestor \in History(t) \cap History(onto)
      /\ \A e \in (History(t) \cap History(onto)) \ {ancestor} : ancestor \notin History(e)
  BY DEF MergeBases
<1> QED BY <1>1

\* The invariant answers what a branch needs to be accepted again.
LEMMA OwnedResumes == IInv /\ ResumeInv => Resumable
<1> SUFFICES ASSUME IInv, ResumeInv, NEW v \in Versions,
                    topic[v] # None, Edits(topic[v]) = {},
                    \A c \in History(topic[v]) \cap History(main) : objects[c].base # v,
                    NEW ancestor \in MergeBases(topic[v], main)
             PROVE  Tree(topic[v]) = Projected(ancestor, v)
  BY DEF Resumable
<1>1. PICK tips \in SUBSET Commits : Line(tips)
  BY DEF ResumeInv, Lines
<1>2. PICK h \in tips : OwnedBy(topic[v], h, v)
  BY <1>1 DEF Line
<1>3. h \in History(topic[v]) \cap History(main)
  BY <1>1, <1>2 DEF Line, OwnedBy
<1>4. \A c \in History(topic[v]) \cap History(main) : c \in History(h)
  BY <1>2 DEF OwnedBy, Beside, Base
<1>5. ancestor = h
  BY <1>3, <1>4, OneMergeBase
<1> QED BY <1>2, <1>5 DEF OwnedBy, Tree, Projected, Base, Content
-------------------------------------------------------------------------------
\* Commits that are there keep all that is said of them.
LEMMA CommitKept ==
    ASSUME IInv, Extends, NEW c \in Commits
    PROVE  /\ History(c)' = History(c) /\ History(c) \subseteq Commits
           /\ Base(c)' = Base(c) /\ Content(c)' = Content(c) /\ Edits(c)' = Edits(c)
<1>1. objects'[c] = objects[c]
  BY DEF Extends
<1>2. History(c) \subseteq Commits
  BY DEF IInv, ObjectsTyped, Commits
<1>3. \A e \in History(c) : objects'[e] = objects[e]
  BY <1>2 DEF Extends
<1>4. History(c)' = History(c)
  BY <1>1 DEF History
<1> QED BY <1>1, <1>2, <1>3, <1>4 DEF Base, Content, Edits

LEMMA BesideKept ==
    ASSUME IInv, Extends, NEW t \in Commits, NEW h \in Commits, NEW v
    PROVE  /\ Beside(t, h, v)' = Beside(t, h, v)
           /\ OwnedBy(t, h, v)' = OwnedBy(t, h, v)
<1>1. /\ History(t)' = History(t) /\ History(h)' = History(h) /\ History(t) \subseteq Commits
      /\ Base(t)' = Base(t) /\ Content(t)' = Content(t) /\ Content(h)' = Content(h)
  BY CommitKept
<1>2. \A c \in History(t) : Base(c)' = Base(c)
  BY <1>1, CommitKept
<1>3. Beside(t, h, v)' = Beside(t, h, v)
  BY <1>1, <1>2 DEF Beside
<1> QED BY <1>1, <1>3 DEF OwnedBy

\* A commit with parents that are there.
Parented(new, parents) == /\ objects' = Append(objects, new)
                          /\ new.history = {Id} \cup UNION {History(c) : c \in parents}

LEMMA CommitClosed ==
    ASSUME IInv, Closed, NEW parents \in SUBSET Commits, NEW new, Parented(new, parents),
           NEW id, id = Id
    PROVE  /\ Closed' /\ Extends /\ objects'[id] = new
           /\ Commits' = Commits \cup {id} /\ id \notin Commits
<1>1. objects \in Seq(Commit) /\ Len(objects) \in Nat /\ id = Len(objects) + 1
  BY DEF IInv, ObjectsTyped, Id
<1>2. /\ objects'[id] = new /\ Len(objects') = id
      /\ \A c \in 1..Len(objects) : objects'[c] = objects[c]
  BY <1>1 DEF Parented
<1>3. Extends /\ Commits' = Commits \cup {id} /\ id \notin Commits
  BY <1>1, <1>2 DEF Extends, Commits
<1>4. ASSUME NEW c \in Commits
      PROVE  c \in History(c)' /\ \A a \in History(c)' : History(a)' \subseteq History(c)'
  <2>1. History(c)' = History(c) /\ History(c) \subseteq Commits
    BY <1>3, CommitKept
  <2>2. \A a \in History(c) : History(a)' = History(a)
    BY <1>3, <2>1, CommitKept
  <2> QED BY <2>1, <2>2 DEF Closed
<1>5. History(id)' = {id} \cup UNION {History(c) : c \in parents}
  BY <1>2 DEF History, Parented
<1>6. ASSUME NEW a \in History(id)' PROVE History(a)' \subseteq History(id)'
  <2>1. CASE a = id
    BY <2>1
  <2>2. CASE a # id
    <3>1. a \in UNION {History(c) : c \in parents}
      BY <1>5, <1>6, <2>2
    <3>2. PICK c \in parents : a \in History(c)
      BY <3>1
    <3>3. a \in Commits /\ History(a) \subseteq History(c)
      BY <1>3, <3>2, CommitKept DEF Closed
    <3>4. History(a)' = History(a)
      BY <1>3, <3>3, CommitKept
    <3> QED BY <1>5, <3>2, <3>3, <3>4
  <2> QED BY <2>1, <2>2
<1>7. ASSUME NEW c \in Commits'
      PROVE  c \in History(c)' /\ \A a \in History(c)' : History(a)' \subseteq History(c)'
  <2>1. CASE c \in Commits
    BY <1>4, <2>1
  <2>2. CASE c = id
    BY <1>5, <1>6, <2>2
  <2> QED BY <1>3, <2>1, <2>2
<1>8. Closed'
  BY <1>7 DEF Closed
<1> QED BY <1>2, <1>3, <1>8

LEMMA SameClosed == ASSUME Closed, objects' = objects PROVE Closed' /\ Extends
BY DEF Closed, Extends, Commits, History

\* A call that is not about to write, and one that goes on as it was.
LEMMA BesideCalls ==
    ASSUME IInv, WritesBeside, Extends,
           \A d \in Developers : call'[d] = call[d] \/ call'[d].pc # "write"
    PROVE  WritesBeside'
<1> SUFFICES ASSUME NEW d \in Developers, call'[d].pc = "write", call'[d].seen # None,
                    Edits(call[d].seen)' = {}, Updated(d)'
             PROVE  Beside(call[d].seen, call[d].head, call[d].target)'
  BY DEF WritesBeside
<1>1. call'[d] = call[d] /\ call[d] \in Calls
  BY DEF IInv, CallsTyped
<1>2. PICK seen \in Commits, head \in Commits, target \in Versions :
         seen = call[d].seen /\ head = call[d].head /\ target = call[d].target
  BY <1>1 DEF Calls
<1>3. objects'[seen] = objects[seen] /\ objects'[head] = objects[head]
  BY DEF Extends
<1>4. Updated(d)
  BY <1>1, <1>2, <1>3 DEF Updated, Tree, Projected
<1>5. Edits(seen)' = Edits(seen) /\ Beside(seen, head, target)' = Beside(seen, head, target)
  BY CommitKept, BesideKept
<1>6. Edits(seen)' = {}
  BY <1>1, <1>2
<1>7. Beside(seen, head, target)
  BY <1>1, <1>2, <1>4, <1>5, <1>6 DEF WritesBeside
<1> QED BY <1>1, <1>2, <1>5, <1>7

\* The tips grow with the default branch.
LEMMA LineStep ==
    ASSUME IInv, IInv', Closed', Extends, Lines,
           History(main) \subseteq History(main)',
           \A d \in Developers : call'[d].head \in {call[d].head, main, 1},
           \A v \in Versions : \/ topic'[v] \in {topic[v], None}
                               \/ Edits(topic[v])' # {}
                               \/ \E h \in {call[d].head : d \in Developers} :
                                     OwnedBy(topic[v], h, v)'
    PROVE  Lines'
<1>1. PICK tips \in SUBSET Commits : Line(tips)
  BY DEF Lines
<1>2. PICK m : m = main'
  OBVIOUS
<1>3. PICK more : more = tips \cup {m}
  OBVIOUS
<1>4. m \in Commits' /\ m \in History(m)' /\ more \subseteq Commits'
  BY <1>2, <1>3 DEF IInv, BranchesTyped, Closed, Extends
<1>5. 1 \in more /\ main' \in more /\ more \subseteq History(main)'
  BY <1>1, <1>2, <1>3, <1>4 DEF Line
<1>6. ASSUME NEW a \in more, NEW b \in more PROVE a \in History(b)' \/ b \in History(a)'
  <2>1. CASE a \in tips /\ b \in tips
    BY <1>1, <2>1, CommitKept DEF Line
  <2>2. CASE a = m \/ b = m
    <3>1. more \subseteq History(m)'
      BY <1>2, <1>5
    <3> QED BY <2>2, <3>1
  <2> QED BY <1>3, <2>1, <2>2
<1>7. \A d \in Developers : call'[d].head \in more
  BY <1>1, <1>3 DEF Line
<1>8. ASSUME NEW v \in Versions, topic'[v] # None, Edits(topic[v])' = {}
      PROVE  \E h \in more : OwnedBy(topic[v], h, v)'
  <2>1. CASE topic'[v] = topic[v]
    <3>1. PICK t \in Commits : t = topic[v]
      BY <1>8, <2>1 DEF IInv, BranchesTyped
    <3>2. Edits(t)' = {} /\ Edits(t)' = Edits(t)
      BY <1>8, <2>1, <3>1, CommitKept
    <3>3. PICK h \in tips : OwnedBy(t, h, v)
      BY <1>1, <1>8, <2>1, <3>1, <3>2 DEF Line
    <3>4. OwnedBy(t, h, v)'
      BY <3>3, BesideKept
    <3> QED BY <1>3, <2>1, <3>1, <3>4
  <2>2. CASE topic'[v] \notin {topic[v], None}
    <3>1. PICK h \in {call[d].head : d \in Developers} : OwnedBy(topic[v], h, v)'
      BY <1>8, <2>2
    <3>2. h \in more
      BY <1>1, <1>3 DEF Line
    <3> QED BY <3>1, <3>2
  <2> QED BY <1>8, <2>1, <2>2
<1>9. Line(more)'
  BY <1>5, <1>6, <1>7, <1>8 DEF Line
<1> QED BY <1>4, <1>9 DEF Lines
-------------------------------------------------------------------------------
(***************************************************************************)
(* A branch that a call accepts, but whose tree is not yet the projection  *)
(* of the call's head, is older than that head: of two tips, a branch of   *)
(* the newer one has the older one as its merge base with it.              *)
(***************************************************************************)
LEMMA AcceptedIsOlder ==
    ASSUME IInv, ResumeInv, NEW d \in Developers, RemoteTopic(d),
           NEW found \in Commits, found = topic[call[d].target], Edits(found) = {},
           Tree(found) # Projected(call[d].head, call[d].target)
    PROVE  Beside(found, call[d].head, call[d].target)
<1>1. call[d] \in Calls
  BY DEF IInv, CallsTyped
<1>2. PICK head \in Commits, v \in Versions : head = call[d].head /\ v = call[d].target
  BY <1>1 DEF Calls
<1>3. PICK tips \in SUBSET Commits : Line(tips)
  BY DEF ResumeInv, Lines
<1>4. found # None
  BY DEF Commits, None, IInv, ObjectsTyped
<1>5. PICK h \in tips : OwnedBy(found, h, v)
  BY <1>2, <1>3, <1>4 DEF Line
<1>6. head \in tips /\ h \in Commits
  BY <1>2, <1>3 DEF Line
<1>7. CASE h \in History(head)
  <2>1. History(h) \subseteq History(head)
    BY <1>7 DEF ResumeInv, Closed
  <2> QED BY <1>2, <1>5, <2>1 DEF OwnedBy, Beside
<1>8. CASE h \notin History(head)
  <2>1. head \in History(h)
    BY <1>3, <1>6, <1>8 DEF Line
  <2>2. head \in History(found) /\ head \in History(head)
    BY <1>5, <2>1 DEF OwnedBy, ResumeInv, Closed
  <2>3. PICK ancestor \in MergeBases(found, head) : Tree(found) = Projected(ancestor, v)
    BY <1>2, <1>4 DEF RemoteTopic, VerifyOwnedTopic
  <2>4. ancestor = head
    BY <2>2, <2>3, OneMergeBase
  <2> QED BY <1>2, <2>3, <2>4
<1> QED BY <1>7, <1>8

\* What a push leaves: its head with the commits of its version beside it.
LEMMA PushOwns ==
    ASSUME IInv, ResumeInv, NEW d \in Developers, Push(d)
    PROVE  /\ Closed' /\ Extends
           /\ \E id, h, v : /\ topic' = [topic EXCEPT ![v] = id] /\ h = call[d].head
                            /\ Edits(id)' # {} \/ OwnedBy(id, h, v)'
<1>1. call[d] \in Calls /\ call[d].pc = "write" /\ Updated(d)
  BY DEF IInv, CallsTyped, Push
<1>2. PICK head \in Commits, seen \in Commits \cup {None}, v \in Versions :
         head = call[d].head /\ seen = call[d].seen /\ v = call[d].target
  BY <1>1 DEF Calls
<1>3. PICK new : /\ Parented(new, Parents(d)) /\ new.base = v
                 /\ new.content = Content(head)
  BY <1>2 DEF Push, Parented, Content
<1>4. Parents(d) = {head, seen} \ {None} /\ Parents(d) \subseteq Commits /\ head # None
  BY <1>2 DEF Parents, Commits, None, IInv, ObjectsTyped
<1>5. PICK id : id = Id
  OBVIOUS
<1>6. /\ Closed' /\ Extends /\ objects'[id] = new /\ id \in Commits' /\ id \notin Commits
  BY <1>3, <1>4, <1>5, CommitClosed DEF ResumeInv
<1>7. History(id)' = {id} \cup UNION {History(c) : c \in Parents(d)}
  BY <1>3, <1>5, <1>6 DEF History, Parented
<1>8. head \in History(head) /\ head \in History(id)'
  BY <1>4, <1>7 DEF ResumeInv, Closed
<1>9. Base(id)' = v /\ Content(id)' = Content(head) /\ Content(head)' = Content(head)
  BY <1>3, <1>6, CommitKept DEF Base, Content
<1>10. ASSUME Edits(id)' = {} PROVE Beside(id, head, v)'
  <2>1. ASSUME seen # None PROVE Beside(seen, head, v)
    <3>1. seen \in Commits /\ History(seen) \subseteq History(id)'
      BY <1>2, <1>4, <1>7, <2>1
    <3>2. Edits(seen)' \subseteq Edits(id)'
      BY <3>1, <1>6, CommitKept DEF Edits
    <3>3. Edits(seen) = {}
      BY <1>6, <1>10, <3>1, <3>2, CommitKept
    <3> QED BY <1>1, <1>2, <2>1, <3>3 DEF ResumeInv, WritesBeside
  <2>2. ASSUME NEW c \in History(id)' PROVE c \in History(head)' \/ Base(c)' = v
    <3>1. CASE c = id
      BY <1>9, <3>1
    <3>2. CASE c \in History(head)
      BY <1>6, <3>2, CommitKept
    <3>3. CASE seen # None /\ c \in History(seen)
      <4>1. seen \in Commits /\ c \in Commits /\ (c \in History(head) \/ Base(c) = v)
        BY <1>2, <1>6, <2>1, <3>3, CommitKept DEF Beside
      <4> QED BY <1>6, <4>1, CommitKept
    <3> QED BY <1>4, <1>7, <2>2, <3>1, <3>2, <3>3
  <2> QED BY <2>2 DEF Beside
<1>11. Edits(id)' # {} \/ OwnedBy(id, head, v)'
  BY <1>8, <1>9, <1>10 DEF OwnedBy
<1>12. topic' = [topic EXCEPT ![v] = id]
  BY <1>2, <1>5 DEF Push
<1> QED BY <1>2, <1>6, <1>11, <1>12
-------------------------------------------------------------------------------
\* The calls.
LEMMA ResumeCalls ==
    ASSUME IInv, IInv', ResumeInv, NEW d \in Developers, Prepare(d)
    PROVE  ResumeInv'
<1>1. /\ Closed /\ WritesBeside /\ Lines /\ call \in [Developers -> Calls]
      /\ \A e \in Developers \ {d} : call'[e] = call[e]
  BY DEF ResumeInv, IInv, CallsTyped, Prepare, Fetch, Choose, ListPullRequests, RemoteTopic,
         Push, NoPush, CreatePullRequest, Stop, AfterWrite
<1>2. call'[d].head \in {call[d].head, main, 1}
  <2>1. call[d] \in Calls
    BY <1>1
  <2>2. CASE Push(d) \/ NoPush(d)
    BY <1>1, <2>1, <2>2 DEF Push, NoPush, AfterWrite, NoCall, Calls
  <2>3. CASE CreatePullRequest(d) \/ Stop(d)
    BY <1>1, <2>3 DEF CreatePullRequest, Stop, NoCall
  <2>4. CASE Fetch(d) \/ ListPullRequests(d) \/ RemoteTopic(d)
    BY <1>1, <2>1, <2>4 DEF Fetch, ListPullRequests, RemoteTopic, Calls
  <2>5. CASE Choose(d)
    <3>1. PICK v : call' = [call EXCEPT ![d].pc = "list", ![d].target = v, ![d].merged = {}]
      BY <2>5 DEF Choose
    <3> QED BY <1>1, <2>1, <3>1 DEF Calls
  <2> QED BY <2>2, <2>3, <2>4, <2>5 DEF Prepare
<1>3. main' = main /\ main \in Commits
  BY DEF Prepare, Fetch, Choose, ListPullRequests, RemoteTopic, Push, NoPush,
         CreatePullRequest, Stop, remote, IInv, BranchesTyped
<1>4. CASE Push(d)
  <2>1. Closed' /\ Extends
    BY <1>4, PushOwns
  <2>2. PICK id, h, v : /\ topic' = [topic EXCEPT ![v] = id] /\ h = call[d].head
                        /\ Edits(id)' # {} \/ OwnedBy(id, h, v)'
    BY <1>4, PushOwns
  <2>3. History(main)' = History(main)
    BY <1>3, <2>1, CommitKept
  <2>4. ASSUME NEW w \in Versions
        PROVE  \/ topic'[w] \in {topic[w], None}
               \/ Edits(topic[w])' # {}
               \/ \E g \in {call[e].head : e \in Developers} : OwnedBy(topic[w], g, w)'
    <3>1. CASE w = v
      <4>1. topic'[w] = id
        BY <2>2, <3>1 DEF IInv, BranchesTyped
      <4> QED BY <2>2, <3>1, <4>1
    <3>2. CASE w # v
      BY <2>2, <3>2 DEF IInv, BranchesTyped
    <3> QED BY <3>1, <3>2
  <2>5. Lines'
    BY <1>1, <1>2, <2>1, <2>3, <2>4, LineStep
  <2>6. call'[d].pc # "write"
    BY <1>1, <1>4 DEF Push, AfterWrite, NoCall, Calls
  <2>7. WritesBeside'
    BY <1>1, <2>1, <2>6, BesideCalls
  <2> QED BY <2>1, <2>5, <2>7 DEF ResumeInv
<1>5. CASE ~Push(d)
  <2>1. objects' = objects /\ topic' = topic
    BY <1>5 DEF Prepare, Fetch, Choose, ListPullRequests, RemoteTopic, NoPush,
                CreatePullRequest, Stop, remote
  <2>2. Closed' /\ Extends /\ History(main)' = History(main)
    BY <1>1, <1>3, <2>1, SameClosed DEF History
  <2>3. Lines'
    BY <1>1, <1>2, <2>1, <2>2, LineStep
  <2>4. CASE RemoteTopic(d)
    <3>1. /\ call'[d] = [call[d] EXCEPT !.pc = "write", !.seen = topic[call[d].target]]
          /\ call[d] \in Calls
      BY <1>1, <2>4 DEF RemoteTopic
    <3>2. PICK found \in Commits \cup {None} : found = topic[call[d].target]
      BY <3>1 DEF IInv, BranchesTyped, Calls
    <3>3. /\ call'[d].seen = found /\ call'[d].head = call[d].head
          /\ call'[d].target = call[d].target
      BY <3>1, <3>2 DEF Calls
    <3>4. ASSUME NEW e \in Developers, call'[e].pc = "write", call'[e].seen # None,
                 Edits(call[e].seen)' = {}, Updated(e)'
          PROVE  Beside(call[e].seen, call[e].head, call[e].target)'
      <4>1. CASE e = d
        <5>1. found \in Commits /\ Edits(found)' = {} /\ Edits(found)' = Edits(found)
          BY <2>2, <3>2, <3>3, <3>4, <4>1, CommitKept
        <5>2. Tree(found) # Projected(call[d].head, call[d].target)
          BY <2>1, <3>3, <3>4, <4>1 DEF Updated, Tree, Projected
        <5>3. Beside(found, call[d].head, call[d].target)
          BY <2>4, <3>2, <5>1, <5>2, AcceptedIsOlder
        <5>4. PICK head, v : head = call[d].head /\ v = call[d].target
          OBVIOUS
        <5>5. Beside(found, head, v)' = Beside(found, head, v)
          BY <2>1 DEF Beside, History, Base
        <5> QED BY <3>3, <4>1, <5>3, <5>4, <5>5
      <4>2. CASE e # d
        <5>1. call'[e] = call[e]
          BY <1>1, <4>2
        <5>2. Edits(call[e].seen) = {} /\ Updated(e)
          BY <2>1, <3>4, <5>1 DEF Updated, Tree, Projected, Edits, History
        <5>3. Beside(call[e].seen, call[e].head, call[e].target)
          BY <1>1, <3>4, <5>1, <5>2 DEF WritesBeside
        <5> QED BY <2>1, <5>1, <5>3 DEF Beside, History, Base
      <4> QED BY <4>1, <4>2
    <3>5. WritesBeside'
      BY <3>4 DEF WritesBeside
    <3> QED BY <2>2, <2>3, <3>5 DEF ResumeInv
  <2>5. CASE ~RemoteTopic(d)
    <3>1. call'[d].pc # "write"
      <4>1. call[d] \in Calls
        BY <1>1
      <4>2. CASE NoPush(d)
        BY <1>1, <4>1, <4>2 DEF NoPush, AfterWrite, NoCall, Calls
      <4>3. CASE CreatePullRequest(d) \/ Stop(d)
        BY <1>1, <4>3 DEF CreatePullRequest, Stop, NoCall
      <4>4. CASE Fetch(d) \/ ListPullRequests(d)
        BY <1>1, <4>1, <4>4 DEF Fetch, ListPullRequests, Calls
      <4>5. CASE Choose(d)
        <5>1. PICK v : call' = [call EXCEPT ![d].pc = "list", ![d].target = v, ![d].merged = {}]
          BY <4>5 DEF Choose
        <5> QED BY <1>1, <4>1, <5>1 DEF Calls
      <4> QED BY <1>5, <2>5, <4>2, <4>3, <4>4, <4>5 DEF Prepare
    <3>2. WritesBeside'
      BY <1>1, <2>2, <3>1, BesideCalls
    <3> QED BY <2>2, <2>3, <3>2 DEF ResumeInv
  <2> QED BY <2>4, <2>5
<1> QED BY <1>4, <1>5

\* The others: a branch they write to holds their edit.
LEMMA ResumePeople == ASSUME IInv, IInv', ResumeInv, People PROVE ResumeInv'
<1>1. /\ Closed /\ WritesBeside /\ Lines /\ call' = call /\ main \in Commits
  BY DEF ResumeInv, IInv, BranchesTyped, People, Develop, EditTopic, MergePullRequest,
         DeleteTopic, Release
<1> DEFINE Onward ==
       /\ Closed' /\ Extends /\ History(main) \subseteq History(main)'
       /\ \A v \in Versions : topic'[v] \in {topic[v], None} \/ Edits(topic[v])' # {}
<1>2. Onward => ResumeInv'
  BY <1>1, LineStep, BesideCalls DEF ResumeInv
<1>3. ASSUME Release \/ \E v \in Versions : DeleteTopic(v) PROVE Onward
  <2>1. /\ objects' = objects /\ main' = main
        /\ \A v \in Versions : topic'[v] \in {topic[v], None}
    BY <1>3 DEF Release, DeleteTopic, IInv, BranchesTyped
  <2> QED BY <1>1, <2>1, SameClosed DEF History
<1>4. PICK id : id = Id
  OBVIOUS
<1>5. ASSUME Develop PROVE Onward
  <2>1. PICK new : Parented(new, {main}) /\ main' = id /\ topic' = topic
    <3>1. PICK new : new = [objects[main] EXCEPT !.history = @ \cup {Id},
                                                 !.content = @ \cup {Id}, !.edit = FALSE]
      OBVIOUS
    <3>2. new.history = History(main) \cup {Id}
      BY <1>1, <3>1 DEF History, IInv, ObjectsTyped, Commits, Commit
    <3>3. objects' = Append(objects, new) /\ main' = id /\ topic' = topic
      BY <1>4, <1>5, <3>1 DEF Develop
    <3> QED BY <3>2, <3>3 DEF Parented
  <2>2. Closed' /\ Extends /\ objects'[id] = new
    BY <1>1, <1>4, <2>1, CommitClosed
  <2>3. History(main) \subseteq History(main)'
    BY <2>1, <2>2 DEF History, Parented
  <2> QED BY <2>1, <2>2, <2>3
<1>6. ASSUME NEW v \in Versions, EditTopic(v) PROVE Onward
  <2>1. PICK t \in Commits : t = topic[v]
    BY <1>6 DEF EditTopic, IInv, BranchesTyped
  <2>2. objects[t] \in Commit
    BY DEF IInv, ObjectsTyped, Commits
  <2>3. PICK new : /\ Parented(new, {t}) /\ new.edit = TRUE
                   /\ topic' = [topic EXCEPT ![v] = id] /\ main' = main
    <3>1. PICK new : new = [objects[t] EXCEPT !.history = @ \cup {Id},
                                              !.content = @ \cup {Id}, !.edit = TRUE]
      OBVIOUS
    <3>2. new.history = History(t) \cup {Id} /\ new.edit = TRUE
      BY <2>2, <3>1 DEF History, Commit
    <3>3. objects' = Append(objects, new)
      BY <1>6, <2>1, <3>1 DEF EditTopic
    <3>4. topic' = [topic EXCEPT ![v] = id] /\ main' = main
      BY <1>4, <1>6 DEF EditTopic
    <3> QED BY <3>2, <3>3, <3>4 DEF Parented
  <2>4. Closed' /\ Extends /\ objects'[id] = new
    BY <1>1, <1>4, <2>3, CommitClosed
  <2>5. id \in Edits(id)'
    BY <1>4, <2>3, <2>4 DEF Edits, History, Parented
  <2>6. topic'[v] = id /\ \A w \in Versions \ {v} : topic'[w] = topic[w]
    BY <2>3 DEF IInv, BranchesTyped
  <2>7. Edits(topic[v])' # {}
    BY <2>5, <2>6
  <2>8. History(main)' = History(main)
    BY <1>1, <2>3, <2>4, CommitKept
  <2> QED BY <2>4, <2>6, <2>7, <2>8
<1>7. ASSUME NEW v \in Versions, MergePullRequest(v) PROVE Onward
  <2>1. PICK t \in Commits : t = topic[v]
    BY <1>7 DEF MergePullRequest, IInv, BranchesTyped
  <2>2. PICK new : \E parents \in SUBSET Commits :
           main \in parents /\ Parented(new, parents) /\ main' = id
    <3> DEFINE commit(squash, base) ==
            [history |-> IF squash THEN History(main) \cup {Id}
                         ELSE History(main) \cup History(t) \cup {Id},
             base |-> base, edit |-> FALSE, content |-> Content(main) \cup Content(t)]
    <3>0. main' = id
      BY <1>4, <1>7 DEF MergePullRequest
    <3>1. \E squash \in BOOLEAN : \E base : objects' = Append(objects, commit(squash, base))
      BY <1>7, <2>1 DEF MergePullRequest, Content
    <3>2. PICK squash \in BOOLEAN : \E new :
             /\ objects' = Append(objects, new)
             /\ new.history = IF squash THEN History(main) \cup {Id}
                              ELSE History(main) \cup History(t) \cup {Id}
      <4>1. \A squash, base :
              commit(squash, base).history = IF squash THEN History(main) \cup {Id}
                                             ELSE History(main) \cup History(t) \cup {Id}
        OBVIOUS
      <4> HIDE DEF commit
      <4> QED BY <3>1, <4>1
    <3>3. PICK new : /\ objects' = Append(objects, new)
                     /\ new.history = IF squash THEN History(main) \cup {Id}
                                      ELSE History(main) \cup History(t) \cup {Id}
      BY <3>2
    <3>4. CASE squash
      <4>1. Parented(new, {main})
        BY <3>3, <3>4 DEF Parented
      <4> QED BY <1>1, <3>0, <4>1
    <3>5. CASE ~squash
      <4>1. UNION {History(c) : c \in {main, t}} = History(main) \cup History(t)
        OBVIOUS
      <4>2. Parented(new, {main, t})
        BY <3>3, <3>5, <4>1 DEF Parented
      <4> QED BY <1>1, <3>0, <4>2
    <3> QED BY <3>4, <3>5
  <2>3. Closed' /\ Extends /\ objects'[id] = new
    BY <1>1, <1>4, <2>2, CommitClosed
  <2>4. History(main)' = new.history /\ History(main) \subseteq new.history
    BY <2>2, <2>3 DEF History, Parented
  <2>5. \A w \in Versions : topic'[w] \in {topic[w], None}
    BY <1>7 DEF MergePullRequest, IInv, BranchesTyped
  <2> QED BY <2>2, <2>3, <2>4, <2>5 DEF Parented
<1> QED BY <1>2, <1>3, <1>5, <1>6, <1>7 DEF People

LEMMA InitResume == ASSUME Init, IInv PROVE ResumeInv
<1>1. /\ Commits = {1} /\ History(1) = {1} /\ main = 1
      /\ \A v \in Versions : topic[v] = None
      /\ \A d \in Developers : call[d].head = 1 /\ call[d].pc = "idle"
  BY DEF Init, Commits, History, NoCall
<1>2. Closed /\ WritesBeside
  BY <1>1 DEF Closed, WritesBeside
<1>3. Line({1})
  BY <1>1 DEF Line
<1> QED BY <1>1, <1>2, <1>3 DEF ResumeInv, Lines

(***************************************************************************)
(* The command never locks itself out: a branch that only calls have       *)
(* written, and of which nothing was merged, is accepted by the next call  *)
(* from the default branch, wherever the calls of any number of developers *)
(* stopped and whichever merge base git takes.                             *)
(***************************************************************************)
THEOREM NeverLockedOut == Spec => []Resumable
<1>1. IInv /\ ResumeInv /\ [Next]_vars => ResumeInv'
  <2> SUFFICES ASSUME IInv, ResumeInv, [Next]_vars PROVE ResumeInv'
    OBVIOUS
  <2>1. IInv'
    BY Inductive
  <2>2. CASE UNCHANGED vars
    BY <2>2 DEF vars, remote, ResumeInv, Closed, WritesBeside, Lines, Line, Commits, History,
                Beside, OwnedBy, Base, Content, Edits, Updated, Tree, Projected
  <2> QED BY <2>1, <2>2, ResumeCalls, ResumePeople DEF Next
<1>2. IInv /\ ResumeInv => Resumable
  BY OwnedResumes
<1> QED BY <1>1, <1>2, InitIInv, InitResume, Invariant, PTL DEF Spec
===============================================================================

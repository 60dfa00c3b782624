---------------------------- MODULE ReleaseLedger -----------------------------
(***************************************************************************)
(* Publication of versioned packages.  Every workflow run reserves one     *)
(* immutable plan (a tag and a native build number) in a ledger file that  *)
(* GitHub updates by compare-and-swap, builds, consumes its number by      *)
(* raising the publication floor of the ledger, and only then creates the  *)
(* tag, a draft release and its assets, and makes the release public.  A   *)
(* promotion publishes the bytes and the number of a public release        *)
(* candidate again, under the stable tag of its base version.              *)
(*                                                                         *)
(* Runs interleave at every GitHub request that matters to another run.  A *)
(* run can fail anywhere, also after a request was applied whose response  *)
(* is lost, and a failed run can be rerun.                                 *)
(***************************************************************************)
EXTENDS Integers, FiniteSets, FiniteSetsExt

CONSTANTS Runs,         \* workflow runs, named by their positive run ids
          Channel,      \* Channel[r]: what run r releases
          Base,         \* Base[r]: the base version of run r
          Grouped,      \* the workflow's concurrency group is in force
          PolicyFloor,  \* build_number_floor of the policy
          MaxAttempts,  \* bound on the attempts of one run
          MaxByHand,    \* bound on releases drafted or deleted by hand
          NoPlan        \* no reservation

Channels == {"nightly", "beta", "rc", "promote"}
Nobody == 0   \* the author of a release drafted by hand
ASSUME RunAssumption == /\ Runs \subseteq Nat \ {Nobody}
                        /\ Channel \in [Runs -> Channels]
                        /\ Base \in [Runs -> Nat]
                        /\ Grouped \in BOOLEAN
                        /\ PolicyFloor \in Nat
                        /\ MaxAttempts \in Nat \ {0}
                        /\ MaxByHand \in Nat

\* v<base>-beta.<n>, v<base>-rc.<n>, v<base>-nightly.<time>.<run>.<attempt> and v<base>.
\* A run reserves once, so its id stands for the whole nightly suffix.
Tag == [base : Nat, channel : {"nightly", "beta", "rc", "stable"}, sequence : Nat]
Stable(base) == [base |-> base, channel |-> "stable", sequence |-> 0]
Plan == [tag : Tag, number : Nat]
ASSUME NoPlanAssumption == NoPlan \notin Plan
Ledger == [counter : Nat, floor : Nat, plans : [Runs -> Plan \cup {NoPlan}]]
EmptyLedger == [counter |-> 0, floor |-> 0, plans |-> [r \in Runs |-> NoPlan]]

VARIABLES ledger,    \* release-version-state.json on its branch
          refs,      \* tags that exist in the repository
          releases,  \* draft and public releases
          shipped,   \* history: the releases that were ever public
          byHand,    \* how often somebody drafted or deleted a release
          pc,        \* pc[r]: what run r does next
          attempt,   \* attempt[r]: attempts of run r so far
          plan,      \* plan[r]: the plan run r holds
          snap,      \* snap[r]: the ledger run r has read or written
          held       \* held[r]: the author of the release whose id run r holds

github == <<ledger, refs, releases, shipped, byHand>>
vars == <<github, pc, attempt, plan, snap, held>>

Preparing == {"prepare", "allocate", "reserve"}
Transacting == {"create", "readback", "upload", "check", "publish"}
Publishing == {"verify", "consume", "confirm", "advance", "tag"} \cup Transacting
Active == Preparing \cup Publishing
Release == [tag : Tag, number : Nat, author : Runs \cup {Nobody},
            complete : BOOLEAN, public : BOOLEAN]

Init == /\ ledger = EmptyLedger
        /\ refs = {}
        /\ releases = {}
        /\ shipped = {}
        /\ byHand = 0
        /\ pc = [r \in Runs |-> "queued"]
        /\ attempt = [r \in Runs |-> 0]
        /\ plan = [r \in Runs |-> NoPlan]
        /\ snap = [r \in Runs |-> EmptyLedger]
        /\ held = [r \in Runs |-> Nobody]

Step(r, from, to) == pc[r] = from /\ pc' = [pc EXCEPT ![r] = to]

\* A run that stops keeps nothing: its plan, what it read and the id it held are gone.
Stop(r, outcome) == /\ pc' = [pc EXCEPT ![r] = outcome]
                    /\ plan' = [plan EXCEPT ![r] = NoPlan]
                    /\ snap' = [snap EXCEPT ![r] = EmptyLedger]
                    /\ held' = [held EXCEPT ![r] = Nobody]

Public == {release \in releases : release.public}
Occupied == refs \cup {release.tag : release \in releases}
-------------------------------------------------------------------------------
(***************************************************************************)
(* The workflow runs one release at a time; a failed run may be rerun.     *)
(***************************************************************************)
MayStart == Grouped => \A r \in Runs : pc[r] \notin Active

Start(r) ==
    /\ attempt[r] < MaxAttempts
    /\ MayStart
    /\ attempt' = [attempt EXCEPT ![r] = @ + 1]
    /\ \E from \in {"queued", "failed"} :
          Step(r, from, IF Channel[r] = "promote" THEN "verify" ELSE "prepare")
    /\ UNCHANGED <<github, plan, snap, held>>

\* A check refuses, a request fails, its response is lost, or the runner is lost.
Fail(r) == pc[r] \in Active /\ Stop(r, "failed") /\ UNCHANGED <<github, attempt>>
-------------------------------------------------------------------------------
(***************************************************************************)
(* prepare: reserve_plan reads the ledger, picks the tag and the number,   *)
(* and writes the ledger back on the condition that it has not changed.    *)
(***************************************************************************)
ReadState(r) == snap' = [snap EXCEPT ![r] = ledger]

Released(base) == Stable(base) \in Occupied

\* An automatic beta of a released base version ends without a plan.
ClosedPushCycle(r) ==
    /\ pc[r] = "prepare"
    /\ Channel[r] = "beta" /\ Stable(Base[r]) \in refs
    /\ Stop(r, "done")
    /\ UNCHANGED <<github, attempt>>

\* A rerun gets the plan its run reserved before; another run allocates one.
ReadReservation(r) ==
    /\ Channel[r] \in {"beta", "rc"} => ~Released(Base[r])
    /\ ReadState(r)
    /\ \/ /\ ledger.plans[r] # NoPlan
          /\ plan' = [plan EXCEPT ![r] = ledger.plans[r]]
          /\ Step(r, "prepare", "verify")
       \/ /\ ledger.plans[r] = NoPlan
          /\ plan' = plan
          /\ Step(r, "prepare", "allocate")
    /\ UNCHANGED <<github, attempt, held>>

Reserved(state) == {state.plans[r] : r \in Runs} \ {NoPlan}

\* The sequence that follows the last of the run's base version and channel.
Following(r, tags) ==
    LET line == {t.sequence : t \in {u \in tags : u.base = Base[r] /\ u.channel = Channel[r]}}
    IN  {n \in {1} \cup {m + 1 : m \in line} : \A m \in line : m < n}

\* Mutant: what is reserved but not yet visible on GitHub is not counted.
MutSequence(r, state) == IF Channel[r] = "nightly" THEN {r} ELSE Following(r, Occupied)
Sequence(r, state) ==
    IF Channel[r] = "nightly" THEN {r}
    ELSE Following(r, Occupied \cup {p.tag : p \in Reserved(state)})

Number(state) == Max({state.counter, PolicyFloor}) + 1

Allocate(r) ==
    /\ Step(r, "allocate", "reserve")
    /\ \E n \in Sequence(r, snap[r]) :
          LET tag == [base |-> Base[r], channel |-> Channel[r], sequence |-> n]
          IN  /\ tag \notin Occupied
              /\ plan' = [plan EXCEPT ![r] = [tag |-> tag, number |-> Number(snap[r])]]
    /\ UNCHANGED <<github, attempt, snap, held>>

\* Mutant: the write does not name the blob it replaces.
MutWriteState(r, state) == ledger' = state

\* GitHub refuses a write that does not replace what the run has read.
WriteState(r, state) == ledger = snap[r] /\ ledger' = state

\* Mutant: the counter is not written back.
MutReserve(r) ==
    /\ Step(r, "reserve", "verify")
    /\ WriteState(r, [snap[r] EXCEPT !.plans[r] = plan[r]])
    /\ UNCHANGED <<refs, releases, shipped, byHand, attempt, plan, snap, held>>

Reserve(r) ==
    /\ Step(r, "reserve", "verify")
    /\ WriteState(r, [snap[r] EXCEPT !.counter = plan[r].number, !.plans[r] = plan[r]])
    /\ UNCHANGED <<refs, releases, shipped, byHand, attempt, plan, snap, held>>
-------------------------------------------------------------------------------
(***************************************************************************)
(* publish: what must hold before a number is consumed.  A reserved plan   *)
(* lies above the floor and above every published reservation; a release   *)
(* candidate may be promoted while nothing newer is out.                   *)
(***************************************************************************)
Published(state) == {p \in Reserved(state) : \E release \in Public : release.tag = p.tag}

VerifyReservation(r, state) ==
    /\ state.plans[r] = plan[r]
    /\ plan[r].number > state.floor
    /\ \A p \in Published(state) : p.number < plan[r].number

\* Mutant: only the published list counts, not the floor.
MutVerifyPromotionOrder(r, state) ==
    /\ plan[r] \in Published(state)
    /\ \A p \in Published(state) : p.number <= plan[r].number

VerifyPromotionOrder(r, state) ==
    /\ plan[r] \in Published(state)
    /\ plan[r].number >= state.floor
    /\ \A p \in Published(state) : p.number <= plan[r].number

Verified(r, state) ==
    IF Channel[r] = "promote" THEN VerifyPromotionOrder(r, state) ELSE VerifyReservation(r, state)

\* The tag a run publishes: its own, or the stable one.
Target(r) == IF Channel[r] = "promote" THEN Stable(Base[r]) ELSE plan[r].tag

VerifyCandidate(r) ==
    /\ Channel[r] # "promote"
    /\ Step(r, "verify", "consume")
    /\ VerifyReservation(r, ledger)
    /\ Target(r) \notin Occupied
    /\ Channel[r] \in {"beta", "rc"} => ~Released(Base[r])
    /\ UNCHANGED <<github, attempt, plan, snap, held>>

\* The candidate to promote is an input of the run.  The run it comes from must
\* have succeeded.
SelectCandidate(r) ==
    /\ Channel[r] = "promote"
    /\ Step(r, "verify", "consume")
    /\ \E source \in Runs :
          /\ Channel[source] = "rc" /\ Base[source] = Base[r] /\ pc[source] = "done"
          /\ ledger.plans[source] \in Published(ledger)
          /\ plan' = [plan EXCEPT ![r] = ledger.plans[source]]
    /\ ~Released(Base[r])
    /\ UNCHANGED <<github, attempt, snap, held>>

\* An automatic run whose source is outdated, or whose inputs are published already,
\* ends before it consumes anything.
Superseded(r) ==
    /\ pc[r] = "consume"
    /\ Channel[r] \in {"beta", "nightly"}
    /\ Stop(r, "done")
    /\ UNCHANGED <<github, attempt>>

\* begin_publication reads the ledger, lists the releases, and raises the floor by
\* compare-and-swap.
ReadFloor(r) == /\ Step(r, "consume", "confirm")
                /\ ReadState(r)
                /\ UNCHANGED <<github, attempt, plan, held>>

Confirm(r) == /\ Step(r, "confirm", "advance")
              /\ Verified(r, snap[r])
              /\ UNCHANGED <<github, attempt, plan, snap, held>>

Advance(r) ==
    LET consumed == [snap[r] EXCEPT !.floor = plan[r].number]
    IN  /\ Step(r, "advance", "tag")
        /\ WriteState(r, consumed)
        /\ snap' = [snap EXCEPT ![r] = consumed]
        /\ UNCHANGED <<refs, releases, shipped, byHand, attempt, plan, held>>
-------------------------------------------------------------------------------
(***************************************************************************)
(* _publish_prepared: tag, draft, assets, verification, publication.       *)
(***************************************************************************)
\* Mutant: creating a tag that exists is taken for success.
MutCreateTag(r) == /\ Step(r, "tag", "create")
                   /\ refs' = refs \cup {Target(r)}
                   /\ UNCHANGED <<ledger, releases, shipped, byHand, attempt, plan, snap, held>>

\* GitHub refuses to create a tag that exists.
CreateTag(r) == /\ Step(r, "tag", "create")
                /\ Target(r) \notin Occupied
                /\ refs' = refs \cup {Target(r)}
                /\ UNCHANGED <<ledger, releases, shipped, byHand, attempt, plan, snap, held>>

\* The request is unique: its body carries the run, the plan and a nonce.
Draft(r) == [tag |-> Target(r), number |-> plan[r].number, author |-> r,
             complete |-> FALSE, public |-> FALSE]

CreateRelease(r) == /\ Step(r, "create", "upload")
                    /\ releases' = releases \cup {Draft(r)}
                    /\ held' = [held EXCEPT ![r] = r]
                    /\ UNCHANGED <<ledger, refs, shipped, byHand, attempt, plan, snap>>

\* The outcome is unknown: a versioned run looks for its draft, a promotion fails.
CreateAmbiguous(r) == /\ Channel[r] # "promote"
                      /\ Step(r, "create", "readback")
                      /\ releases' \in {releases, releases \cup {Draft(r)}}
                      /\ UNCHANGED <<ledger, refs, shipped, byHand, attempt, plan, snap, held>>

\* Mutant: a single draft under the tag is taken for the one this run asked for.
MutReconcile(r) ==
    /\ Step(r, "readback", "upload")
    /\ \E release \in releases :
          /\ {other \in releases : other.tag = Target(r)} = {release}
          /\ held' = [held EXCEPT ![r] = release.author]
    /\ ledger = snap[r]
    /\ UNCHANGED <<github, attempt, plan, snap>>

\* _reconcile_created_release: one release of the tag, equal to the request, while
\* the ledger is the one this run wrote.
Reconcile(r) ==
    /\ Step(r, "readback", "upload")
    /\ \E release \in releases :
          /\ {other \in releases : other.tag = Target(r)} = {release}
          /\ release = Draft(r)
          /\ held' = [held EXCEPT ![r] = release.author]
    /\ ledger = snap[r]
    /\ Target(r) \in refs
    /\ UNCHANGED <<github, attempt, plan, snap>>

Mine(r) == {release \in releases : release.tag = Target(r) /\ release.author = held[r]}
Rewrite(old, new) == releases' = (releases \ old) \cup new

\* Every asset is uploaded once.  What arrived may still differ from what was sent.
Upload(r) == /\ Step(r, "upload", "check")
             /\ \E release \in Mine(r), arrived \in BOOLEAN :
                   Rewrite({release}, {[release EXCEPT !.complete = arrived]})
             /\ UNCHANGED <<ledger, refs, shipped, byHand, attempt, plan, snap, held>>

\* Mutant: the uploaded assets are not compared with the staged ones.
MutCheck(r) == /\ Step(r, "check", "publish")
               /\ Target(r) \in refs
               /\ UNCHANGED <<github, attempt, plan, snap, held>>

\* Every asset is read back and compared, and the tag must still be there.
Check(r) == /\ Step(r, "check", "publish")
            /\ \E release \in Mine(r) : release.complete
            /\ Target(r) \in refs
            /\ UNCHANGED <<github, attempt, plan, snap, held>>

\* The response to the request that makes the release public may be lost.
Publish(r) ==
    /\ pc[r] = "publish"
    /\ \E release \in Mine(r) :
          /\ Rewrite({release}, {[release EXCEPT !.public = TRUE]})
          /\ shipped' = shipped \cup {[release EXCEPT !.public = TRUE]}
    /\ \E outcome \in {"done", "failed"} : Stop(r, outcome)
    /\ UNCHANGED <<ledger, refs, byHand, attempt>>
-------------------------------------------------------------------------------
(***************************************************************************)
(* Somebody drafts a release under the tag of a run, or deletes a release. *)
(***************************************************************************)
DraftByHand ==
    /\ \E r \in Runs : /\ pc[r] \in Publishing /\ plan[r] # NoPlan
                       /\ releases' = releases \cup
                            {[Draft(r) EXCEPT !.number = 0, !.author = Nobody]}
    /\ UNCHANGED <<ledger, refs, shipped>>

DeleteByHand == /\ \E release \in releases : releases' = releases \ {release}
                /\ UNCHANGED <<ledger, refs, shipped>>

ByHand == /\ byHand < MaxByHand
          /\ byHand' = byHand + 1
          /\ DraftByHand \/ DeleteByHand
          /\ UNCHANGED <<pc, attempt, plan, snap, held>>

Prepare(r) == ClosedPushCycle(r) \/ ReadReservation(r) \/ Allocate(r) \/ Reserve(r)
BeginPublication(r) == \/ VerifyCandidate(r) \/ SelectCandidate(r) \/ Superseded(r)
                       \/ ReadFloor(r) \/ Confirm(r) \/ Advance(r)
PublishPrepared(r) == \/ CreateTag(r)
                      \/ CreateRelease(r) \/ CreateAmbiguous(r) \/ Reconcile(r)
                      \/ Upload(r) \/ Check(r) \/ Publish(r)
Run(r) == Start(r) \/ Prepare(r) \/ BeginPublication(r) \/ PublishPrepared(r) \/ Fail(r)

Next == (\E r \in Runs : Run(r)) \/ ByHand
Spec == Init /\ [][Next]_vars
-------------------------------------------------------------------------------
(***************************************************************************)
(* Types, and what read_state requires of the file: the floor and every    *)
(* plan's number are at most the counter.                                  *)
(***************************************************************************)
TypeOK == /\ ledger \in Ledger
          /\ ledger.floor <= ledger.counter
          /\ \A p \in Reserved(ledger) : p.number <= ledger.counter
          /\ refs \subseteq Tag
          /\ releases \subseteq Release
          /\ shipped \subseteq Release
          /\ byHand \in 0..MaxByHand
          /\ pc \in [Runs -> Active \cup {"queued", "failed", "done"}]
          /\ attempt \in [Runs -> 0..MaxAttempts]
          /\ plan \in [Runs -> Plan \cup {NoPlan}]
          /\ snap \in [Runs -> Ledger]
          /\ held \in [Runs -> Runs \cup {Nobody}]

(***************************************************************************)
(* Two runs never share a tag or a build number, however their reads and   *)
(* writes of the ledger interleave and whatever fails in between           *)
(* (reserve_plan, write_state).                                            *)
(***************************************************************************)
UniqueReservations ==
    \A r, s \in Runs :
       r # s /\ ledger.plans[r] # NoPlan /\ ledger.plans[s] # NoPlan
          => /\ ledger.plans[r].tag # ledger.plans[s].tag
             /\ ledger.plans[r].number # ledger.plans[s].number

(***************************************************************************)
(* The ledger only grows: a reservation is immutable and the counter and   *)
(* the floor never go back, so no write of one run undoes that of another. *)
(***************************************************************************)
LedgerGrows ==
    [][/\ ledger'.counter >= ledger.counter
       /\ ledger'.floor >= ledger.floor
       /\ \A r \in Runs : ledger.plans[r] # NoPlan => ledger'.plans[r] = ledger.plans[r]
      ]_vars

(***************************************************************************)
(* A tag is made public at most once, even when runs overlap, a release is *)
(* deleted or its promotion is rerun ("existing public tags/assets are     *)
(* never overwritten").                                                    *)
(***************************************************************************)
TagsShipOnce == \A a, b \in shipped : a.tag = b.tag => a = b

\* The reservation of the release's own run, or the number of a published candidate.
Backed(release) ==
    \E p \in Reserved(ledger) :
       /\ p.number = release.number
       /\ \/ p.tag = release.tag /\ ledger.plans[release.author] = p
          \/ /\ release.tag = Stable(p.tag.base)
             /\ p.tag.channel = "rc"
             /\ \E rc \in shipped : rc.tag = p.tag

(***************************************************************************)
(* What is public is complete, carries a number that was consumed, and is  *)
(* the reservation of its own run or the unchanged number of a published   *)
(* release candidate of its base version (begin_publication before the     *)
(* first public mutation; _publish_prepared).                              *)
(***************************************************************************)
ShippedIsReserved ==
    \A release \in shipped : /\ release.complete
                            /\ release.tag \in refs
                            /\ release.number <= ledger.floor
                            /\ Backed(release)

(***************************************************************************)
(* After a lost response a run goes on with the draft it created itself,   *)
(* never with one that somebody else put under the same tag.               *)
(***************************************************************************)
OwnDraft == \A r \in Runs : pc[r] \in {"upload", "check", "publish"} => held[r] = r

(***************************************************************************)
(* A package that becomes public is newer than everything public before,   *)
(* or is the stable copy of the newest; deleting a release does not change *)
(* that ("prevent delayed numeric downgrades").  It needs the concurrency  *)
(* group: between consuming a number and publishing it, another run with a *)
(* larger number must not pass.                                            *)
(***************************************************************************)
NoDowngrade ==
    [][\A new \in shipped' \ shipped : \A old \in shipped :
          \/ old.number < new.number
          \/ old.number = new.number /\ new.tag = Stable(old.tag.base)
      ]_vars

(***************************************************************************)
(* Runs that reserve, fail, are rerun and promote implement the promise of *)
(* ReleaseNumbers: a number is issued when the ledger is written and       *)
(* published when its release becomes public (reserve_plan, promote).      *)
(***************************************************************************)
Numbers == INSTANCE ReleaseNumbers WITH
    issued <- [r \in Runs |-> IF ledger.plans[r] = NoPlan THEN 0 ELSE ledger.plans[r].number],
    published <- {[number |-> release.number, stable |-> release.tag.channel = "stable"] :
                     release \in shipped}
ImplementsNumbers == Numbers!Spec
===============================================================================

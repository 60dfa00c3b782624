----------------------------- MODULE VersionFiles -----------------------------
(***************************************************************************)
(* The version of a release is declared in many files and formats: the     *)
(* policy names, for each of them, the field a projection of the plan goes *)
(* to.  sync writes them all in a checkout, check and check-base compare;  *)
(* meanwhile a person may edit the same files, and a sync may be killed    *)
(* after any of its file operations and run again.  A file is what its     *)
(* fields hold, with the edits people made to it; its text is left out.    *)
(***************************************************************************)
EXTENDS Integers, Sequences, FiniteSets, SequencesExt

CONSTANTS Committed,     \* [paths -> contents] at HEAD, the source of the plan
          Jobs,          \* [declarations, versionFile, plan]: policies and their plans
          MaxAppleBuild, \* builds above have no Apple projection (99990000 in the code)
          MaxEdits, MaxStops,  \* bounds on edits by people, and on failures and kills
          None

VARIABLES job, exported,   \* exported: a source export, with no .git
          disk,            \* the checkout
          command, at,     \* the command that runs, and its next step
          todo,            \* paths its phase has still to visit
          plan,            \* its plan
          original, edited, staged,  \* contents read, contents to write, temporary files
          evidence,        \* contents whose digests .release-inputs.json holds
          unseen,          \* history: edits to a path since the last look at it
          edits, stops

work == <<command, at, todo, plan, original, edited, staged>>
vars == <<job, exported, disk, work, evidence, unseen, edits, stops>>

Paths == DOMAIN Committed
Commands == {"sync", "check", "check-base"}
Verdicts == {"idle", "done", "failed"}
-------------------------------------------------------------------------------
(***************************************************************************)
(* Projections of a plan.  A value is the sequence of its parts: a base    *)
(* version alone, a base with what follows it, or a tagged build number.   *)
(***************************************************************************)
Identity(p) == IF p.channel = "stable" THEN <<p.base>> ELSE <<p.base, p.channel, p.sequence>>

Package(p, ecosystem) ==
    IF p.channel = "rc" /\ p.promotion = "promote-bytes" THEN <<p.base>>
    ELSE IF ecosystem = "pep440" /\ p.channel # "stable"
         THEN <<p.base, ecosystem, p.channel, p.sequence>>
         ELSE Identity(p)

Projections(p, ecosystem) ==
    [base |-> <<p.base>>, full |-> Identity(p), package |-> Package(p, ecosystem),
     build |-> IF p.build = None THEN None ELSE <<"build", p.build>>,
     apple |-> IF p.build \in 1..MaxAppleBuild THEN <<"apple", p.build>> ELSE None]

Projection(p, d) == Projections(p, d.ecosystem)[d.value]
ProjectedValue(p, d) ==
    IF d.prefix = "" THEN Projection(p, d) ELSE <<d.prefix>> \o Projection(p, d)

NativeBuild(d) == d.value \in {"build", "apple"}
-------------------------------------------------------------------------------
(***************************************************************************)
(* _edit, for the formats: what a declaration selects in a file, and when  *)
(* its edit is refused.                                                    *)
(***************************************************************************)
Locks == {"cargo-lock", "uv-lock"}

Fields(d) == IF d.format = "npm-lock" THEN {"version", "packages.version"}
             ELSE IF d.format \in Locks THEN {"version"} ELSE {d.field}

\* In a lock file only the local package of that name, among packages of any name.
Owned(content, d) ==
    {i \in DOMAIN content.fields :
        LET entry == content.fields[i]
        IN  /\ entry.field \in Fields(d)
            /\ d.format \in Locks => entry.package = d.package /\ entry.local}

\* Numeric limits of the Apple fields: X.Y.Z, or at most four digits and two pairs, which
\* the numbers of a base version are assumed to have.
WithinLimits(d, value) ==
    /\ d.field \in {"CFBundleShortVersionString", "MARKETING_VERSION"} => Len(value) = 1
    /\ d.field \in {"CFBundleVersion", "CURRENT_PROJECT_VERSION"} =>
          Len(value) = 1 \/ value[1] = "apple" \/ (value[1] = "build" /\ value[2] <= 9999)

Editable(content, d, value) ==
    /\ Cardinality(Owned(content, d)) \in 1..(IF d.format = "npm-lock" THEN 2 ELSE 1)
    /\ d.format = "npm-lock" => \E i \in Owned(content, d) : content.fields[i].field = "version"
    /\ WithinLimits(d, value)
    /\ \A i \in Owned(content, d) :
          /\ d.package # None => content.fields[i].package = d.package
          /\ content.fields[i].numeric => value[1] = "build"

\* None: refused.
Edit(content, d, value) ==
    IF content = None \/ ~Editable(content, d, value) THEN None
    ELSE [content EXCEPT !.fields =
             [i \in DOMAIN @ |-> IF i \in Owned(content, d)
                                 THEN [@[i] EXCEPT !.value = value] ELSE @[i]]]

\* The policy's declarations; check-base leaves the native build numbers out.
Concerned(d) == command = "check-base" => ~NativeBuild(d)
Declarations == {d \in Range(job.declarations) : Concerned(d)}
Of(path) == {d \in Declarations : d.path = path}

\* Declared paths, in the order of their first declarations, and sorted.
Declared == FoldLeft(LAMBDA seen, d : IF ~Concerned(d) \/ Contains(seen, d.path) THEN seen
                                      ELSE Append(seen, d.path), <<>>, job.declarations)
Sorted(paths) == CHOOSE seq \in [1..Cardinality(paths) -> paths] :
                    \A i, j \in DOMAIN seq : i < j => seq[i] < seq[j]

EditAll(content, path, p) ==
    FoldLeft(LAMBDA c, d : IF d \in Of(path) THEN Edit(c, d, ProjectedValue(p, d)) ELSE c,
             content, job.declarations)
-------------------------------------------------------------------------------
Init == /\ job \in Jobs
        /\ exported \in BOOLEAN
        /\ disk = Committed
        /\ command = "sync" /\ at = "idle" /\ todo = <<>> /\ plan = job.plan
        /\ original = <<>> /\ edited = <<>> /\ staged = <<>>
        /\ evidence = <<>>
        /\ unseen = [path \in Paths |-> {}]
        /\ edits = 0 /\ stops = 0

Rest == <<job, exported, disk, evidence, unseen, edits, stops>>

\* A failing command removes the temporary files it has left.
Refuse == /\ at' = "failed" /\ todo' = <<>> /\ staged' = <<>>
          /\ UNCHANGED <<command, plan, original, edited>>

\* main: a plan needs a value for each declaration; an export is not verified.
Begin(c) ==
    /\ at \in Verdicts
    /\ UNCHANGED Rest
    /\ command' = c
    /\ plan' = job.plan
    /\ original' = <<>> /\ edited' = <<>> /\ staged' = <<>>
    /\ IF c = "check-base" THEN at' = "base" /\ todo' = <<>>
       ELSE IF \E i \in DOMAIN job.declarations : Projection(plan', job.declarations[i]) = None
       THEN at' = "failed" /\ todo' = <<>>
       ELSE at' = (IF exported THEN "read" ELSE "verify") /\ todo' = Declared'

\* read_base_version: the version file has one selector, and a base version there.  Or the
\* version is given (check-base --version), and nothing is read.
ReadBase ==
    /\ at = "base"
    /\ LET candidates == {i \in DOMAIN job.declarations :
                             /\ job.declarations[i].path = job.versionFile
                             /\ ~NativeBuild(job.declarations[i])}
           d == job.declarations[CHOOSE i \in candidates : TRUE]
           content == disk[job.versionFile]
           old == {content.fields[i].value : i \in Owned(content, d)}
           bases == {Last(value) : value \in old}
           read == /\ Cardinality(candidates) = 1
                   /\ Edit(content, d, <<"0.0.0">>) # None
                   /\ Cardinality(old) = 1
                   /\ \A value \in old : Len(value) = (IF d.prefix = "" THEN 1 ELSE 2)
       IN  \E given \in BOOLEAN :
           IF (given \/ read) /\ Declarations # {}
           THEN /\ plan' = [job.plan EXCEPT !.base = IF given THEN @
                                                     ELSE CHOOSE base \in bases : TRUE,
                                            !.channel = "stable"]
                /\ at' = "read" /\ todo' = Declared
                /\ UNCHANGED <<command, original, edited, staged>>
           ELSE Refuse
    /\ UNCHANGED Rest

\* A phase visits one path at a time.
Visit(phase, next, then) ==
    /\ at = phase
    /\ IF Len(todo) > 1 THEN at' = phase /\ todo' = Tail(todo)
                        ELSE at' = next /\ todo' = then
-------------------------------------------------------------------------------
(***************************************************************************)
(* verify_checkout: the committed file holds the base version, and the     *)
(* file in the checkout is the committed one or what the sync makes of it. *)
(***************************************************************************)
BasePlan == [job.plan EXCEPT !.channel = "stable"]

HoldsBase(path) ==
    \A d \in Of(path) :
        NativeBuild(d) \/
        Edit(Committed[path], d, ProjectedValue(BasePlan, d)) = Committed[path]

\* Mutant: only the committed file is accepted.
MutAccepts(path) == disk[path] = Committed[path]

Accepts(path) == disk[path] \in {Committed[path], EditAll(Committed[path], path, job.plan)}

Verify ==
    /\ at = "verify"
    /\ LET path == Head(todo)
       IN  IF HoldsBase(path) /\ EditAll(Committed[path], path, plan) # None /\ Accepts(path)
           THEN Visit("verify", "read", Declared)
                /\ UNCHANGED <<command, plan, original, edited, staged>>
           ELSE Refuse
    /\ UNCHANGED Rest
-------------------------------------------------------------------------------
(***************************************************************************)
(* sync_versions and _apply_version_edits.                                 *)
(***************************************************************************)
Read == /\ Visit("read", "edit", <<>>)
        /\ original' = [path \in DOMAIN original \cup {Head(todo)} |->
                           IF path = Head(todo) THEN disk[path] ELSE original[path]]
        /\ UNCHANGED <<command, plan, edited, staged, Rest>>

\* Mutant: the last of two declarations of a field wins.
MutConsistent(contents) == \A path \in DOMAIN contents : contents[path] # None

\* Each declaration still holds after all the edits of its file.
Consistent(contents) ==
    \A path \in DOMAIN contents : contents[path] # None /\
        \A d \in Of(path) :
            Edit(contents[path], d, ProjectedValue(plan, d)) = contents[path]

Drift == {path \in DOMAIN original : edited[path] # original[path]}

EditFiles ==
    /\ at = "edit"
    /\ UNCHANGED <<command, plan, original, staged, Rest>>
    /\ edited' = [path \in DOMAIN original |-> EditAll(original[path], path, plan)]
    /\ IF ~Consistent(edited') THEN at' = "failed" /\ todo' = <<>>
       ELSE IF command = "sync" THEN at' = "recheck" /\ todo' = Declared
       ELSE at' = (IF Drift' = {} THEN "done" ELSE "failed") /\ todo' = <<>>

\* Before anything is written all the files are still what was read.
Recheck ==
    /\ at = "recheck"
    /\ IF disk[Head(todo)] # original[Head(todo)] THEN Refuse
       ELSE /\ Visit("recheck", IF Drift = {} THEN "evidence" ELSE "stage", Sorted(Drift))
            /\ UNCHANGED <<command, plan, original, edited, staged>>
    /\ UNCHANGED Rest

Stage == /\ Visit("stage", "look", Sorted(Drift))
         /\ staged' = [path \in DOMAIN staged \cup {Head(todo)} |-> edited[path]]
         /\ UNCHANGED <<command, plan, original, edited, Rest>>

\* Mutant: replaced without another look.
MutUnchanged(path) == TRUE

Unchanged(path) == disk[path] = original[path]

Look ==
    /\ at = "look"
    /\ IF Unchanged(Head(todo))
       THEN at' = "replace" /\ UNCHANGED <<command, todo, plan, original, edited, staged>>
       ELSE Refuse
    /\ unseen' = [unseen EXCEPT ![Head(todo)] = {}]
    /\ UNCHANGED <<job, exported, disk, evidence, edits, stops>>

Replace ==
    /\ at = "replace"
    /\ disk' = [disk EXCEPT ![Head(todo)] = staged[Head(todo)]]
    /\ staged' = [path \in DOMAIN staged \ {Head(todo)} |-> staged[path]]
    /\ todo' = Tail(todo)
    /\ at' = IF Len(todo) > 1 THEN "look" ELSE "evidence"
    /\ UNCHANGED <<command, plan, original, edited, job, exported, evidence, unseen, edits, stops>>

WriteEvidence ==
    /\ at = "evidence"
    /\ evidence' = edited
    /\ at' = "done"
    /\ UNCHANGED <<command, todo, plan, original, edited, staged,
                   job, exported, disk, unseen, edits, stops>>

Step == ReadBase \/ Verify \/ Read \/ EditFiles \/ Recheck \/ Stage \/ Look \/ Replace
        \/ WriteEvidence
-------------------------------------------------------------------------------
\* A person changes something else in a file, or one of its fields.
ByHand ==
    /\ edits < MaxEdits
    /\ edits' = edits + 1
    /\ \E path \in Paths :
          /\ \/ disk' = [disk EXCEPT ![path].edits = @ \cup {edits'}]
             \/ \E i \in DOMAIN disk[path].fields :
                   /\ ~disk[path].fields[i].numeric
                   /\ disk' = [disk EXCEPT ![path].edits = @ \cup {edits'},
                                           ![path].fields[i].value = <<"by hand">>]
          /\ unseen' = [unseen EXCEPT ![path] = @ \cup {edits'}]
    /\ UNCHANGED <<job, exported, work, evidence, stops>>

\* An operation fails, or the process is killed: its temporary files are never read.
Interrupt == /\ at \notin Verdicts
             /\ stops < MaxStops
             /\ stops' = stops + 1
             /\ Refuse
             /\ UNCHANGED <<job, exported, disk, evidence, unseen, edits>>

Next == (\E c \in Commands : Begin(c)) \/ Step \/ ByHand \/ Interrupt

Spec == Init /\ [][Next]_vars

\* A command goes on, and whoever needs the versions runs sync until it succeeds.
Fairness == WF_vars(Step) /\ SF_vars(Begin("sync") /\ evidence = <<>>)
LiveSpec == Spec /\ Fairness
-------------------------------------------------------------------------------
TypeOK == /\ job \in Jobs /\ exported \in BOOLEAN
          /\ DOMAIN disk = Paths
          /\ command \in Commands
          /\ at \in Verdicts \cup {"base", "verify", "read", "edit", "recheck", "stage",
                                   "look", "replace", "evidence"}
          /\ todo \in Seq(Paths)
          /\ DOMAIN staged \subseteq DOMAIN edited /\ DOMAIN edited \subseteq DOMAIN original
          /\ DOMAIN original \subseteq Paths
          /\ unseen \in [Paths -> SUBSET (1..MaxEdits)]
          /\ edits \in 0..MaxEdits /\ stops \in 0..MaxStops

Holds(content, d) ==
    /\ Owned(content, d) # {}
    /\ \A i \in Owned(content, d) : content.fields[i].value = ProjectedValue(plan, d)

\* "no last-writer-wins version drift is permitted" (scripts/version_plan.py:1073): when
\* a sync or a check succeeds, every declared field holds its projection, except in a
\* file a person has edited since, and what the evidence says of a file is true of it.
EveryDeclarationHolds ==
    at = "done" => \A d \in Declarations :
        disk[d.path].edits = original[d.path].edits =>
            /\ Holds(disk[d.path], d)
            /\ command = "sync" => evidence[d.path] = disk[d.path]

\* "Version input changed before replace" (scripts/version_plan.py:1125): only an edit
\* made between the last look at a file and its replacement can be lost.
NoEditOverwritten ==
    [][\A path \in Paths : disk[path].edits \ disk'[path].edits \subseteq unseen[path]]_vars

\* The selectors of the policy agree, and the plan has a value for each of them.
Feasible ==
    /\ \A d \in Declarations : Projection(plan, d) # None
    /\ \A path \in Range(Declared) : HoldsBase(path)
    /\ Consistent([path \in Range(Declared) |-> EditAll(Committed[path], path, plan)])

\* A sync killed after it replaced some of its files is repaired by running it again: the
\* mixture it leaves is accepted, whichever of its operations was the last.
SyncCompletes == [](edits = 0 /\ (command = "sync" => Feasible)) => <>(evidence # <<>>)
===============================================================================

------------------------------- MODULE MCRelease -------------------------------
(***************************************************************************)
(* Four parts of the release tooling that share no state, checked side by  *)
(* side: the promotion of a candidate (Promotion), automatic releases      *)
(* (AutomaticRelease), version files (VersionFiles) and the client's calls *)
(* (GitHubTransport).  `part` says which of them a behaviour is about; the *)
(* others rest in one state.                                               *)
(***************************************************************************)
EXTENDS MCPromotion, FiniteSets

CONSTANTS MaxCommits, MaxPushes, MaxNightlies, MaxRunFaults, MaxFaults,
          Committed, Jobs, MaxAppleBuild, MaxEdits, MaxStops,
          ReadAttempts, PageSize, MaxRequests, MaxRecords

VARIABLES part,
          branchHead, past, pushed, nightlies, runs, seen, since, public, dropped,
          runFaults,
          job, exported, disk, command, step, todo, plan, original, edited, temporary,
          written, unseen, edits, stops,
          records, made, post, op, result, attempt, page, gathered, requests,
          always, ever, deleted, created, faults

\* A manifest with a version and a build number, and a lock file with another package.
Entry(field, package, local, numeric, value) ==
    [field |-> field, package |-> package, local |-> local, numeric |-> numeric, value |-> value]
MCCommitted ==
    1 :> [edits |-> {}, fields |-> <<Entry("version", "service", TRUE, FALSE, <<"1.2.3">>),
                                     Entry("build", "service", TRUE, TRUE, <<"build", 1>>)>>] @@
    2 :> [edits |-> {}, fields |-> <<Entry("version", "service", TRUE, FALSE, <<"1.2.3">>),
                                     Entry("version", "library", FALSE, FALSE, <<"9.9.9">>)>>]

Select(path, format, field, package, value, ecosystem) ==
    [path |-> path, format |-> format, field |-> field, package |-> package, value |-> value,
     ecosystem |-> ecosystem, prefix |-> ""]
Version == Select(1, "toml", "version", "service", "package", "semver")
Lock == Select(2, "uv-lock", None, "service", "package", "pep440")
Beta == [base |-> "1.2.3", channel |-> "beta", sequence |-> 3, build |-> 7,
         promotion |-> "promote-bytes"]
Job(declarations, file, p) == [declarations |-> declarations, versionFile |-> file, plan |-> p]

\* Two that agree, three whose selectors of one field do not or only for a base version,
\* a candidate whose bytes are promoted, and a build number too large for Apple.
MCJobs ==
    {Job(<<Version, Lock>>, 1, Beta),
     Job(<<Lock, Select(1, "toml", "build", None, "build", "semver"), Version>>, 1, Beta),
     Job(<<Version, Select(1, "json", "version", None, "full", "pep440")>>, 1, Beta),
     Job(<<Version, Select(1, "json", "version", None, "base", "pep440")>>, 2, Beta),
     Job(<<Version, Lock>>, 1, [Beta EXCEPT !.channel = "rc"]),
     Job(<<Version, Select(1, "toml", "build", None, "apple", "semver")>>, 1, Beta)}

Automatic == INSTANCE AutomaticRelease WITH head <- branchHead, faults <- runFaults,
                                               MaxFaults <- MaxRunFaults
VersionInputs == INSTANCE VersionFiles
    WITH at <- step, staged <- temporary, evidence <- written
Transport == INSTANCE GitHubTransport

\* A file at HEAD, which holds its fields, and no edits by hand.
Whole(content) ==
    /\ content = [edits |-> {}, fields |-> content.fields]
    /\ \A i \in DOMAIN content.fields :
          LET field == content.fields[i]
          IN  field = Entry(field.field, field.package, field.local, field.numeric, field.value)

\* Paths are numbered in their order.  A policy declares at least one file.
ASSUME FilesAssumption ==
    /\ DOMAIN Committed \subseteq Nat /\ IsFiniteSet(DOMAIN Committed)
    /\ \A path \in DOMAIN Committed : Whole(Committed[path])
    /\ \A j \in Jobs : /\ Len(j.declarations) \in Nat \ {0}
                       /\ DOMAIN j.declarations = 1..Len(j.declarations)
                       /\ \A d \in {j.declarations[i] : i \in DOMAIN j.declarations} :
                             d.path \in DOMAIN Committed
ASSUME TransportAssumption == /\ PageSize \in Nat \ {0} /\ MaxRecords \in Nat
                              /\ None \notin Transport!Results

automatic == <<branchHead, past, pushed, nightlies, runs, seen, since, public, dropped,
               runFaults>>
inputs == <<job, exported, disk, command, step, todo, plan, original, edited, temporary,
            written, unseen, edits, stops>>
transport == <<records, made, post, op, result, attempt, page, gathered, requests,
               always, ever, deleted, created, faults>>
all == <<part, vars, automatic, inputs, transport>>

MCInit == /\ part \in {"promotion", "automatic", "files", "transport"}
          /\ Init
          /\ part # "promotion" => /\ head = 1 /\ purpose = "accept"
                                   /\ attempts[Len(attempts)] = "copied"
          /\ Automatic!Init
          /\ VersionInputs!Init
          /\ part # "files" => ~exported /\ job = CHOOSE any \in Jobs : TRUE
          /\ Transport!Init
          /\ part # "transport" => made = 0

Part(name, action, others) == part = name /\ action /\ UNCHANGED <<part, others>>

MCNext == \/ Part("promotion", Next, <<automatic, inputs, transport>>)
          \/ Part("automatic", Automatic!Next, <<vars, inputs, transport>>)
          \/ Part("files", VersionInputs!Next, <<vars, automatic, transport>>)
          \/ Part("transport", Transport!Next, <<vars, automatic, inputs>>)

\* The fairness of each part.
MCFairness ==
    /\ WF_all(Part("promotion", Verify, <<automatic, inputs, transport>>))
    /\ WF_all(Part("automatic", Automatic!CreatePushRun, <<vars, inputs, transport>>))
    /\ WF_all(Part("automatic", \E r \in DOMAIN runs : Automatic!Execute(r),
                   <<vars, inputs, transport>>))
    /\ WF_all(Part("files", VersionInputs!Step, <<vars, automatic, transport>>))
    /\ SF_all(Part("files", VersionInputs!Begin("sync") /\ written = <<>>,
                   <<vars, automatic, transport>>))

MCSpec == MCInit /\ [][MCNext]_all /\ MCFairness

AutomaticOrder == Automatic!AutomaticOrder
PublishedWasHead == Automatic!PublishedWasHead
HeadReleased == part = "automatic" => Automatic!HeadReleased
EveryDeclarationHolds == VersionInputs!EveryDeclarationHolds
NoEditOverwritten == VersionInputs!NoEditOverwritten
SyncCompletes == part = "files" => VersionInputs!SyncCompletes
ReadsSound == Transport!ReadsSound
CreatedOnce == Transport!CreatedOnce
===============================================================================

# A formal model of dbus-virtual-battery

TLA+ modules, TLC configurations and TLAPS proofs kept beside
`dbus-virtual-battery`, the Venus OS service that publishes a *virtual battery*:
the chain nobody measures, computed as the SmartShunt's reading minus that of every
configured chain. The repository also carries the release engine that numbers, builds
and publishes its packages; the second half of this project models that.

Check everything with the TLA+ tools in this directory:

    tlc -workers 2 -config MCVirtualBattery.cfg MCVirtualBattery
    tlapm VirtualBatteryProofs.tla

(for the run `shunt_port`: `tlc -config MCDiscoveryPort.cfg Discovery`).

`PROJECT.json` lists every run, the property each one checks, the source lines every
definition stands for, the hazards, and one *mutant* per property: a plausible bug
that makes the property fail. The mutated forms are the operators named `Mut...`.

## 1. The system

### The service (`dbus-virtual-battery.py`)

| Component | State it keeps | Operations | What makes it correct |
|---|---|---|---|
| Calculator (lines 114-277) | none | `calculate_virtual_battery` and helpers | subtracts every chain, returns nothing from partial or overflowing input, ampere hours balance, time to go promises no more charge than there is |
| Source acceptance (675-752) | `SourceStatus` per source | `_source_freshness`, `_read_source` | only connected, fresh, finite readings are accepted; a source with any freshness metadata must satisfy the whole contract |
| Bus reader (307-492) | connection, cache, time of the last reconnect | `get_value`, `get_snapshot`, `get_product_name`, `list_battery_services`, `invalidate_source` | an MQTT frame is read whole; everything accepted was published since the read of it began; a broken connection is replaced |
| Shunt discovery (563-597) | selected shunt, time of the last discovery | discovery at start and while missing | never a chain, identified by its product, found late, kept once found; the separate calls find what one look at the bus would |
| Service (495-943) | the published D-Bus paths | `__init__`, `update` | available exactly when every source was accepted; never connected without measurements |
| Process (946-1020, `setup`) | none across restarts | start, poll timer, stop | a restarted process starts unavailable |

The service is one thread: a timer calls `update` every two seconds, which makes
blocking D-Bus calls one after the other (each source is read with one `GetItems`
call, or with one `GetValue` per item) and then assigns about thirty D-Bus paths one by
one; every assignment is visible to clients at once. Publishers (the MQTT battery
driver, the SmartShunt driver, BMS drivers) change their values, leave and return between
any two of these calls. A supervisor restarts the process.

Hard to test: a change between two reads of one poll; a client between two
writes; a publisher that freezes while its values stay on the bus; a connection that
breaks in the middle of a poll; a shunt that starts late, moves to another port, or is
one of the chains; float overflow.

### The release engine (`scripts/`, `.github/workflows/`)

| Component | State | What makes it correct |
|---|---|---|
| Ledger (`release_state.py`) | `release-version-state.json` on a branch: counter, publication floor, one plan per run | reservations are unique and immutable, the floor never goes back |
| Preparation and publication (`release_versioned.py`) | the plan artifact | a number is consumed before anything public is changed; an automatic release publishes what is the head of the branch, and the head the branch stays at is released in the end |
| Transaction (`release_control.py`) | tags, drafts, assets, releases on GitHub | a public release is complete, its tag is created once, a lost response is never answered by creating again |
| Verification of a candidate (`release_control.py`) | what it has read so far | promoting, accepting or reusing a candidate stands on bytes and evidence that belonged together at one instant |
| Transport (`release_control.py`, class `GitHub`) | none | reads are repeated, writes are sent once; nothing present is taken for absent |
| Version files (`version_plan.py`) | the declared files, `.release-inputs.json` | after a sync every declared field carries its projection of the plan; a killed sync can be repeated; people's edits survive |
| Version preparation (`prepare_version.py`) | a branch and a pull request per version | never overwrites a person's edit, can always be resumed, never lowers the base version |
| Evidence (`version_receipt.py`, `release_provenance.py`, `release_signing.py`, `release_fuzz.py`, `release_validation.py`) | receipts, manifests | bytes, plan, source and run are bound to each other |
| Client (`release.py`), change scope, staging, packaging, OCI merge, preflight, contracts, scans, metadata writers | files | local tools |

The runs of the release workflow interact only through GitHub: the ledger (updated by
compare-and-swap on a blob id), tags (creation fails when one exists) and the list of
releases. A concurrency group serializes whole runs. Any request can fail, be applied and
lose its response, or be the last thing a lost runner does; a failed run can be rerun,
and people draft and delete releases, push and
force the branch, replace assets and move tags by hand. None of it is locked, and every
look at GitHub is a request of its own.

`setup`, `install.py`, `install.sh`, `deploy.sh`, `commit.sh` and `release.sh` are one-shot
scripts. `tests/`, `fuzz/` and `docs/` were read for what they say the code promises.

`PROJECT.json` lists every component with its status, also those not modelled.

## 2. The modules

The service:

    Calculator ── SourceFrame ─┬─ VirtualBattery ─┬─ MCVirtualBattery
        │                      │                  └─ VirtualBatteryProofs
        │                      └──── SourceRead ──┬─ MCSourceRead
        │       BusConnection ─┬─────┘            └─ SourceReadProofs
        │                      └─ Discovery ─┐
    MCCalculator ────────────────────────────┴─ MCDevice ── DeviceProofs

The release engine:

    ReleaseNumbers ── ReleaseLedger ─┬─ MCReleaseLedger
                                     └─ ReleaseLedgerProofs
    Promotion ─┬─ PromotionProofs
               └─ MCPromotion ───────┐
    AutomaticRelease, VersionFiles, ─┴─ MCRelease ── ReleasePartsProofs
        GitHubTransport
    VersionPreparation ─┬─ MCVersionPreparation
                        └─ VersionPreparationProofs

`FoldTheorems` holds the lemmas about induction and folds; VirtualBatteryProofs, DeviceProofs
and ReleasePartsProofs extend it.

MCDevice and MCRelease check several parts that share no state in one run: `part` says
which of them a behaviour is about, and the others rest in one state. So the states of the
parts add up instead of multiplying, and every part goes through all of its own.

**Calculator** translates the pure functions over integers. Results are exact numerators over
a known denominator; floats are modelled by their range (`MaxFinite`, a
value `NonFinite` for infinities and NaN, sums added in order so that a partial sum
overflows as it does in the code). Rounding of the last bit and the rounding of
published values are abstracted.

**SourceFrame** says what a battery service can publish and when `_read_source` accepts it. The
age of a frame is a number that time increases up to `AgeLimit`; `-1` is a
timestamp of a clock ahead of ours.

**VirtualBattery** is the service. A poll is `StartPoll` (with the late discovery), one
`ReadSource` per source, the shunt first, and one `Write` per D-Bus path in the
order of `update`, `_publish_calculation` and `_clear_missing_source_values`. `Paths`
groups paths that are always written together (the cell voltages, the two ampere hour
values, the two module counts, the two status strings); the two AllowTo paths,
which are always empty, are left out. `Boot` is the constructor, which refuses to
come up with a shunt that is a chain; `Stop` is any end of the process. The environment
publishes, vanishes, breaks and restores the connection, and lets time pass between
any two of these steps. A read of one source is one step here.

**BusConnection** is the reader's connection: missing, live, or broken without the reader
knowing, with the throttle of `_ensure_connection`. What a call leaves of it
(`AfterCall`) depends on the call: a read of values drops a connection that fails, the calls of
a discovery do not.

**SourceRead** opens the step `ReadSource`: every D-Bus call of a read is an action on a
BusConnection. It models the cache and its time to live, the snapshot and the item by item
fallback. `seen` is a history variable: what the source has published since its read began.

**Discovery** opens the step of the discovery: `List` is `list_battery_services`, `AskProduct`
one `get_product_name`, `Choose` the index and the exclusion of chains, `Register`
the registration of the own name, `ReadShunt` and `ReadChains` the calls of a poll as far as the
connection and the identity of the shunt depend on them. Names belong to ports, products to
devices; devices are plugged in, removed and moved, calls time out, the daemon and
the process restart. `OneStep` is the discovery of VirtualBattery, and `UndisturbedIsOneStep`
relates the two.

**ReleaseLedger** models the numbering and the publication of packages. A workflow run is a
process. `prepare` is `ClosedPushCycle`, `ReadReservation`, `Allocate`, `Reserve`; the
checks and the consumption of the number are `VerifyCandidate` or `SelectCandidate`,
`Superseded`, `ReadFloor`, `Confirm`, `Advance`; `_publish_prepared` is `CreateTag`,
`CreateRelease` or `CreateAmbiguous` and `Reconcile`, `Upload`, `Check`, `Publish`. A
lost response is the applied request followed by `Fail`, except where the code goes
on (`CreateAmbiguous`) or where the outcome is public (`Publish`). Provenance, policy,
evidence, approval and notes are gates that only refuse: they are `Fail`. `author` in
a release stands for the unique marker a versioned run puts into its request. The repository
promotes bytes (`.release-policy.json`), so final builds are left out. `shipped` is a
history variable: what was ever public. `SelectCandidate` takes the verification of a
candidate as one step.

**ReleaseNumbers** is the promise to whoever installs packages, without ledger, drafts, failures
or deletions: numbers are issued and published in ascending order, and a number is published
again, as stable, only while it is the largest. ReleaseLedger implements it (`Numbers`,
`ImplementsNumbers`): writing a reservation is `Issue`, making a release public is `Publish` or
`Promote`, every other step stutters.

**Promotion** opens that step. A verification has one of three purposes, to `promote` a
candidate, to `accept` it before a final build, or to `reuse` it for a nightly, and `Order` is
the sequence of its requests and checks for each of them: `promote` reads the
release, its evidence and the branch, stages the packages, collects the release once more and
compares, and writes the stable tag, draft and release. Every request is an action. Between
any two of them the world changes (`World`, external): assets are replaced, the tag is
moved, the release is edited or withdrawn, the run is rerun and succeeds, fails or copies
its jobs, evidence expires, the head moves, reviewers are removed, somebody takes the
stable tag, a request fails. `witness` and `approval` are history variables: the candidate at an
instant, and the attempts when the evidence was read.

**AutomaticRelease** models betas of pushes and nightlies of schedules on a moving branch, under
the concurrency group (one run executes, one waits, and a newer one takes the place of the one
that waits). A run looks at the head, looks for a replacement, looks again, and gives
way; or it reuses a release of the same source; or it captures the head, consumes its number,
drafts, confirms the head and publishes. `Push`, `ForcePush`, `Fail` and `Rerun` come between any
two of these. A push puts a new commit on the head, or the branch forward to one it had left; a
forced push takes it back to an older commit, or to another line. `since` and `dropped` are history
variables: the heads since the number was consumed, and the releases that a forced push took
off the branch.

**VersionFiles** models the command line of `version_plan.py`: what a declaration of the policy
selects in a file (`Owned`), when an edit is refused (`Editable`), the projections of a plan
to its formats, and the phases of `sync`, `check` and `check-base` over the declared
paths, one file operation a step: verify, read, edit, recheck, stage, look, replace, evidence. A
person edits the files (`ByHand`), and a command is killed (`Interrupt`), between any two of
them. A file is what its fields hold; its syntax is left out.

**GitHubTransport** models one call of the client: how a response of `gh` is classified, given
every combination of status, exit code, diagnostics and time limit; repeated reads, optional
reads, reads page by page; the creation of a release, sent once, and its readback. Others
create and delete releases meanwhile.

**VersionPreparation** models `prepare-version --pr` (`prepare_version.py`) against a remote that
others change. A call is one record (`call[d]`), lost when it ends: `Fetch` and `Choose` take
the checkout and the version, `ListPullRequests` and `RemoteTopic` are the two separate
reads of what an earlier call left, `Push` or `NoPush` and `CreatePullRequest` the two
writes, and `Stop` is every refusal, failed request and lost response. A commit is its history, its base
version and the changes in its tree, which is all `merge-base`, `diff` and a push without force
look at. `EditTopic`, `MergePullRequest` (with a merge commit or squashed),
`DeleteTopic`, `Develop` and `Release` are other people and are external.

## 3. What the runs check

| Run | Instance | Shows |
|---|---|---|
| `battery` | two MQTT chains, a shunt, a BMS; 1.8 million states | `TypeOK`; available exactly when every source was accepted (`AvailableWhenComplete`); never connected without measurements (`ConnectedMeansMeasured`); `ShuntIdentified`, `ShuntKept`; the published current is the exact difference of what the sources said (`CurrentFromEverySource`) |
| `battery_liveness` | one chain, one shunt | a frozen publisher makes the battery unavailable (`FrozenChainExpires`); valid sources bring it back (`Recovers`) |
| `source_read` | an MQTT chain with snapshots and a native service without; 3.9 million states | a chain's sample is one whole fresh frame (`WholeMqttFrame`); every item was on the bus since the read began (`ReadSinceBegin`) |
| `device_parts` | discovery: a chain and two more ports, two shunts and a BMS; calculator: up to two chains; 270 thousand states | `UndisturbedIsOneStep`, `SelectedWasShunt`, `Reconnects`; `SubtractsEveryChain`, `NothingFromPartialInput`, `AmpHoursBalance`, `TimeToGoSound`, `MoreDrawnLastsLess` |
| `ledger_overlap` | two candidates and two promotions of one base version that overlap; one hand-made draft or deletion | `UniqueReservations`, `LedgerGrows`, `TagsShipOnce`, `ShippedIsReserved`, `OwnDraft` |
| `ledger_order` | one run of each channel, two attempts each, serialized; 2.6 million states | `NoDowngrade`, `ImplementsNumbers` |
| `preparation` | two developers, six commits; 4.2 million states | `EditsKept`, `Resumable`, `BaseNeverDown` |
| `release_parts` | promotion, automatic releases, version files and transport; 520 thousand states | of Promotion: `PromotesAcceptedBytes`, `VerifiedAtOnce`, `EvidenceOfLatestAttempt`, `UndisturbedSucceeds`; of AutomaticRelease: `AutomaticOrder`, `PublishedWasHead`, `HeadReleased`; of VersionFiles: `EveryDeclarationHolds`, `NoEditOverwritten`, `SyncCompletes`; of GitHubTransport: `ReadsSound`, `CreatedOnce` |

Four more runs are expected to fail, each against one sentence of the repository:

| Run | Property | What happens |
|---|---|---|
| `overflow` | `CompleteMeansDerived` | finite readings whose power is infinite give an empty calculation, published with DataComplete and Connected 1 next to the cell voltages of an earlier poll |
| `delayed_shunt_index` | `DelayedShuntFound` | with an index other than 0 and a chain that is itself a shunt, the discovery at start counts that chain and the late one does not: a shunt found at start is never found late |
| `shunt_port` | `ReadsAShunt` | the product is asked for once, then only the name is kept: after the shunt is replugged to another port, a device that takes the old one is read as the shunt |
| `source_read_contract` | `StaleContractRejected` | when the metadata items of a native source time out, it is taken for one without metadata and accepted, though it reports incomplete data |

Two things the models make visible without contradicting a document: `/Alarms/InternalFailure`
is 0 in every poll, and a file of the candidate's release that no manifest names can come and go
between the two collections of `VerifiedAtOnce` (an absence has no identity to compare).

`AutomaticOrder` excepts releases that a forced push took off the branch. It has to: after a push
back to an older commit that commit is the head again, its run is not superseded
(`release_control.py` 1178-1180), captures and confirms it (`release_versioned.py` 809-827), and
publishes it after the newer release. Nothing compares a source with what is already
released, and no document says that it should. Without the exception TLC finds this
sequence with two commits.

### Bounds, and why they are enough

* Two chains are the smallest number for which one can be missing while another answers. The
  values of the samples differ, so that a sum over the wrong chains is a different
  number; the proofs cover every number of chains.
* `AgeLimit = 2` with `timeout = 2` has a fresh, an aging and an expired frame, and `-1`.
* `DiscoveryInterval`, `Ttl` and `ReconnectInterval` of one or two ticks make "within" and
  "after" the interval both reachable; nothing depends on their length.
* `MaxFinite = 3000` is small so that products, sums and partial sums overflow; the
  readings of `battery` never do, those of `overflow` do. The calculator's inputs are zero,
  charging and discharging values, both edges of the range, and invalid ones.
* Three ports and three devices are the smallest discovery with a chain that can be a shunt, a free
  shunt and a wrong device that takes its port; `MaxEvents = 3` lets a device leave, another
  take its place, and a call time out or a process restart.
* Two candidates and two promotions are the smallest set in which two runs race for
  a sequence, for the ledger and for the stable tag. `MaxAttempts = 2` gives one rerun,
  `MaxByHand = 1` one draft or deletion. `PolicyFloor` is the migration floor.
* `Grouped = FALSE` lets runs overlap, which the workflow's concurrency group prevents. The
  ledger does not rely on the group for what `ledger_overlap` checks, and a run that
  allows more behaviours than the workflow does shows that. `NoDowngrade` needs the
  group: with `Grouped = FALSE` TLC shows a run that consumed its number and is
  overtaken before it publishes.
* The versions of `preparation` are the current one, the next patch, which is tagged on another
  branch, the patch after that and the next minor: the search for a free patch takes a
  step, and two different preparations compete. Four commits hold a preparation, a change and a
  second push; six hold two preparations that are both merged. The constraint `Overlap` lets
  the two calls overlap only up to four commits; without it, all properties also held
  with five commits (7.4 million states).

* The commits of Promotion are the source, a later one, one that changes workflows and policy,
  and one that a forced push puts in place of the source. `MaxChanges = 2` is one change and
  one that hides it again, or a rerun and its end: what a second look could miss.
  `MaxAttempt = 2` is the candidate's run and one rerun; a verification begins in every state that a
  release with one replaced manifest can be in.
* Three commits of AutomaticRelease let a run be overtaken while another waits and a third
  cancels that one; four pushes let the branch go back to a commit and forward again; one fault
  is a failure, a rerun or a forced push.
* Two files, one of which has a field of another package; six jobs: selectors that agree, that
  contradict each other, that contradict each other only for a base version, and builds
  out of range. Two stops kill a sync and the sync that repairs it.
* Pages of two, four records and two bad responses: a list grows and shrinks across a page
  boundary while a read is repeated. A third bad response would end the call, as three
  attempts are all there are.

`CHECK_DEADLOCK FALSE` is given where the system may stop: the calculator with no chain has no
next step, runs of the release workflow and verifications end, and the commits of
`preparation` run out.

### Fairness

* VirtualBattery: the poll goes on (the main loop's timer, lines 1012-1020), the supervisor
  starts the process when the bus is up (`setup` installs it as a supervised service) and
  time passes. Nothing is assumed about publishers and the bus: `Recovers` has its
  assumption about them in its own premise, `FrozenChainExpires` has a publisher that
  never publishes again.
* Discovery: calls end (D-Bus calls have a timeout), polls go on, the process is started
  again, and time passes. `Reconnects` has "the daemon stays up" in its premise.
* Promotion: a verification goes on, weakly fair; every request ends, with an answer or an
  error (`gh` runs under a time limit). `UndisturbedSucceeds` excuses itself as soon as
  anything changes.
* AutomaticRelease: GitHub creates the run of a push and some run executes, both weakly fair.
  `HeadReleased` assumes that no run fails and nobody forces the branch.
* VersionFiles: a command goes on, weakly fair; who needs the version files runs sync again
  while it has not succeeded, strongly fair, as other commands can be running at any moment. Kills
  are bounded, so one of the syncs is not killed.
* GitHubTransport, SourceRead, ReleaseLedger and VersionPreparation have no liveness property:
  a failed call, read, run or preparation is not repeated by the code, or is repeated by the
  layer above, where it is checked.

## 4. What is proved

Every safety property that a passing run checks is also a theorem, for every value of the
constants that satisfies the modules' `ASSUME`s: TLC shows it on an instance, the theorem for any
number of chains, runs, commits, files, faults and so on. `PROJECT.json` lists the theorems, each
with the property it states. The inductive invariants were model-checked on the instances of the
runs before they were proved.

### Folds and induction (`FoldTheorems`)

The calculator adds up chains, the discovery filters names and the version files fold edits over
declarations, so what they compute for every length needs induction over data. A lemma whose
parameter is an operator cannot be used by the provers, so `FoldTheorems` states induction
about *sets* of numbers and of subsets (`Induction`, `RangeInduction`, `SubsetInduction`,
from well-founded minima) and recursion about *functions* (`Recursion`). The folds of the
library choose a solution of a recursive equation; `Recursion` says that there is one, and from
this follow what `SumFunction` does when one element is taken away (`SumAdds`) and
how a fold over a sequence goes on from one prefix to the next.

### The service

`VirtualBatteryProofs`:

* `TypeCorrect`: `TypeOK` is not inductive alone: `Write` picks `Order[step]`, so the position must
  lie in the order of the running poll. `TypeInv` adds `StepInOrder` for that, and the order only
  depends on the samples, which do not change while a poll writes.
* `AvailabilityCorrect`: `PublishInv` adds `WrittenSoFar`: while a poll writes, every path
  before the current position has the value of this poll, and the paths it does not
  reach are as before. At the end of a complete order the statement about idle states
  follows. `DownIsClear` covers restarts.
* `ShuntRetained` and `ShuntIdentity`: the constructor refuses a chain, the late discovery excludes
  them, both only return services whose product is a shunt, and neither runs once there is one.
* `CurrentIsComplete`: a step that changes `/Dc/0/Current` to a value is a `Write`; the value is the
  calculator's, which is not empty only if no partial sum left the range of a float, and then
  every partial sum is the exact one (`ChainTotalSteps`).
* `ConnectedIsMeasured`: `Representable => (Spec => []ConnectedMeansMeasured)`. `MeasuredInv` adds
  that what is on the bus and what was accepted came from the publishers. `Representable` is a
  statement about constants: the capacity is valid, and no usable readings of the publishers
  together overflow a float. The instance of `battery` satisfies it, that of `overflow` does
  not, and there the property is false: it is the finding of that run. Real readings
  are volts and amperes, some three hundred powers of ten away from the edge.

`SourceReadProofs`, for every number of sources, set of frames and lifetime of the cache:

* `ReadsSinceBegin`: while a read is under way the frame on the bus is among those it may see,
  and what it has got, and what the cache holds of its source, was published since it began,
  because beginning a read invalidates the cache of the source.
* `AcceptsWholeFrames`: of a chain that publishes over MQTT, the read holds one whole frame
  or nothing.

`DeviceProofs`, for every number of chains and all measurements, and every set of ports and devices:

* `SubtractsEach`, `NeverPartial`, `ChargeBalances`, `TimeToGoIsSound`, `MoreDrawnIsLess`: from
  what the calculator's totals are (`ChainTotalSteps`: the exact sum or `NonFinite`) and a
  description of the result in terms of the inputs (`OkMeans`, `ChargeDerived`, `Explained`). The
  time to go is an integer quotient of products, beyond the SMT solver as such; it follows
  from what a quotient is (`Quotient`) and that products grow with their factors.
* `SelectsAShunt`: `Seen`: the candidates so far were shunts when they answered, and while a discovery
  asks, whoever is a shunt is recorded.
* `DiscoveryIsOneStep`: `Progress`: as long as nothing disturbs it, the answers so far and the names
  still to ask are in ascending order, the former before the latter, and account for every
  shunt on the bus. At the end the candidates are the shunts in order, and two increasing
  sequences with the same elements are the same.

### The release engine

`ReleaseLedgerProofs` proves every safety property of ReleaseLedger, for every set of runs, every
assignment of channels and base versions, every policy floor and every bound:

* `LedgerTypeCorrect`, `ReservationsUnique` and `LedgerOnlyGrows` follow from `LedgerInv`. A
  write succeeds only if the ledger still equals what its run has read, so the invariant
  (`RunInv`) speaks of the *copy* a run holds and of the plan it made from it: the copy is
  well formed, the plan is new to it (`New`), and a plan that was verified lies between
  its floor and its counter. When the compare-and-swap succeeds, this is a fact about
  the ledger. A nightly tag is new because it carries the id of its run (`OwnLine`).
* `TagsOnce`, `ShippedReserved` and `DraftsOwned` follow from `PublicationInv`: a run that
  publishes holds its reservation or a published candidate (`Entitled`), owns the only draft it
  has under its tag (`Drafted`, `OneDraft`), and no two such runs have the same
  target (`DistinctTargets`), because GitHub creates a tag once and a tag is never deleted.
* `PublicationOrdered`: if `Grouped`, then `Spec => NoDowngrade`. `OrderInv` adds that one run
  is active at a time and that, once it has raised the floor, everything public lies
  behind its number: the floor lies above everything public, and nobody else
  publishes meanwhile. The first of these is `ShippedIsReserved`, the second is where the group
  is needed.
* `LedgerImplementsNumbers`: if `Grouped`, then `Spec => ImplementsNumbers`, step by step from the
  same invariants.

`PromotionProofs` proves the safety properties of Promotion, for every set of commits, packages,
contents and manifests, and every number of attempts and changes:

* `PromotionTyped`. Steps are positions in `Order`, so the invariants speak of positions: what
  has been collected by a position is a function of it (`Shape` and the lemmas on `Order`).
* `PromotesTheAcceptedBytes`: an artifact of the evidence has the manifest that was read, from the
  step that looks for it on (`BytesInv`); every staged file is one of that manifest with its
  bytes; the stable release gets these and nothing else.
* `EvidenceIsOfLatestAttempt`: attempts are only added, and one that was executed stays so
  (`EvidenceInv`). The run is checked before and after the evidence is read, so the
  attempt was the latest in between.
* `VerifiesOneInstant`: a revision of the release or the identity of an asset that is gone never
  comes back (`AgesInv`, `SinceInv`): each is as it was in the first collection, or
  replaced for good. So if the second collection equals the first, then at the instant
  between them, at which the witness is taken, everything was as both say (`WitnessInv`).

`ReleasePartsProofs` proves the safety properties of the other three parts of `MCRelease`:

* GitHubTransport. `CreatesOnce`: a creation that is being sent has created nothing yet.
  `ReadsAreSound`, for every page size, number of attempts and releases: releases are listed
  the newest first (`Listing`), so a new one only moves the others back; a record that was
  there throughout the attempt has been gathered or lies on a page still to come, unless one was
  deleted (`ListInv`). Every attempt starts a history of its own with nothing gathered.
* AutomaticRelease, for any number of commits, pushes, schedules, faults and runs (`RunsInv`).
  `ReleasesInOrder`: what is released or confirmed stays on the branch until a forced push takes it
  off (`Retained`), and a commit is based on commits that are not newer (`Branches`). When a run is
  confirmed, its source is the head, so a release that is newer than the source is not
  on the branch any more and was dropped; one run executes at a time, so nothing else is published
  before it is (`Confirmable`). The confirmed head is one since the number was consumed:
  `PublishesAHead`.
* VersionFiles, for every set of files, policy and plan, and every number of edits and kills.
  `DeclarationsHold` and `KeepsEdits` rest on `FilesInv`, which follows a command through its phases:
  every declared path has been read or is still to be read, and a file nobody has edited
  since is as it was read, or as edited once it has been replaced (`ReadInv`); the edited
  contents satisfy *every* declaration (`EditInv`: this is what `Consistent` checks, and what an
  edit that undoes an earlier one would break); what differs is staged as edited
  (`StageInv`); between the look at a file and its replacement the only new edits are in
  `unseen` (`ReplaceInv`). `EditAllKeeps`, `ListedAll` and `SortedAll` say of the folds over the
  declarations that an edit changes neither which fields a file has nor its edits by hand, that
  every path of a declaration is visited, and that sorting loses none.

Of the constants, two things are assumed (`FilesAssumption`, `TransportAssumption`): the committed
files are as `git show HEAD:` gives them, with fields and without edits by hand; a policy has at
least one declaration (`validate_policy`) and declares files that exist, as a missing one ends
any command when it is first read; pages have at least one record; and `None` is no result of
a call.

`VersionPreparationProofs`, for every set of developers, versions and foreign tags and every number
of commits:

* `PreparationTyped`: everything has its type, and a call writes only with the branch it has
  verified as the head of the pull request.
* `KeepsEdits`: what a commit holds, every commit based on it holds (`Sound`). A branch that a call
  writes onto adds nothing to the head the call started from (`CallsOwn`), so the pushed
  tree lacks nothing of it, and an edit makes a branch add something.
* `BaseGoesUp`: a commit's base version is not older than that of any commit it is based
  on (`Sound`), and the target of a call is not older than the head it was chosen for
  (`CallsOwn`).
* `NeverLockedOut`: `Resumable` asks that *every* merge base git may take of a branch and the
  default branch accepts the branch. `ResumeInv` says why: the tips the default branch has had are
  comparable (`Line`), and a branch that only calls have written has one of them as its head,
  with nothing beside it but commits of its own version (`OwnedBy`). If none of these was merged, the
  merge base is that head and no other (`OneMergeBase`), and the tree of the branch is its
  projection.

The assumptions are those named in the modules: run ids and bounds are numbers, sentinels are
not values, ports are not chains, publishers publish frames. TLC evaluates them in the runs. What
the modules mark external (GitHub, the D-Bus daemon, people) is assumed to do no more than
its actions say.

### Model-checked only

The liveness properties `FrozenChainExpires`, `Recovers`, `Reconnects`, `HeadReleased` and
`SyncCompletes`, and `UndisturbedSucceeds` with its premise about the whole behaviour: they need
`ENABLED` and fairness, which are out of the prover's reach. The four runs that fail show
counterexamples, not theorems.

## 5. What is not modelled, and the plan

Not modelled in the modelled components: wording and rounding of published values, logging, garbage
collection, the Venus library (`VeDbusService`, the main loop), the syntax of version files, the size
of the numbers of a base version (Apple's bundle versions limit it), release notes and labels. A blocking call in VirtualBattery takes no time of its own: time may
pass between steps, and how long a poll may last is not bounded.

Not modelled, with the reason:

| Part | Reason |
|---|---|
| Verification of built archives (`version_plan.py` 1242-1767), receipts, provenance, change scope, workflow contracts | they read files and accept or refuse; nothing is kept and nothing interleaves. That they can refuse is in ReleaseLedger (`Fail`) and Promotion |
| Release signing, fuzz and validation gates, scan wrappers | results of external programs; each is a check that may refuse |
| Asset staging, packaging, OCI merge, metadata writers | deterministic transformations of files |
| Runner preflight, installers, deployment and helper scripts | one-shot sequences of operations on a host |
| Release client (`release.py`) | starts workflows and polls them; decides nothing |
| The dry run and the local edit of `prepare-version` | the same choice of a version as with `--pr`, without the remote |
| Workflow jobs and permissions | configuration of a service outside the repository |

The plan, and where it stands:

1. *Calculator, SourceFrame, VirtualBattery, SourceRead* with their proofs: done.
2. *BusConnection, Discovery*, their relation to the one-step discovery, and its proof: done.
3. *ReleaseLedger, ReleaseNumbers*, the proofs and the refinement: done.
4. *VersionPreparation* with proofs: done for `--pr`.
5. *Promotion, AutomaticRelease, VersionFiles, GitHubTransport* with proofs: done.
6. Left to model: an abstract specification of what a client of the battery sees (unavailable, or a
   consistent picture of one poll) that VirtualBattery implements; ReleaseLedger with Promotion's
   verification in place of `SelectCandidate`; archive verification as an operator over the
   members of an archive.
7. Left to prove: that refinement, step by step; that the state of every part of MCRelease has
   its type (the invariants above type what they need); that an undisturbed discovery is
   VirtualBattery's `Boot` or `Rediscover`, as a mapping of steps instead of a relation
   between results.

# Release operations: specifications

TLA+ modules for `jeryu-release-ops`, the repository that signs releases, decides
versions, plans what a change affects, guards the git that agents use, keeps the
governance records and produces the Redline evidence of a family of repositories.
Each module is translated from the source; `PROJECT.json` maps every definition to
the lines it stands for, lists the hazards and the properties aimed at them, and
names for every property a mutant of the model that breaks it (the operators
commented `Mutant:`; they take no part in `Next`).

Paths below are relative to `src/`; `crates/jeryu-` is left out of crate names.

## 1. Inventory

| component | state it keeps | operations | interacts with | what is hard | what makes it correct |
|---|---|---|---|---|---|
| `signrail` commands (`cli/`, `store.rs`) | JSON files and artifacts under one store root, an output directory per checkout; nothing in memory survives a process | `sign-release`, `verify-release` | other runs and checks through the files, the build through the artifact | no lock, truncating writes, kills, retries, runs that race, a verifier that reads in between | nothing unapproved is stored; the receipt comes last; what is accepted was approved; a retry repairs |
| `signrail` library (`release.rs`, `policy.rs`, `provenance.rs`, ...) | one `Release` value | `add_artifact`, `attach_sbom`, `attach_rollback`, `set_immutable`, `sign_with`, `validate_release` | a signer that may fail at any statement | calls and edits in any order, expiry | a witness covers exactly what one signing signed |
| `wsversion` | `Cargo.toml`, `CHANGELOG.md` | `decide`, `apply` | git, the affected plan, `cargo semver-checks`; the forge starts it per push | its own release commit comes back; it dies between two files; main moves on | every push is released once, by a step that covers its commits, and the files agree |
| `repogate`: affected plan | none between calls | `affected` | git, four times; `wsversion` and CI read the plan | the checkout changes between questions, failed answers, cyclic dependencies | no changed package is left out, none is planned without cause |
| `repogate`: family manifest | `repos.manifest.toml` | `family-manifest`, a transition check without a caller | the merge gate, the evidence producer | several lists that have to agree | valid manifests are exactly the governed inventory |
| Redline evidence (`ops/ci/redline-consumer.sh`) | evidence, test log, sidecar | one script | the checkout, the forge, Redline's receipt, cargo | each check reads its files anew; runs die over the files of the last one | vouched evidence says what is true of its commit |
| `phase11-core`, `phase11-bin` | an append-only ledger of receipts | tenant decisions, operations, upgrade and rollback plans, replay verdicts, exports, readiness | clock; services or the kernel | any order of calls, refusals half way, readiness from parts | every document is backed by a receipt; ready means backed |
| `git-guard` | none | the `jeryu-git` wrapper | the auditor and the real git, by exec | two walks over one command line | no commit unaudited or unverified |
| `repogate`: other gates | none | lanes, release, score, security, fixtures | files | text | one-shot scans |
| `signing` | none | Ed25519 | `signrail` | algebra | a signature verifies under its key over what was signed |
| `evidence`, `mapcheck` | none | marker scan, map comparison | files | text | one-shot scans |
| `obs` | an in-memory audit chain | append, verify, SLOs, drills, soak | its callers | little: one owner | pure |
| `bench` | a replay plan in memory | receipts, harness, comparison | files | floating point | pure |
| pull request gate (`ops/ci/lib.sh`, `ensure-jankurai.sh`, `pr-ci.sh`, `score.sh`, `proof_evidence.sh`) | the auditor, its record and its receipts on the host; the committed baseline of every commit; exported variables for the length of a lane | `require_jankurai`, the lanes, the baseline check, the merge | the installer of the host, protected main at the forge | files read one after the other while they are replaced; verified first and run later by path; checks made against an old main, merged into a new one | a lane knows one auditor; what passes is clean by it; main never loses its baseline |
| other `ops/ci` lanes, hooks, scripts, tools, drills | reports | sequences of tools | all of the above | nothing is kept between them | - |
| `agent`, `docs`, `schemas`, `fixtures`, `dashboards`, `db`, `configs` | data | - | - | - | - |

## 2. Modules

| module | models | checked by | proofs |
|---|---|---|---|
| `ReleaseLedger` | what release signing promises: approved, published, answered | as `LedgerSpec` in `race` | `SignRail_proofs!LedgerHolds` |
| `SignRail` | `sign-release` and `verify-release` as processes over one store | `race`, `retry`, `store` | `SignRail_proofs` |
| `ReleaseAssembly` | a `Release` value, signing and `validate_release` | `assembly` | `ReleaseAssembly_proofs` |
| `WsVersion` | the versioning engine behind the forge's pushes | `version` | `WsVersion_proofs` |
| `AffectedPlan` | `build_affected_plan` with a developer at work | `plan` | `AffectedPlan_proofs` |
| `Governance` | the operations on the ledger and the kernel's run | `governance` | `Governance_proofs` |
| `CommitGate` | the git wrapper on its way to one commit | `commit_gate`, `unverified` | `CommitGate_proofs` |
| `FamilyManifest` | validation of the family manifest, as a predicate | through `ConsumerEvidence` | with `ConsumerEvidence` |
| `ConsumerEvidence` | the evidence producer, merges and Redline's CI around it | `evidence`, `evidence_policy` | `ConsumerEvidence_proofs` |
| `AuditorPin` | the auditor of a host, its installer, and the verification of one by the other's files | through `PrGate` | with `PrGate` |
| `PrGate` | the lanes of a pull request over `AuditorPin`, and main they guard | `pr_gate` | `PrGate_proofs` |

`MC<module>` extends a module with the definitions its configurations need.

### State and actions

**SignRail.** `fs` maps a file (kind, id or directory, stage) to a run, to `absent`,
`torn` (truncated, not filled) or `mixed` (longer remains of another document under a
shorter one). `pc[r]`, `step[r]`, `digest[r]` are where a `sign-release` run is, which
of its writes comes next (the order of `cli/sign.rs:128-170`) and the digest it took at
the start; `cpc[c]`, `loaded[c]` the same for a check. `Hash`, `Block`, `Approve` are
the run up to `validate_release`; `CopyBegin/CopyEnd` and `WriteBegin/WriteEnd` the
truncating and the filling half of `fs::copy` and `fs::write`; `Stop` a kill or an I/O
error; `Rebuild` a build that replaces the artifact, at any time; `ReadRelease`,
`CheckRelease`, `ReadReceipt` the three reads of `verify-release` with the comparisons
made after each. `latest` and `clean` are history, as is everything a comment calls so.

What is abstracted: sha256 is injective; a JSON document is identified with the run
that rendered it; the copies in the output directory that no command reads are one
slot; release ids have distinct flattened file names; the artifact has the same name
in all checkouts; a document's size decides which remains stay under a shorter one; a
receipt's stage and digest are implied by its slot and its run. Stages are non-empty
(`sign_args.rs:106-112`), and the default output directory is shared by the runs of a
checkout (`sign_args.rs:120`). A file changed by hand is not in the model: every
rejection there comes from races, kills, keys and stages.

**ReleaseAssembly.** One action per method, in any order, because methods and fields
are public, and one per way a caller may assign to a field behind the methods' back
(`Edit`): an artifact taken out, the SBOM dropped, source, version or identity changed,
a statement changed, dropped, repeated or brought from elsewhere (`Foreign`).
`SignOutage` is a signer that fails at statement n; `sign_with` without an SBOM changes
nothing. A source stands for the nine fields a statement copies, a `Header` for the
version and for issuer, audience and claims of the identity. A signature is its
algorithm, key, secret and message. `Passes` lists the gates of `validate_release` in
program order; witness coverage needs no gate of its own: it is complete once the counts
match. The caller's clock may be set forth and back.

**WsVersion.** `history` is main, `pending` the ranges of the pushes not yet handled,
`tree` the files of the checkout and what is left in them, `releases` what was
released. `host` is how the engine is run and fixed in `Init`: each run in a clean
checkout or in the last one's, missing tools excused or not. Pushes come at any time.
`Skip` and `Decide` are `decide.rs` to its decision, with `shown` false where
`git log -1` fails, which counts as a commit without the marker; `WriteBegin/End` and
`RollBegin/End` the two files, where `Bullets` are the commits a section names;
`Crash`, `CommitRelease` and `Restore` the caller. Whether the API is broken is
external (`ApiBroken`: some commit since the last major release broke it); the probe
may find no tool, one that answers or one that fails by itself, which counts as a break
because only its exit status is read (`Tools`). `PlanEmpty` is the plan over
`base...HEAD` plus a dirty `Cargo.toml`.

**AffectedPlan.** `place[f]` is where git would report a file; `Ask` and `AskFails` are
the four questions (only the first one's failure is an error), with deletions filtered;
`Escalate` empties the packages; `FindDirect` and `Visit` are the walk over the reverse
dependencies with its queue. `Work` is the developer, enabled by `Busy`. A file is owned
by the innermost package around it.

**Governance.** `ledger` is the sequence of receipts, `docs` what was handed out, each
with its receipt. Each operation is an action that ends in `Issue` or in a refusal that
issues nothing; services call them in any order, the kernel (`KernelStep`) in its own.
`Id` is what the code makes of a receipt: its fields joined without escaping, cut by the
separator into words (`Words`), under a `Digest` of which nothing is assumed; `Find`
returns the first receipt with an id. `clock` is any integer and is set forth and back
(`Tick`); before the epoch the code stamps 0 (`Now`). Claims and signals are the set of
checks they fail; four quotas are one counter; sorting, remediation hints and JSON are
left out; rings are always in order. `Texts` is what names and undo texts range over.

**CommitGate.** `argv` is any sequence of token classes, `env` what is set and how the
auditor and git behave. `PassOption`, `DenyOption`, `Command`, `CommitArgument` are the
verdict's walk; `SkipOption` is the second walk of `leading_subcommand`; `Dispatch`,
`RunCommitGate`, `Exec` the wrapper. The classes tell apart what git does and the code
does not: an option of commit with a value (`-m`), and the beginning of an option
(`--no-verif`). Subcommands judged by their own arguments may be allowed or denied. What
the auditor reads and what git commits are external.

**ConsumerEvidence, FamilyManifest.** `head`, `onMain`, `work` are the checkout,
`forge` main at the forge, `receipt`, `receiptSum`, `redline` Redline's files; `pc`
goes through `Steps`, one per command of the script that reads or writes something;
`ev` is what a run has noted, `log`, `output`, `sidecar` the files. A failed command
ends the run (`set -e`, `die`). `Edit` and `Refresh` are the world, before a run and
between any two of its steps, and `moved` counts what they did between the first and
the last look at what they move; `Merge` is the forge, behind the gate of
`ops/ci/check.sh:23-25`. A digest is the file it was taken of. A run is given the
canonical manifest (another ends it before it reads anything), and as its policy the
checkout's own (`own`) or any file (`Others`). Redline's policy is only digested and
left out; the evidence always matches its schema. `Valid(m)` is `validate` of
`family_manifest.rs`; fields that may have one value only are one Boolean (`canonical`).

**AuditorPin.** `bin`, `stamp`, `receipts` are the auditor's file, the installer's
record and the receipts beside it; `Install` replaces any of them, in any order, at any
time. `Locate`, `ReadVersion`, `ReadDigest`, `CheckCurrent`, `FindReceipt`, `Export` are
the reads of `require_jankurai` (`lib.sh:19-403`) in its order, each of the host as it is
by then; `seen` is what the shell's locals hold, `identity` what is exported, `pinned`
the exported receipt, which is the only candidate of the later calls of a lane. `env` is
how the host runs its lanes: as a release broker, on a diagnostic candidate or on what
is installed, at the governed path or not, with an asserted digest, receipt or record or
without. A broker's record that is there but empty is not compared (`IsBlank`), as the
`-n` of `lib.sh:120` and `136` has it. Digests are builds; a receipt that is ill-formed
in any way is not in `receipts`.

**PrGate.** `Script` is the order in which `pr-ci.sh`, `score.sh` and
`proof_evidence.sh` use the auditor, `at` the place in it; every step but the baseline
check runs `AuditorPin`'s verification first and then whatever is at the path. A lane
ends by `Report`, or by `GiveUp`: a failed verification, a kill, or any other command of
the lanes that fails (formatters, tests, the renderer check, the build-cache guard: they
touch nothing modelled). `BaselineHolds` is the check of the committed baseline
(`proof_evidence.sh:51-150`): its commit is an ancestor, its report is by the verified
auditor, of the variant with this checkout's policy, and clean. `Merge` is the forge:
three-way, file by file, of a topic that passed at some time against main as it is now.
`CleanTrees` says which build finds which tree clean and is a constant.

## 3. Runs

| run | instance | states | what it shows |
|---|---|---|---|
| `race` | 2 runs of one release, 2 directories, 2 keys, good and blocked requests, 1 check, symmetry over runs | 0.9 M | `ApprovedOnly`, `ReceiptLast`, `AcceptedSound`; implements `ReleaseLedger` (`LedgerSpec`) |
| `retry` | 2 runs one after the other, 2 ids, rebuilds at any time, 1 check, fair | 1.4 M | `NoSpuriousReject`, `RetryRepairs`, `SettledIsAccepted` |
| `store` | 1 run, and a build that does not wait for it | violation | `ContentAddressed`: other bytes stored under the digest that was signed |
| `assembly` | 2 artifacts, 4 kinds of them, 3 signers (2 identities, 2 secrets, 2 algorithms), 2 sources, 5 headers, one assignment, expiry at 1 | 3.0 M | `WitnessSound`, `WitnessedAsSigned`, `SignedPasses` |
| `plan` | 3 packages, 3 files, chain, cycle, fork and no edges | 0.8 M | `NothingSlips`, `NothingExtra`, `PlanEnds` |
| `version` | 3 commits of 5 sorts, pushes of up to 2, 2 hosts, every kind of tool, one release decided with git failing | 2.5 M | `BumpCovers`, `InSync`, `ChangelogIsReleases`, `ReleasesEarned`, `FloorIsPatch`, `BreakingIsMajor` |
| `governance` | 2 tenants, an actor and a claim with a separator, 3 documents, a clock from -1 to 1 | 1.3 M | `LedgerAccounts`, `StateIsWorst`, `ReadySound`, `RollbackUndoes` |
| `commit_gate` | command lines of up to 4 tokens of 12 classes | 1.7 M | `AuditedCommits` |
| `unverified` | the same | violation | `NeverUnverified`: `commit -m -- --no-verify` and `commit --no-verif` are let through |
| `evidence` | 2 runs, 2 commits, 2 receipts, some 30 manifests, 3 policies, a move between two looks | 1.5 M | `VouchedIsChecked`, `EvidenceBinds`, `ManifestPinned` |
| `evidence_policy` | 1 run, given a policy file of the caller's, nothing moving | violation | `PolicyBinds`: the digest is not that of the policy at the commit |
| `pr_gate` | 2 builds, 2 policies, 2 codes, 7 worlds: merges on a quiet host; upgrades with and without a record or a way back; an auditor elsewhere; a broker; a candidate | 2.6 M | `OneAuditor`, `PassedIsClean`, `MainKeepsBaseline` |

Each passing run but `retry` also checks its module's `TypeOK`.

### Where the code and its documents disagree

`PROJECT.json` quotes both sides of the three violations:

- `store`: `store.rs:1` and `30` call the store content-addressed; the artifact is hashed
  when the run starts and copied, under that digest, when all is signed.
- `unverified`: `jeryu-git.rs:30` says `--no-verify` is refused; the search stops at the
  first `--`, the value of `-m` included, and knows the full spelling only. The wrapper's
  own audit is run all the same (`AuditedCommits`).
- `evidence_policy`: the schema (line 57) says the policy digest is that of
  `agent/audit-policy.toml` at the commit; it is that of whatever file is named.

Others are exceptions that a property states, so that it says how far the code gets:

- `classify.rs:4` promises MAJOR for a breaking API change. An empty plan asks nothing,
  and a commit since the range's base that touches a shared file empties it, a release
  commit included, as does one where nothing touches a package: an unmarked break is then
  a patch (`BreakingIsMajor`, last disjunct).
- `classify.rs:7` promises a patch at least for every merge. A developer's commit that
  repeats the marker, as `git revert` of a release commit does, loses its push and what
  was lost before it (`FloorIsPatch`).
- `decide.rs:54-56` promises that the engine never re-triggers on its own release commit.
  It does where `git log -1` fails; the release is a patch without commits
  (`ReleasesEarned`, `blind`).
- The schema (lines 37, 42) has the engine tag and commit in the bound and passing
  receipt, and a policy at a commit of a checkout that was clean. The script reads receipt
  and checkout anew at each check: when Redline's CI writes a new receipt between two of
  them, or the checkout is edited between the check and the digests, evidence is written
  that mixes the two. `VouchedIsChecked` and `EvidenceBinds` say what holds all the same,
  and the rest of what nothing moved to break (`basis.moved`).

Two are not in a model:

- `docs/release.md:31-33` has the receipt accepted only with matching manifest and policy
  hashes; Redline's policy is digested (`redline-consumer.sh:64`, `122`) and compared with
  nothing.
- `README.md:60-61` of the repository: compliance "may advance to `enforced` and may not
  roll back". Each manifest is validated by itself (`check.sh:23-25`), and the check of the
  transition (`family_manifest.rs:126-140`) has only a test as its caller.

### Bounds

Two runs are every way two writers overlap file by file; a third adds
another truncation of the same files, and the proofs cover any number. Two stages are
the first and the last receipt. Three packages hold every shape of walk (a chain, a
cycle, a fork), three files one per package, of which one is shared. Two commits of a push are
one that decides and one that hides, the third comes meanwhile; versions whose parts add up
to 4 reach every reset and a second major. One release decided with the marker out of
sight (`MaxBlind`) is one more than the engine means to make. One assignment to a field
between any calls (`MaxEdits`) is every single edit at every stage of a release; the
proofs cover any number.
Two builds are the verified one and the other; an upgrade that matters is at most three
steps of the installer (file, record, receipt); two merges onto the first baseline are
one topic that moves the baseline and one that is older than it. What varies is dealt
out over worlds (`Worlds`) rather than multiplied: upgrades and merges share no state but
the baseline, so that one world has the merges and the others the upgrades. Four tokens
are an option with a value, its value, and two more, or a subcommand with an option, its
value and an argument, with every class at each place. Two evidence runs are one that
leaves files and one that writes over them, with a move in either.
Counters that would grow (`MaxCommits`, `MaxPush`, `MaxSum`, `MaxBlind`, `MaxCalls`,
`MaxClock`, `MaxTime`, `MaxArtifacts`, `MaxEdits`, `MaxLen`, `MaxRuns`, `MaxMoves`,
`MaxWaiting`, a world's `moves` and `merges`) are bounded in the guards of the
environment; `MaxSum` and `MaxBlind` bound what is released, in the guard of `Decide`,
because that is where a release is started. `Awaited` stops the world once the last run of
the bound is over. `CHECK_DEADLOCK FALSE` is set where the system ends: after the
plan, the wrapper's verdict, the last push, call or run.

### Fairness

`SignRail!FairSpec`: weak fairness of each started process, because the
operating system schedules it; a kill (`Stop`) is not fair, nor is the start of a run.
`AffectedPlan!FairSpec`: weak fairness of the planner, one process whose git commands
end; the developer is not fair. The other specifications assume none: what they promise
is about what may happen, and a lane or an `apply` that is never run again is allowed.

## 4. Proofs

| theorem | inductive invariant |
|---|---|
| `SignRail_proofs!TypeCorrect` | `TInv` |
| `ApprovedOnlyHolds` | `AInv`: a run past its first step has passed its gates (`Gated`), and a file with a run's document is one that run wrote (`Own`) |
| `ReceiptLastHolds` | `RInv`: no file disappears, so what a run is past is still there (`Kept`); a receipt that exists has a run of its release past the four store files (`Backed`) |
| `AcceptedSoundHolds` | `VInv`: what each comparison of a check established is still true later, although the files may have been rewritten since (`Vetted`) |
| `LedgerHolds` | `LInv`: `VInv`, and a release read back from an output directory was approved (`Begun`) |
| `RetryRepairsHolds`, if `Exclusive` | `WInv`: one run at a time (`Serial`), a writing run is the newest of its release, and all the newest run wrote is whole but the file it is in (`Whole`) |
| `NoSpuriousRejectHolds`, if `Exclusive` | `SInv`: `WInv`, and a clean check holds the newest release, complete (`Rest`) |
| `AffectedPlan_proofs!PlanTypeCorrect`, `NothingSlipsHolds`, `NothingExtraHolds` | `PInv`: `TypeOK`, `Listed` (a file nobody moved and no failed answer hid is among the changed), `Walked` (dependents of a visited package are visited or queued), `NothingExtra` |
| `CommitGate_proofs!GateTypeCorrect`, `AuditedCommitsHolds`, `OptionsVettedHolds` | `IInv`: every token the second walk can be at is one the first walk let pass or the subcommand it found, so the walks agree |
| `PrGate_proofs!TypeCorrect`, `OneAuditorHolds`, `PassedIsCleanHolds`, `MainKeepsBaselineHolds` | `IInv`: `TypeOK`, `PinnedIsSeen`, `BuildsInOrder`, `MainKeepsBaseline`, `TopicsHold` |
| `ReleaseAssembly_proofs!AssemblyTypeCorrect`, `WitnessSoundHolds`, `WitnessedAsSignedHolds`, `SignedPassesHolds` | `IInv`: `TypeOK`, and a statement's signature is one of the last signing or came from elsewhere, whatever has been done to the statement since (`LastSigning`) |
| `WsVersion_proofs!WsTypeCorrect` | `TInv`: the queued ranges follow one another up to the newest commit (`Queued`), and what a run has written so far is what it decided (`Staged`) |
| `ReleasesEarnedHolds` | `EInv`: released ranges are settled and in order (`Ordered`), and a range of the engine's own commits is decided as a blind patch without commits (`Earned`) |
| `BumpCoversHolds` | `GInv`: the version committed is that of the newest release, the checkout is never behind it, and the run in progress climbs as its range asks (`Grown`) |
| `InSyncHolds` | `SInv`: changelog sections fall strictly, and the version about to be put on top of them is above (`Logged`) |
| `ChangelogIsReleasesHolds` | `CInv`: in a clean checkout a run rolls the committed changelog (`Listed`) |
| `FloorIsPatchHolds` | `FInv`: a range that ends in a release commit holds nothing else, and what is settled and unreleased was lost (`Floor`) |
| `BreakingIsMajorHolds` | `MInv`: `GInv`, and for the run in progress and every release, each break it saw is covered by then or the gate was not asked (`Major`) |
| `ConsumerEvidence_proofs!EvidenceTypeCorrect` | `TInv`: at each step of the script, what the run has noted by then (`Typed`) |
| `VouchedIsCheckedHolds` | `CInv`: at each step, what the checks before it found of commit, receipt and log is still so (`CheckedSoFar`); `SInv`: the rest, while nothing of Redline's moved (`SeenSoFar`) |
| `EvidenceBindsHolds` | `BInv`: the same for the checkout (`BoundSoFar`) |
| `ManifestPinnedHolds` | of `Valid` itself: counting rows |
| `Governance_proofs!GovernanceTypeCorrect`, `LedgerAccountsHolds`, `StateIsWorstHolds`, `RollbackUndoesHolds`, `ReadySoundHolds` | `IInv`: every document is well made and has its receipt in the ledger, every receipt its document (`AccountedIn`), and the kernel has one document per call made (`RunOf`) |

They hold for every value of the constants under the named assumptions of the modules
(`RequestsAssumption`, `InvocationsAssumption`, `FilesAssumption`, `NestedAssumption`,
`InputsAssumption`, ...), which TLC evaluates in the runs: any number of concurrent and
dying runs and of checks, any dependency graph with or without cycles, command lines,
histories, ledgers and lists of artifacts of any length, any number of edits. What a
theorem states was checked by TLC before it was proved. The properties alone
are not inductive: `AuditedCommits` says nothing while
the first walk is under way, `ReceiptLast` nothing of a run between two writes, `InSync`
nothing of what a dead run left in the checkout.

**Hypotheses.** Two theorems have one, `Exclusive`, and the run that checks their
properties has the same: `sign-release` takes no lock, so only its caller can keep runs
apart, as one does that retries a run when it is over; without it two runs mix their files.

**Arguments.** *Refinement.* `LedgerHolds` maps every step of every run and check to a
step of `ReleaseLedger` or to none: `Approve` approves, a `WriteEnd` in the store's
receipts publishes, a check's last comparison answers, with a claim that was approved
and published (`VInv`), and the rest leave the mapped state as it is. *Retry.* A dead
run's remains are overwritten file by file: with one run at a time, `Whole` follows the newest run through its list of writes, and `Complete` says
that at the end the list is over. *Signing.* No assignment to a statement changes a
signature (`LastSigning`), so that a statement that verifies is word for word one that
the last signing, or someone else, signed; the gates compare it with the release as it is,
and as many different ones as there are artifacts name each artifact once
(`WitnessSound`). *Versions.* `Less` is an order on triples; each release is above
the one before because a run starts from the checkout's version, which `Grown` keeps at
or above the committed one even after a run that died between its two files. A push whose
newest commit is the engine's own holds nothing else, so that skipping it loses nothing;
any other skip is for a developer's marker (`Floor`). *Evidence.*
The script is a list of steps; the invariants say for each check that from that step on
it stays true, or that something moved since, so that a proof of a step only looks at the
check it makes. *Manifests.*
A list as long as the set it covers names each of its members once and
nothing else (`FS_Surjection`). *Governance.* The id of a receipt finds one because the
receipt itself is in the ledger, and one joined of the same words without a separator in
them has the same fields, one by one. A fold over a
sequence is a chain of its partial results (`PushRuns`, `BackRuns`), along which an
induction, written as a set of naturals without a least counterexample, shows that the
state is the worst so far, and that a rollback leaves a beginning of the migrations that
is empty or ends in one that is not reversible.

`PassedIsClean` needs the longest argument. A verification reads a file that may be
another by the next line, and the audit of `score.sh` runs a third. On a host that goes
forward the builds are in order: the pinned one is no newer than the one the audit ran,
that one no newer than what the next verification reads, and that no newer than what is
installed (`BuildsInOrder`). The next verification accepts only the receipt already
pinned (`PinnedIsSeen`), which closes the chain to an equality: the build in the middle
was the pinned one. `MainKeepsBaseline` rests on `TopicsHold`: a topic that
passed was cut from main and carries a clean baseline, for its own policy, of a commit of
main; in a three-way merge that does not conflict baseline and policy come from sides
that agree, because a side that changed the policy had to change the baseline with it.

Model-checked only: liveness under fairness (`SettledIsAccepted`, `PlanEnds`), which is
out of the prover's reach together with `ENABLED`. Everything else that a passing run
checks is proved. The library's induction theorems take an operator as a parameter,
which no installed prover can instantiate; induction is written over sets of naturals
instead, from the well-foundedness of `<` (`Ascends` in `Governance_proofs`). String
literals are not known to the provers to be in `STRING`, so types name the sets of
strings they allow (`Codes`, `Subjects`, `Texts`). No module uses a `RECURSIVE` operator.

## 5. Not modelled, and left out by a property

- `signing`: that a signature verifies under its key over what was signed, and no other,
  is assumed (`Sign`, `Genuine`, and the key comparison of `CheckRelease`); its key files,
  shared-secret keys and unsigned marker are for other repositories.
- The scans of `evidence`, `mapcheck` and the other gates of `repogate`; `obs`, whose
  log has one owner and is never stored; the arithmetic of `bench`: pure functions.
- The other `ops/ci` lanes (`fast.sh`, `security.sh`, `artifact_support.sh`), hooks,
  scripts, drills: sequences of external tools that keep nothing between them.
- In `PrGate`: what a renderer, a cache or a test finds (they end a lane, `GiveUp`).
  `OneAuditor` and `PassedIsClean` leave out release brokers: their lanes have no receipt
  that would tie their verifications to each other, and an upgrade between two reads
  pairs the version of one build with the digest of another. `PassedIsClean` also leaves
  out hosts on which an older build may come back between two steps: the audit of
  `score.sh` may then run the newer one between two verifications of the older. TLC finds
  both; nothing in the repository promises otherwise.
- `NothingSlips` is about files left alone while git is asked, and about answers git gave:
  a file that moves from untracked to staged to committed may be in none of the four, and
  a failed answer other than the first is an empty one (`affected.rs:89`, `111`).
- `WitnessedAsSigned` is about the artifacts a release has when it is validated. After an
  outage that left some unsigned, taking those out makes the counts match, and a witness
  is issued for the ones that were signed; the statements of the rest are not missed.
- `LedgerAccounts` promises that an id finds a document's own receipt only for receipts
  that ids can tell apart (`Separable`): no separator in a text, no collision of the
  64-bit digest. In one second actor `a|b` with claim `c` and actor `a` with claim `b|c`
  have one id, and `find` returns the first receipt.
- What a command line of `jeryu-git` other than a commit may do: its rules are a list.
- What the auditor reads while it runs, and the tree it is pointed at.

## 6. Plan

Order: signing and the store first, as what is released depends on it; then the
library it calls; then what decides versions and plans, which other repositories
call; then records, guard and evidence; then the pull request gate and the auditor it
stands on. All of that is done. Left:

1. An abstract specification of the versioning engine, a sequence of releases, and the
   refinement.
2. Composition of `WsVersion` with `AffectedPlan` (`PlanEmpty` from the plan's own
   state in place of its summary).
3. The pure comparisons, of little risk: the replay verdicts of `bench` over scaled
   integers, the lane table of `repogate`.

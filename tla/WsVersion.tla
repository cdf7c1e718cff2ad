------------------------------ MODULE WsVersion ------------------------------
(***************************************************************************)
(* The auto-versioning engine (crates/jeryu-wsversion) behind a forge that *)
(* hands it the range old..new of every push, in order.  `apply` decides a *)
(* bump from the commits of the range and the public-API gate, rewrites    *)
(* the version in Cargo.toml and then rolls CHANGELOG.md; its caller makes *)
(* the release commit, marked [skip-version], and pushes it, and that push *)
(* too comes back to the engine.  `apply` may die at any point, both files *)
(* are rewritten by truncating them, the look at the newest commit may     *)
(* fail, and main may move on meanwhile.                                   *)
(***************************************************************************)
EXTENDS Integers, Sequences, FiniteSets

CONSTANTS
  Changes,    \* the commits developers push
  MaxPush,    \* bound: commits of one push
  MaxCommits, \* bound: commits developers push altogether
  MaxSum,     \* bound: what the parts of a version add up to
  MaxBlind,   \* bound: releases decided with the marker out of sight
  Hosts,      \* the ways the engine may be run
  Torn        \* what a truncated file holds

\* What a commit says (kind, `!` or footer, [skip-version], a merge), what it
\* does to the public API, and whether the files it touches belong to a
\* package, escalate to full CI (AffectedPlan), or neither; own: the caller
\* of the engine made it.  "fix" stands for the other kinds a changelog
\* lists, "chore" for those it leaves out.
Commit == [kind : {"feat", "fix", "chore"}, breaking : BOOLEAN, skip : BOOLEAN,
           merge : BOOLEAN, api : BOOLEAN, touch : {"package", "shared", "docs"},
           own : BOOLEAN]

ASSUME ChangesAssumption == Changes \subseteq {c \in Commit : ~ c.own}
ASSUME BoundsAssumption ==
  MaxPush \in Nat \ {0} /\ MaxCommits \in Nat /\ MaxSum \in Nat /\ MaxBlind \in Nat

\* fresh: every run of `apply` works in a clean checkout; lenient: it is
\* started with JERYU_WSVERSION_ALLOW_MISSING_SEMVER_CHECKS=1.
Host == [fresh : BOOLEAN, lenient : BOOLEAN]

ASSUME HostsAssumption == Hosts \subseteq Host

Version == Nat \X Nat \X Nat
Section == [version : Version, commits : SUBSET Nat]

\* The commit the caller makes of what `apply` left in the tree.
ReleaseCommit == [kind |-> "chore", breaking |-> FALSE, skip |-> TRUE,
                  merge |-> FALSE, api |-> FALSE, touch |-> "shared", own |-> TRUE]

PushRange == [from : Nat, to : Nat]
Decision == [to : Version, commits : SUBSET Nat, level : {"patch", "minor", "major"},
             seen : Nat,                 \* length of main when it was taken
             blind : BOOLEAN,            \* a marker was there and not seen
             probed : BOOLEAN,           \* cargo semver-checks was asked
             sections : Seq(Section)]    \* the changelog it is rolled into
Release == [range : PushRange, decision : Decision]

ASSUME TornAssumption == Torn \notin Version /\ Torn \notin Seq(Section)

VARIABLES
  host,     \* how the engine is run
  history,  \* commits of main
  pending,  \* ranges handed to the engine and not settled yet
  releases, \* history: range, version and decision of every release
  head,     \* Cargo.toml version and CHANGELOG.md sections as committed
  tree,     \* the same in the engine's checkout
  pc,
  decision

vars == <<host, history, pending, releases, head, tree, pc, decision>>

NoDecision == [to |-> <<0, 0, 0>>, commits |-> {}, level |-> "patch",
               seen |-> 0, blind |-> FALSE, probed |-> FALSE, sections |-> <<>>]

Init ==
  /\ host \in Hosts
  /\ history = <<>>
  /\ pending = <<>>
  /\ releases = <<>>
  /\ head = [version |-> <<1, 0, 0>>, changelog |-> <<>>]
  /\ tree = head
  /\ pc = "idle"
  /\ decision = NoDecision

-----------------------------------------------------------------------------
(* The decision.                                                           *)

Bumped(v, b) ==
  CASE b = "major" -> <<v[1] + 1, 0, 0>>
    [] b = "minor" -> <<v[1], v[2] + 1, 0>>
    [] b = "patch" -> <<v[1], v[2], v[3] + 1>>

\* git log --no-merges, less the engine's own commits.
CommitsInRange(r) ==
  {n \in (r.from + 1)..r.to : ~ history[n].merge /\ ~ history[n].skip}

\* Mutant: only the newest commit of the range is classified.
ClassifyNewest(ns, api) ==
  LET newest == {n \in ns : \A m \in ns : m <= n}
  IN  IF api \/ \E n \in newest : history[n].breaking THEN "major"
      ELSE IF \E n \in newest : history[n].kind = "feat" THEN "minor" ELSE "patch"

\* Mutant: the public-API signal does not override the commit text.
ClassifyTextOnly(ns, api) ==
  IF \E n \in ns : history[n].breaking THEN "major"
  ELSE IF \E n \in ns : history[n].kind = "feat" THEN "minor" ELSE "patch"

\* The largest bump of the commits; patch when there are none.
ClassifyRange(ns, api) ==
  IF api \/ \E n \in ns : history[n].breaking THEN "major"
  ELSE IF \E n \in ns : history[n].kind = "feat" THEN "minor" ELSE "patch"

\* Mutant: the newest commit of main, not of the range, is looked at.
LatestIsSkipOfMain(r, shown) == shown /\ history[Len(history)].skip

\* Mutant: the newest commit is not looked at.
LatestIsSkipNever(r, shown) == FALSE

\* git log -1 may fail, and then the commit counts as not marked.
LatestIsSkip(r, shown) == shown /\ history[r.to].skip

\* The affected plan is of base...HEAD and of the checkout's own edits, and
\* empty when one of the changed files escalates to full CI.
PlanEmpty(r) ==
  LET touched == {history[n].touch : n \in (r.from + 1)..Len(history)}
  IN  "shared" \in touched \/ tree.version # head.version \/ "package" \notin touched

\* cargo semver-checks: an API break since the last release that went major.
ApiBroken ==
  \E n \in DOMAIN history :
    /\ history[n].api
    /\ \A k \in DOMAIN releases :
         releases[k].decision.level = "major" => releases[k].decision.seen < n

\* What the probe of cargo-semver-checks meets: no such tool, a tool that
\* answers, or one that ends in an error of its own (no baseline, no
\* network, a crate that does not build).  Only the exit status is looked
\* at, so an error counts as a break.
Tools == {"absent", "answers", "fails"}

Api(r, tool) == ~ PlanEmpty(r) /\ (tool = "fails" \/ (tool = "answers" /\ ApiBroken))

-----------------------------------------------------------------------------
(* Pushes, and runs of `apply`.                                            *)

Push(cs) ==
  /\ Len(history) - Len(releases) + Len(cs) <= MaxCommits
  /\ history' = history \o cs
  /\ pending' = Append(pending, [from |-> Len(history), to |-> Len(history) + Len(cs)])
  /\ UNCHANGED <<host, releases, head, tree, pc, decision>>

\* The checkout the run works in: a clean one, or what the last run left.
Begin == /\ pc = "idle"
         /\ pending # <<>>
         /\ host.fresh => tree = head

\* Nothing is written when the newest commit of the range is marked.
Skip(shown) ==
  /\ Begin
  /\ tree.version # Torn
  /\ LatestIsSkip(pending[1], shown)
  /\ pending' = Tail(pending)
  /\ UNCHANGED <<host, history, releases, head, tree, pc, decision>>

\* Without the tool, and without leave to do without it, `apply` ends in an
\* error here.
Decide(tool, shown) ==
  LET r == pending[1]
      ns == CommitsInRange(r)
      b == ClassifyRange(ns, Api(r, tool))
  IN  /\ Begin
      /\ tree.version # Torn
      /\ tree.version[1] + tree.version[2] + tree.version[3] < MaxSum
      /\ ~ LatestIsSkip(r, shown)
      /\ ~ shown => Cardinality({n \in DOMAIN releases : releases[n].decision.blind}) < MaxBlind
      /\ tool # "absent" \/ host.lenient \/ PlanEmpty(r)
      /\ pc' = "decided"
      /\ decision' = [to |-> Bumped(tree.version, b), commits |-> ns,
                      level |-> b, seen |-> Len(history),
                      blind |-> ~ shown /\ history[r.to].skip,
                      probed |-> tool # "absent" /\ ~ PlanEmpty(r), sections |-> <<>>]
      /\ UNCHANGED <<host, history, pending, releases, head, tree>>

WriteBegin ==
  /\ pc = "decided"
  /\ pc' = "writing"
  /\ tree' = [tree EXCEPT !.version = Torn]
  /\ UNCHANGED <<host, history, pending, releases, head, decision>>

WriteEnd ==
  /\ pc = "writing"
  /\ pc' = "written"
  /\ tree' = [tree EXCEPT !.version = decision.to]
  /\ UNCHANGED <<host, history, pending, releases, head, decision>>

\* Mutant: the heading is not asked for.
RollBeginAnyway ==
  /\ pc = "written"
  /\ pc' = "rolling"
  /\ tree' = [tree EXCEPT !.changelog = Torn]
  /\ decision' = [decision EXCEPT !.sections = tree.changelog]
  /\ UNCHANGED <<host, history, pending, releases, head>>

\* A changelog without its "Unreleased" heading, as a truncated one is, is
\* an error, with the version already rewritten.
RollBegin ==
  /\ pc = "written"
  /\ tree.changelog # Torn
  /\ pc' = "rolling"
  /\ tree' = [tree EXCEPT !.changelog = Torn]
  /\ decision' = [decision EXCEPT !.sections = tree.changelog]
  /\ UNCHANGED <<host, history, pending, releases, head>>

RollFails ==
  /\ pc = "written"
  /\ tree.changelog = Torn
  /\ pc' = "idle"
  /\ UNCHANGED <<host, history, pending, releases, head, tree, decision>>

\* Mutant: a kind outside the list is left out even when it breaks something.
BulletsOfKinds(ns) == {n \in ns : history[n].kind \in {"feat", "fix"}}

\* The commits a section names; without one it only speaks of maintenance.
Bullets(ns) == {n \in ns : history[n].kind \in {"feat", "fix"} \/ history[n].breaking}

\* Mutant: the section is headed by the version that was released before.
RollEndOldVersion ==
  /\ pc = "rolling"
  /\ pc' = "rolled"
  /\ tree' = [tree EXCEPT !.changelog =
                 <<[version |-> head.version, commits |-> Bullets(decision.commits)]>>
                   \o decision.sections]
  /\ UNCHANGED <<host, history, pending, releases, head, decision>>

RollEnd ==
  /\ pc = "rolling"
  /\ pc' = "rolled"
  /\ tree' = [tree EXCEPT !.changelog =
                 <<[version |-> decision.to, commits |-> Bullets(decision.commits)]>>
                   \o decision.sections]
  /\ UNCHANGED <<host, history, pending, releases, head, decision>>

Crash ==
  /\ pc # "idle"
  /\ pc' = "idle"
  /\ UNCHANGED <<host, history, pending, releases, head, tree, decision>>

-----------------------------------------------------------------------------
(* The caller.                                                             *)

\* The release commit goes on top of main and is pushed.
CommitRelease ==
  /\ pc = "rolled"
  /\ pc' = "idle"
  /\ head' = tree
  /\ history' = Append(history, ReleaseCommit)
  /\ releases' = Append(releases, [range |-> pending[1], decision |-> decision])
  /\ pending' = Append(Tail(pending), [from |-> Len(history), to |-> Len(history) + 1])
  /\ UNCHANGED <<host, tree, decision>>

\* What a run that did not end well left in the checkout is thrown away.
Restore ==
  /\ pc = "idle"
  /\ tree # head
  /\ tree' = head
  /\ UNCHANGED <<host, history, pending, releases, head, pc, decision>>

Apply == \/ \E shown \in BOOLEAN : Skip(shown) \/ \E tool \in Tools : Decide(tool, shown)
         \/ WriteBegin \/ WriteEnd \/ RollBegin \/ RollFails \/ RollEnd

Next ==
  \/ \E n \in 1..MaxPush : \E cs \in [1..n -> Changes] : Push(cs)
  \/ Apply \/ Crash \/ CommitRelease \/ Restore

Spec == Init /\ [][Next]_vars

-----------------------------------------------------------------------------
(* Properties.                                                             *)

\* Every variable has its type; the files are torn only while, or after, a
\* run was in them; the ranges to come are within main and in its order.
TypeOK ==
  /\ host \in Hosts
  /\ history \in Seq(Changes \cup {ReleaseCommit})
  /\ pending \in Seq(PushRange) /\ releases \in Seq(Release)
  /\ head \in [version : Version, changelog : Seq(Section)]
  /\ tree \in [version : Version \cup {Torn}, changelog : Seq(Section) \cup {Torn}]
  /\ pc \in {"idle", "decided", "writing", "written", "rolling", "rolled"}
  /\ decision \in Decision
  /\ \A n \in DOMAIN pending : pending[n].from < pending[n].to /\ pending[n].to <= Len(history)
  /\ \A n \in 1..(Len(pending) - 1) : pending[n].to = pending[n + 1].from

\* The version released before release n.
Before(n) == IF n = 1 THEN <<1, 0, 0>> ELSE releases[n - 1].decision.to

Covered(n) == (releases[n].range.from + 1)..releases[n].range.to

\* Its commits that count: no merges, and none that is marked.
Said(n) == {i \in Covered(n) : ~ history[i].merge /\ ~ history[i].skip}

\* v < w, and the most significant component they differ in.
Less(v, w) ==
  \/ v[1] < w[1]
  \/ v[1] = w[1] /\ v[2] < w[2]
  \/ v[1] = w[1] /\ v[2] = w[2] /\ v[3] < w[3]
IsMajor(v, w) == v[1] < w[1]
IsMinor(v, w) == v[1] = w[1] /\ v[2] < w[2]

\* Whatever a dead run left behind and however often it was retried, the
\* versions released grow, by a major step for a range with a breaking
\* commit and by at least a minor one for a range with a feature.  In clean
\* checkouts no version is skipped: a release is one step from the one
\* before, with the components below it reset (semver.rs:49-67).
BumpCovers ==
  \A n \in DOMAIN releases :
    LET v == Before(n)
        w == releases[n].decision.to
    IN  /\ Less(v, w)
        /\ (\E i \in Said(n) : history[i].breaking) => IsMajor(v, w)
        /\ (\E i \in Said(n) : history[i].kind = "feat") => IsMajor(v, w) \/ IsMinor(v, w)
        /\ host.fresh => w \in {<<v[1] + 1, 0, 0>>, <<v[1], v[2] + 1, 0>>,
                                <<v[1], v[2], v[3] + 1>>}

\* What is committed agrees with itself: the version in Cargo.toml is that
\* of the newest changelog section, and no two sections share a version.
InSync ==
  LET log == head.changelog
  IN  /\ log # <<>> => log[1].version = head.version
      /\ \A m, n \in DOMAIN log : log[m].version = log[n].version => m = n

\* In clean checkouts the committed changelog has one section per release,
\* newest first, and whatever died in between, a section lists the commits
\* of its release that are notable: those that break something, whatever
\* their kind (changelog.rs:42-49), and those of a kind it lists.  A commit
\* of another kind is in no section.
ChangelogIsReleases ==
  host.fresh =>
    /\ Len(head.changelog) = Len(releases)
    /\ \A n \in DOMAIN releases :
         LET s == head.changelog[Len(releases) + 1 - n]
         IN  /\ s.version = releases[n].decision.to
             /\ \A i \in Covered(n) :
                  i \in s.commits <=>
                    i \in Said(n) /\ (history[i].breaking \/ history[i].kind # "chore")
             /\ s.commits \subseteq Covered(n)

\* No commit is released twice, and the engine re-triggers on its own release
\* commit (decide.rs:54-56, commits.rs:5-7) only where git could not show it
\* the marker (decide.rs:63-66); such a release is a patch that no commit
\* accounts for.
ReleasesEarned ==
  \A n \in DOMAIN releases :
    LET d == releases[n].decision
    IN  /\ (\A i \in Covered(n) : history[i].own) =>
             d.blind /\ d.level = "patch" /\ d.commits = {}
        /\ \A m \in 1..(n - 1) : Covered(m) \cap Covered(n) = {}

\* The number of commits whose push is settled.
Settled == IF pending = <<>> THEN Len(history) ELSE pending[1].from

Unreleased(i) == \A n \in DOMAIN releases : i \notin Covered(n)

\* classify.rs:7 says "floor = PATCH: every merge to main bumps at least the
\* patch component": a settled commit that the engine did not cause is part
\* of a release, or it was lost with all that followed it up to a commit of a
\* developer that repeats the marker, as a git revert of a release commit
\* does (decide.rs:57-67 asks for nothing but the marker).
FloorIsPatch ==
  \A i \in 1..Settled :
    ~ history[i].own /\ Unreleased(i) =>
      \E j \in i..Settled : /\ history[j].skip /\ ~ history[j].own
                            /\ \A k \in i..j : Unreleased(k)

\* classify.rs:4 says "breaking public-API change OR `feat!`/`BREAKING
\* CHANGE` -> MAJOR": when a release is decided, every API break on main is
\* in it, or in an earlier release, as a major step, however pushes, crashes
\* and retries interleave.  It is not where the gate was not asked, and that
\* takes a host that may do without the tool, a checkout nobody cleaned, or
\* commits since the base of the range of which one escalates to full CI or
\* none touches a package: a plan that is empty asks nothing
\* (api_surface.rs:148-155).
BreakingIsMajor ==
  \A n \in DOMAIN releases :
    LET d == releases[n].decision
        touched == {history[i].touch : i \in (releases[n].range.from + 1)..d.seen}
    IN  \/ \A i \in 1..d.seen :
             history[i].api =>
               \E m \in 1..n : /\ IsMajor(Before(m), releases[m].decision.to)
                               /\ releases[m].decision.seen >= i
        \/ /\ ~ d.probed
           /\ \/ host.lenient \/ ~ host.fresh
              \/ "shared" \in touched \/ "package" \notin touched
=============================================================================

------------------------------- MODULE PrGate -------------------------------
(* The pull request gate: ops/ci/pr-ci.sh with its lanes score.sh and       *)
(* proof_evidence.sh, run over one topic after the other on a host whose    *)
(* auditor may be upgraded meanwhile, and protected main, which the topics  *)
(* that passed are merged into.  ensure-jankurai.sh, which the workflow runs *)
(* before, is the same verification in a process of its own.                *)
(*                                                                          *)
(* A commit of main is its place in it.  A tree is what the gate looks at:  *)
(* its code, its audit policy and its committed baseline.                   *)
EXTENDS AuditorPin, Sequences, FiniteSets

CONSTANTS Codes, Policies,
          CleanTrees,   \* <<build, policy, code>>: an audit without caps or hard findings, above the floor
          Worlds,       \* how the host may be run, and what may happen around it
          MaxWaiting    \* bound on the topics that passed and wait to be merged

CleanAssumption == CleanTrees \subseteq Builds \X Policies \X Codes
ASSUME CleanAssumption

\* The committed report and its provenance: the commit of main whose variant
\* was audited (0: one that is not on main), the policy put into the
\* variant, the auditor, and whether the report is without caps or hard
\* findings and above the floor.
Baseline == [commit : Nat, policy : Policies, by : Builds, clean : BOOLEAN]
Tree == [code : Codes, policy : Policies, baseline : Baseline]
Topic == [fork : Nat, tree : Tree]

\* Bounds on the steps of the installer, on the merges of the forge and on
\* what topics contain.
World == [env : Env, moves : Nat, merges : Nat, drafts : SUBSET Tree]

WorldsAssumption == Worlds \in Seq(World)
ASSUME WorldsAssumption

VARIABLES
  main,      \* protected main
  waiting,   \* topics that passed
  world,     \* which of the worlds this is
  moves,     \* how often the installer has worked
  lane,      \* what is run: ensure-jankurai.sh or pr-ci.sh
  topic,     \* its checkout
  base,      \* its origin/main
  at,        \* the step of the script; 0 between lanes
  scorer     \* the build that made the audit of score.sh (history)

laneVars == <<lane, topic, base, at, scorer>>
vars == <<pinVars, main, waiting, world, moves, lane, topic, base, at, scorer>>

NoTopic == [fork |-> 0, tree |-> main[1]]

\* What the lanes do with the auditor, in their order: pr-ci.sh, score.sh
\* and proof_evidence.sh each verify it first; every use verifies it again.
Required == <<"require", "require", "score", "require", "baseline", "tool", "ratchet">>
Script == [none |-> <<>>, ensure |-> <<"require">>, required |-> Required][lane]
Passed == lane = "required" /\ at = Len(Required) + 1

\* main starts with its root and a commit that carries the first baseline.
Init ==
  /\ world \in DOMAIN Worlds /\ env = Worlds[world].env
  /\ HostInit /\ Fresh
  /\ \E t \in Worlds[world].drafts :
       /\ t.baseline = [commit |-> 1, policy |-> t.policy, by |-> First, clean |-> TRUE]
       /\ main = <<[t EXCEPT !.baseline.commit = 0, !.baseline.clean = FALSE], t>>
  /\ waiting = {} /\ moves = 0
  /\ lane = "none" /\ topic = NoTopic /\ base = 0 /\ at = 0 /\ scorer = NoBuild

-----------------------------------------------------------------------------
(* The world.                                                               *)

HostMoves ==
  /\ moves < Worlds[world].moves
  /\ moves' = moves + 1
  /\ Install
  /\ UNCHANGED <<main, waiting, world, laneVars>>

\* Three-way merge of one file: the side that changed it wins.
Pick(old, ours, theirs) == IF ours = old THEN theirs ELSE ours
Conflict(old, ours, theirs) == ours # old /\ theirs # old /\ ours # theirs

Merged(t) ==
  LET old == main[t.fork]
      head == main[Len(main)]
  IN  [code     |-> Pick(old.code, t.tree.code, head.code),
       policy   |-> Pick(old.policy, t.tree.policy, head.policy),
       baseline |-> Pick(old.baseline, t.tree.baseline, head.baseline)]

Conflicts(t) ==
  LET old == main[t.fork]
      head == main[Len(main)]
  IN  \/ Conflict(old.code, t.tree.code, head.code)
      \/ Conflict(old.policy, t.tree.policy, head.policy)
      \/ Conflict(old.baseline, t.tree.baseline, head.baseline)

\* The forge merges a topic that passed, however old its checks are.
Merge(t) ==
  /\ Len(main) < 2 + Worlds[world].merges
  /\ t \in waiting /\ ~ Conflicts(t)
  /\ main' = Append(main, Merged(t))
  /\ waiting' = waiting \ {t}
  /\ UNCHANGED <<pinVars, world, moves, laneVars>>

-----------------------------------------------------------------------------
(* The lane.                                                                *)

\* The gate runner checks out a topic cut from main, or main itself; what it
\* has fetched as origin/main may be older than the forge's.
StartLane(t, b) ==
  /\ lane = "none" /\ Cardinality(waiting) < MaxWaiting
  /\ 2 <= t.fork /\ t.fork <= b /\ b <= Len(main)
  /\ lane' = "required" /\ topic' = t /\ base' = b /\ at' = 1
  /\ UNCHANGED <<pinVars, main, waiting, world, moves, scorer>>

StartEnsure ==
  /\ lane = "none"
  /\ lane' = "ensure" /\ at' = 1
  /\ UNCHANGED <<pinVars, main, waiting, world, moves, topic, base, scorer>>

Rest ==
  /\ Renew
  /\ lane' = "none" /\ topic' = NoTopic /\ base' = 0 /\ at' = 0 /\ scorer' = NoBuild
  /\ UNCHANGED <<hostVars, env, main, world, moves>>

\* A verification that failed, any other command that fails, a kill.
GiveUp == at \in DOMAIN Script /\ Rest /\ UNCHANGED waiting

Step(name) == at \in DOMAIN Script /\ Script[at] = name

\* Every step but the baseline check verifies the auditor.
VerifyAuditor ==
  /\ at \in DOMAIN Script /\ Script[at] # "baseline"
  /\ Verify
  /\ UNCHANGED <<main, waiting, world, moves, laneVars>>

Advance ==
  /\ at' = at + 1
  /\ UNCHANGED <<hostVars, env, main, waiting, world, moves, lane, topic, base>>

Done == pc' = "idle" /\ UNCHANGED <<pinned, seen, identity>>

Require ==
  /\ Step("require") /\ pc = "verified"
  /\ IF lane = "ensure" THEN Rest /\ UNCHANGED waiting
     ELSE Advance /\ Done /\ UNCHANGED scorer

\* What is at the path now makes the audit, verified or not.
IsClean(b) == <<b, topic.tree.policy, topic.tree.code>> \in CleanTrees

\* Mutant: score.sh takes the advisory audit for passed.
ScoreAnything ==
  /\ Step("score") /\ pc = "verified"
  /\ scorer' = bin.build
  /\ Advance /\ Done

ScoreAudit ==
  /\ Step("score") /\ pc = "verified"
  /\ IsClean(bin.build)
  /\ scorer' = bin.build
  /\ Advance /\ Done

HeadIsBase == topic.fork = base /\ topic.tree = main[base]

\* The commit the baseline is of: an ancestor of origin/main, on main itself
\* a strict one.
NamesAncestor ==
  /\ topic.tree.baseline.commit \in 1..base
  /\ HeadIsBase => topic.tree.baseline.commit # base

\* Mutant: the variant is not reconstructed, so any policy will do.
BaselineAnyPolicy ==
  /\ NamesAncestor
  /\ topic.tree.baseline.by = identity.build
  /\ Version[topic.tree.baseline.by] = identity.version
  /\ topic.tree.baseline.clean

\* Its report was made by the auditor verified, of the variant with exactly
\* the policy of this checkout, and is clean.
BaselineHolds ==
  /\ NamesAncestor
  /\ topic.tree.baseline.policy = topic.tree.policy
  /\ topic.tree.baseline.by = identity.build
  /\ Version[topic.tree.baseline.by] = identity.version
  /\ topic.tree.baseline.clean

ValidateBaseline ==
  /\ Step("baseline") /\ BaselineHolds
  /\ Advance
  /\ UNCHANGED <<callVars, scorer>>

\* The proof tools; one stands for all.
RunTool == Step("tool") /\ pc = "verified" /\ Advance /\ Done /\ UNCHANGED scorer

Ratchet ==
  /\ Step("ratchet") /\ pc = "verified"
  /\ IsClean(bin.build)
  /\ Advance /\ Done /\ UNCHANGED scorer

\* The exit status becomes the required check of the topic.
Report ==
  /\ Passed
  /\ waiting' = IF HeadIsBase THEN waiting ELSE waiting \cup {topic}
  /\ Rest

Next ==
  \/ HostMoves
  \/ \E t \in waiting : Merge(t)
  \/ \E f, b \in 2..Len(main), tree \in Worlds[world].drafts :
       StartLane([fork |-> f, tree |-> tree], b)
  \/ StartEnsure
  \/ VerifyAuditor \/ Require \/ ScoreAudit \/ ValidateBaseline \/ RunTool \/ Ratchet
  \/ Report \/ GiveUp

Spec == Init /\ [][Next]_vars

-----------------------------------------------------------------------------
(* Properties.                                                              *)

\* Every variable has its type; no verification but a broker's gets past the
\* receipts without one.
TypeOK ==
  /\ bin \in [build : Builds, proper : BOOLEAN]
  /\ stamp \in Stamp /\ receipts \subseteq Receipt
  /\ env \in Env
  /\ pinned \in Receipt \cup {NoReceipt}
  /\ seen \in Seen /\ identity \in Identity
  /\ pc \in {"idle", "located", "versioned", "read", "current", "found", "verified", "failed"}
  /\ main \in Seq(Tree) /\ Len(main) >= 2
  /\ waiting \subseteq Topic /\ topic \in Topic
  /\ world \in DOMAIN Worlds /\ moves \in Nat
  /\ lane \in {"none", "ensure", "required"} /\ at \in 0..(Len(Script) + 1)
  /\ base \in 0..Len(main) /\ scorer \in Builds \cup {NoBuild}
  /\ pc \in {"found", "verified"} /\ env.mode # "broker" => pinned \in Receipt

\* A lane knows one auditor: whatever the installer does between two reads,
\* version, digest and source exported are of one build, and every later
\* verification of the lane confirms that build.
OneAuditor ==
  env.mode # "broker" /\ identity # NoIdentity =>
    identity = [version |-> Version[pinned.build], build |-> pinned.build,
                source |-> pinned.build]

\* What passes is clean by the auditor its baseline was made with, although
\* each audit runs whatever is at the path by then: on a host that goes
\* forward, the verifications around the audit of score.sh confirm the build
\* it was made by.
PassedIsClean ==
  Passed /\ env.mode # "broker" /\ env.forward =>
    /\ topic.tree.baseline.by = pinned.build
    /\ IsClean(pinned.build)

\* main never loses its baseline: each commit carries one of an earlier
\* commit of main, for its own policy and clean, so that the gate run on
\* main itself can hold it, however old the topics merged.
MainKeepsBaseline ==
  \A n \in 2..Len(main) :
    /\ main[n].baseline.commit \in 1..(n - 1)
    /\ main[n].baseline.policy = main[n].policy
    /\ main[n].baseline.clean
=============================================================================

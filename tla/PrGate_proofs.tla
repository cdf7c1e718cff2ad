---------------------------- MODULE PrGate_proofs ----------------------------
(***************************************************************************)
(* The theorems about PrGate, for any number of builds, policies, codes    *)
(* and worlds, and installers and merges without a bound.                  *)
(***************************************************************************)
EXTENDS PrGate, TLAPS

\* A lane that is not a broker's.
Receipted == env.mode # "broker"

\* The receipt found is of the binary read, and what is exported is of it.
PinnedIsSeen ==
  Receipted =>
    /\ pc \in {"found", "verified"} =>
         pinned \in Receipt /\ seen = [version |-> Version[pinned.build], build |-> pinned.build]
    /\ pc = "verified" => identity # NoIdentity
    /\ identity # NoIdentity =>
         /\ pinned \in Receipt
         /\ identity = [version |-> Version[pinned.build], build |-> pinned.build,
                        source |-> pinned.build]

\* On a host that goes forward the builds read, pinned and used follow each
\* other: the one pinned before score.sh, the one its audit was made by, the
\* one read after it, the one installed.  The next verification finds the
\* ends equal.
BuildsInOrder ==
  Receipted /\ env.forward =>
    /\ seen.build <= bin.build
    /\ lane = "required" /\ at >= 2 => identity # NoIdentity /\ pinned.build <= bin.build
    /\ lane = "required" /\ at >= 4 =>
         /\ scorer \in Builds /\ IsClean(scorer)
         /\ pinned.build <= scorer /\ scorer <= bin.build
         /\ pc \in {"read", "current", "found", "verified"} => scorer <= seen.build
    /\ lane = "required" /\ at >= 5 => scorer = pinned.build
    /\ lane = "required" /\ at >= 6 => topic.tree.baseline.by = pinned.build

\* A baseline that a commit at n may carry.
HoldsBefore(tree, n) ==
  /\ tree.baseline.commit \in 1..(n - 1)
  /\ tree.baseline.policy = tree.policy /\ tree.baseline.clean

\* What waits to be merged, and what is checked, was cut from main, and its
\* baseline holds for main as it was fetched.
TopicsHold ==
  /\ \A t \in waiting : t.fork \in 2..Len(main) /\ HoldsBefore(t.tree, Len(main) + 1)
  /\ lane = "required" => topic.fork \in 2..base
  /\ lane = "required" /\ at >= 6 => HoldsBefore(topic.tree, base + 1)

IInv == TypeOK /\ PinnedIsSeen /\ BuildsInOrder /\ MainKeepsBaseline /\ TopicsHold
-----------------------------------------------------------------------------
\* Where the scripts use the auditor.
LEMMA ScriptSteps ==
  ASSUME lane \in {"none", "ensure", "required"}, at \in Nat
  PROVE  /\ Len(Script) = (IF lane = "none" THEN 0 ELSE IF lane = "ensure" THEN 1 ELSE 7)
         /\ at \in DOMAIN Script <=> (lane = "ensure" /\ at = 1) \/ (lane = "required" /\ at \in 1..7)
         /\ Step("require") <=> at \in DOMAIN Script /\ at \in {1, 2, 4}
         /\ Step("score") <=> lane = "required" /\ at = 3
         /\ Step("baseline") <=> lane = "required" /\ at = 5
         /\ Step("tool") <=> lane = "required" /\ at = 6
         /\ Step("ratchet") <=> lane = "required" /\ at = 7
         /\ Passed <=> lane = "required" /\ at = 8
<1>1. Len(Required) = 7 /\ DOMAIN Required = 1..7
  BY DEF Required
<1>2. Passed <=> lane = "required" /\ at = 8
  BY <1>1 DEF Passed
<1>3. CASE lane = "none"
  <2>1. Script = <<>>
    BY <1>3 DEF Script
  <2> QED
    BY <1>2, <1>3, <2>1 DEF Step
<1>4. CASE lane = "ensure"
  <2>1. Script = <<"require">>
    BY <1>4 DEF Script
  <2> QED
    BY <1>2, <1>4, <2>1 DEF Step
<1>5. CASE lane = "required"
  <2>1. Script = Required
    BY <1>5 DEF Script
  <2>2. Len(Script) = 7 /\ DOMAIN Script = 1..7
    BY <1>1, <2>1
  <2>3. at \in DOMAIN Script =>
          Script[at] = (CASE at \in {1, 2, 4} -> "require" [] at = 3 -> "score"
                          [] at = 5 -> "baseline" [] at = 6 -> "tool" [] at = 7 -> "ratchet")
    BY <2>1, <2>2 DEF Required
  <2> QED
    BY <1>2, <1>5, <2>2, <2>3 DEF Step
<1> QED
  BY <1>3, <1>4, <1>5

\* What a world allows.
LEMMA WorldTypes ==
  ASSUME world \in DOMAIN Worlds
  PROVE  Worlds[world].env \in Env /\ Worlds[world].drafts \subseteq Tree
<1>1. Worlds[world] \in World
  BY WorldsAssumption DEF WorldsAssumption
<1> QED
  BY <1>1 DEF World
-----------------------------------------------------------------------------
\* Type correctness: at the start, and over each action.
LEMMA InitTypeOK == Init => TypeOK
<1> SUFFICES ASSUME Init PROVE TypeOK
  OBVIOUS
<1>1. Worlds[world].env \in Env /\ Worlds[world].drafts \subseteq Tree
  BY WorldTypes DEF Init
<1>2. env \in Env /\ env.given \in Receipt \cup {NoReceipt}
  BY <1>1 DEF Init, Env
<1>3. PICK t \in Worlds[world].drafts :
        main = <<[t EXCEPT !.baseline.commit = 0, !.baseline.clean = FALSE], t>>
  BY DEF Init
<1>4. t \in Tree /\ [t EXCEPT !.baseline.commit = 0, !.baseline.clean = FALSE] \in Tree
  BY <1>1 DEF Tree, Baseline
<1>5. main \in Seq(Tree) /\ Len(main) = 2
  BY <1>3, <1>4
<1>6. topic \in Topic
  BY <1>5 DEF Init, NoTopic, Topic
<1>7. /\ bin \in [build : Builds, proper : BOOLEAN]
      /\ stamp \in Stamp /\ receipts \subseteq Receipt
  BY <1>2, BuildsAssumption DEF Init, HostInit, Stamp, Receipt, BuildsAssumption, Env
<1>8. /\ pinned \in Receipt \cup {NoReceipt} /\ seen \in Seen /\ identity \in Identity
      /\ pc = "idle"
  BY <1>2 DEF Init, Fresh, Unread, Seen, NoIdentity, Identity
<1>9. lane = "none" /\ at = 0 /\ at \in 0..(Len(Script) + 1)
  BY ScriptSteps DEF Init
<1> QED
  BY <1>2, <1>5, <1>6, <1>7, <1>8, <1>9 DEF Init, TypeOK

\* The parts of the type invariant, by who changes them.
HostTypes ==
  /\ bin \in [build : Builds, proper : BOOLEAN]
  /\ stamp \in Stamp /\ receipts \subseteq Receipt
  /\ env \in Env
CallTypes ==
  /\ pinned \in Receipt \cup {NoReceipt}
  /\ seen \in Seen /\ identity \in Identity
  /\ pc \in {"idle", "located", "versioned", "read", "current", "found", "verified", "failed"}
  /\ pc \in {"found", "verified"} /\ env.mode # "broker" => pinned \in Receipt
MainTypes ==
  /\ main \in Seq(Tree) /\ Len(main) >= 2
  /\ waiting \subseteq Topic
  /\ world \in DOMAIN Worlds /\ moves \in Nat
LaneTypes ==
  /\ topic \in Topic /\ lane \in {"none", "ensure", "required"}
  /\ at \in 0..(Len(Script) + 1)
  /\ base \in 0..Len(main) /\ scorer \in Builds \cup {NoBuild}

LEMMA TypeParts == TypeOK <=> HostTypes /\ CallTypes /\ MainTypes /\ LaneTypes
BY DEF TypeOK, HostTypes, CallTypes, MainTypes, LaneTypes

\* The installer.
LEMMA HostMovesTypeOK == TypeOK /\ HostMoves => TypeOK'
<1> SUFFICES ASSUME TypeOK, HostMoves PROVE TypeOK'
  OBVIOUS
<1>1. HostTypes /\ Install
  BY TypeParts DEF HostMoves
<1>2. UNCHANGED <<env, callVars, main, waiting, world, laneVars>> /\ moves' \in Nat
  BY DEF TypeOK, HostMoves, Install
<1>3. HostTypes'
  <2>1. CASE \E b \in Builds, proper \in BOOLEAN : PutBinary(b, proper)
    BY <1>1, <1>2, <2>1 DEF PutBinary, HostTypes
  <2>2. CASE \E b \in Builds \cup {NoBuild} : PutStamp(b)
    BY <1>1, <1>2, <2>2 DEF PutStamp, HostTypes, Stamp
  <2>3. CASE \E r \in Receipt : PutReceipt(r) \/ DropReceipt(r)
    BY <1>1, <1>2, <2>3 DEF PutReceipt, DropReceipt, HostTypes
  <2> QED
    BY <1>1, <2>1, <2>2, <2>3 DEF Install
<1> QED
  BY <1>2, <1>3 DEF TypeOK, callVars, laneVars, Script, HostTypes

\* A verification.
LEMMA VerifyAuditorTypeOK == TypeOK /\ VerifyAuditor => TypeOK'
<1> SUFFICES ASSUME TypeOK, VerifyAuditor PROVE TypeOK'
  OBVIOUS
<1>1. HostTypes /\ CallTypes /\ MainTypes /\ LaneTypes
  BY TypeParts
<1>2. UNCHANGED <<hostVars, env, main, waiting, world, moves, laneVars>>
  BY DEF VerifyAuditor, Verify, Locate, ReadVersion, ReadDigest, CheckCurrent, FindReceipt, Export
<1>3. HostTypes' /\ MainTypes' /\ LaneTypes'
  BY <1>1, <1>2 DEF HostTypes, MainTypes, LaneTypes, hostVars, laneVars, Script
<1>4. CallTypes'
  <2>1. CASE Locate
    BY <1>1, <1>2, <2>1 DEF Locate, CallTypes
  <2>2. CASE ReadVersion
    <3>1. Version[bin.build] \in Nat
      BY <1>1, VersionAssumption DEF HostTypes, VersionAssumption
    <3> QED
      BY <1>1, <1>2, <2>2, <3>1 DEF ReadVersion, CallTypes, Seen
  <2>3. CASE ReadDigest
    <3>1. bin.build \in Builds
      BY <1>1 DEF HostTypes
    <3> QED
      BY <1>1, <1>2, <2>3, <3>1 DEF ReadDigest, CallTypes, Seen
  <2>4. CASE CheckCurrent
    BY <1>1, <1>2, <2>4 DEF CheckCurrent, CallTypes
  <2>5. CASE FindReceipt
    <3>1. receipts \subseteq Receipt
      BY <1>1 DEF HostTypes
    <3> QED
      BY <1>1, <1>2, <2>5, <3>1 DEF FindReceipt, CallTypes
  <2>6. CASE Export
    <3>1. identity' \in Identity
      BY <1>1, <2>6 DEF Export, CallTypes, HostTypes, Seen, Identity, Receipt, NoReceipt
    <3> QED
      BY <1>1, <1>2, <2>6, <3>1 DEF Export, CallTypes
  <2> QED
    BY <2>1, <2>2, <2>3, <2>4, <2>5, <2>6 DEF VerifyAuditor, Verify
<1> QED
  BY <1>3, <1>4, TypeParts DEF TypeOK, HostTypes, CallTypes, MainTypes, LaneTypes

\* What the steps that end a lane do.
LEMMA RestTypes ==
  ASSUME TypeOK, Rest PROVE HostTypes' /\ CallTypes' /\ LaneTypes'
<1>1. HostTypes' /\ env.given \in Receipt \cup {NoReceipt}
  BY DEF TypeOK, Rest, HostTypes, hostVars, Env
<1>2. CallTypes'
  BY <1>1 DEF Rest, Renew, CallTypes, Unread, Seen, NoIdentity, Identity
<1>3. /\ lane' = "none" /\ at' = 0 /\ base' = 0 /\ scorer' = NoBuild
      /\ UNCHANGED main /\ main \in Seq(Tree) /\ Len(main) >= 2
  BY DEF Rest, TypeOK
<1>4. topic' \in Topic
  BY <1>3 DEF Rest, NoTopic, Topic
<1>5. Script' = <<>>
  BY <1>3 DEF Script
<1> QED
  BY <1>1, <1>2, <1>3, <1>4, <1>5 DEF LaneTypes

LEMMA GiveUpTypeOK == TypeOK /\ GiveUp => TypeOK'
<1> SUFFICES ASSUME TypeOK, GiveUp PROVE TypeOK'
  OBVIOUS
<1>1. Rest /\ UNCHANGED <<main, waiting, world, moves>>
  BY DEF GiveUp, Rest
<1> QED
  BY <1>1, RestTypes DEF TypeOK, HostTypes, CallTypes, LaneTypes

LEMMA ReportTypeOK == TypeOK /\ Report => TypeOK'
<1> SUFFICES ASSUME TypeOK, Report PROVE TypeOK'
  OBVIOUS
<1>1. Rest /\ UNCHANGED <<main, world, moves>> /\ waiting' \subseteq Topic
  BY DEF Report, Rest, TypeOK
<1> QED
  BY <1>1, RestTypes DEF TypeOK, HostTypes, CallTypes, LaneTypes

\* What the steps that go on do.
LEMMA AdvanceTypes ==
  ASSUME TypeOK, at \in DOMAIN Script, Advance, scorer' \in Builds \cup {NoBuild},
         Done \/ UNCHANGED callVars
  PROVE  TypeOK'
<1>1. UNCHANGED <<hostVars, env, main, waiting, world, moves, lane, topic, base>> /\ at' = at + 1
  BY DEF Advance
<1>2. Len(Script) \in Nat /\ DOMAIN Script = 1..Len(Script)
  <2>1. Script = <<>> \/ Script = <<"require">> \/ Script = Required
    BY DEF TypeOK, Script
  <2> QED
    BY <2>1 DEF Required
<1>3. Script' = Script /\ at' \in 0..(Len(Script) + 1)
  BY <1>1, <1>2 DEF TypeOK, Script
<1> QED
  BY <1>1, <1>3 DEF TypeOK, hostVars, callVars, Done

\* The steps of the scripts, and of the forge.
LEMMA RequireTypeOK == TypeOK /\ Require => TypeOK'
<1> SUFFICES ASSUME TypeOK, Require PROVE TypeOK'
  OBVIOUS
<1>1. CASE lane = "ensure"
  <2>1. Rest /\ UNCHANGED <<main, waiting, world, moves>>
    BY <1>1 DEF Require, Rest
  <2> QED
    BY <2>1, RestTypes DEF TypeOK, HostTypes, CallTypes, LaneTypes
<1>2. CASE lane # "ensure"
  BY <1>2, AdvanceTypes DEF Require, Step, TypeOK
<1> QED
  BY <1>1, <1>2

LEMMA StepsTypeOK ==
  TypeOK /\ (ScoreAudit \/ ValidateBaseline \/ RunTool \/ Ratchet) => TypeOK'
<1> SUFFICES ASSUME TypeOK, ScoreAudit \/ ValidateBaseline \/ RunTool \/ Ratchet PROVE TypeOK'
  OBVIOUS
<1>1. at \in DOMAIN Script /\ Advance /\ (Done \/ UNCHANGED callVars)
  BY DEF ScoreAudit, ValidateBaseline, RunTool, Ratchet, Step
<1>2. scorer' \in Builds \cup {NoBuild}
  BY DEF ScoreAudit, ValidateBaseline, RunTool, Ratchet, TypeOK
<1> QED
  BY <1>1, <1>2, AdvanceTypes

LEMMA StartEnsureTypeOK == TypeOK /\ StartEnsure => TypeOK'
<1> SUFFICES ASSUME TypeOK, StartEnsure PROVE TypeOK'
  OBVIOUS
<1>1. Script' = <<"require">>
  BY DEF StartEnsure, Script
<1>2. at' \in 0..(Len(Script)' + 1)
  BY <1>1 DEF StartEnsure
<1> QED
  BY <1>2 DEF StartEnsure, TypeOK, pinVars

LEMMA StartLaneTypeOK ==
  ASSUME TypeOK, NEW f \in 2..Len(main), NEW b \in 2..Len(main),
         NEW tree \in Worlds[world].drafts, StartLane([fork |-> f, tree |-> tree], b)
  PROVE  TypeOK'
<1>1. tree \in Tree
  BY WorldTypes DEF TypeOK
<1>2. Len(main) \in Nat
  BY DEF TypeOK
<1>3. topic' \in Topic /\ base' \in 0..Len(main)
  BY <1>1, <1>2 DEF StartLane, Topic
<1>4. Script' = Required
  BY DEF StartLane, Script
<1>5. at' \in 0..(Len(Script)' + 1)
  BY <1>4 DEF StartLane, Required
<1> QED
  BY <1>3, <1>5 DEF StartLane, TypeOK, pinVars

\* A three-way merge takes each file from one side.
LEMMA MergedSides ==
  ASSUME NEW t \in Topic, main \in Seq(Tree), Len(main) >= 2
  PROVE  /\ Merged(t) \in Tree
         /\ Merged(t).code \in {t.tree.code, main[Len(main)].code}
<1>1. main[Len(main)] \in Tree /\ t.tree \in Tree
  BY DEF Topic
<1> QED
  BY <1>1 DEF Merged, Pick, Tree

LEMMA MergeTypeOK ==
  ASSUME TypeOK, NEW t \in waiting, Merge(t)
  PROVE  TypeOK'
<1>1. t \in Topic
  BY DEF TypeOK
<1>2. Merged(t) \in Tree
  BY <1>1, MergedSides DEF TypeOK
<1>3. main' = Append(main, Merged(t)) /\ waiting' \subseteq waiting
  BY DEF Merge
<1>4. main' \in Seq(Tree) /\ Len(main') = Len(main) + 1
  BY <1>2, <1>3 DEF TypeOK
<1>5. base \in 0..Len(main')
  BY <1>4 DEF TypeOK
<1> QED
  BY <1>3, <1>4, <1>5 DEF Merge, TypeOK, pinVars, laneVars, Script

LEMMA NextTypeOK == ASSUME TypeOK, [Next]_vars PROVE TypeOK'
<1>1. CASE Next
  BY <1>1, HostMovesTypeOK, MergeTypeOK, StartLaneTypeOK, StartEnsureTypeOK,
     VerifyAuditorTypeOK, RequireTypeOK, StepsTypeOK, ReportTypeOK, GiveUpTypeOK DEF Next
<1>2. CASE UNCHANGED vars
  BY <1>2 DEF vars, pinVars, TypeOK, Script
<1> QED
  BY <1>1, <1>2

\* Every variable keeps its type, whatever the builds, worlds and topics.
THEOREM TypeCorrect == Spec => []TypeOK
<1>1. TypeOK /\ [Next]_vars => TypeOK'
  BY NextTypeOK
<1> QED
  BY <1>1, InitTypeOK, PTL DEF Spec

-----------------------------------------------------------------------------
\* No receipt, and nothing exported, names a build.
LEMMA BuildsAreNumbers ==
  /\ Builds \subseteq Nat
  /\ \A r \in Receipt : r # NoReceipt /\ r.build \in Nat /\ r.build # NoBuild
<1>1. Builds \subseteq Nat \ {0}
  BY BuildsAssumption DEF BuildsAssumption
<1>2. \A r \in Receipt : r.build \in Builds
  BY DEF Receipt
<1>3. NoReceipt.build = 0 /\ NoBuild = 0
  BY DEF NoReceipt, NoBuild
<1> QED
  BY <1>1, <1>2, <1>3

LEMMA BuildsOfState ==
  ASSUME TypeOK
  PROVE  bin.build \in Nat /\ seen.build \in Nat /\ pinned.build \in Nat
<1>1. bin.build \in Builds /\ seen.build \in Builds \cup {NoBuild}
  BY DEF TypeOK, Seen
<1>2. pinned.build \in Builds \cup {NoBuild}
  BY DEF TypeOK, Receipt, NoReceipt
<1>3. Builds \subseteq Nat /\ NoBuild \in Nat
  BY BuildsAreNumbers DEF NoBuild
<1> QED
  BY <1>1, <1>2, <1>3

\* A verification does not let go of a receipt once it exported its build.
LEMMA VerifyKeepsPinned ==
  ASSUME TypeOK, PinnedIsSeen, Receipted, VerifyAuditor, identity # NoIdentity
  PROVE  pinned' = pinned
<1>1. pinned # NoReceipt
  BY BuildsAreNumbers DEF PinnedIsSeen
<1>2. CASE FindReceipt
  BY <1>1, <1>2 DEF FindReceipt, Receipted, Candidates
<1>3. CASE ~ FindReceipt
  BY <1>3 DEF VerifyAuditor, Verify, Locate, ReadVersion, ReadDigest, CheckCurrent, Export
<1> QED
  BY <1>2, <1>3

LEMMA VerifyPinnedIsSeen ==
  ASSUME TypeOK, PinnedIsSeen, VerifyAuditor PROVE PinnedIsSeen'
<1> SUFFICES ASSUME Receipted PROVE PinnedIsSeen'
  BY DEF PinnedIsSeen, Receipted, VerifyAuditor, Verify, Locate, ReadVersion, ReadDigest,
     CheckCurrent, FindReceipt, Export
<1>1. identity # NoIdentity => pinned' = pinned
  BY VerifyKeepsPinned
<1>2. CASE Locate \/ ReadVersion \/ ReadDigest \/ CheckCurrent
  <2>1. pc' \notin {"found", "verified"} /\ UNCHANGED <<identity, pinned, env>>
    BY <1>2 DEF Locate, ReadVersion, ReadDigest, CheckCurrent
  <2> QED
    BY <2>1 DEF PinnedIsSeen, Receipted
<1>3. CASE FindReceipt
  <2>1. UNCHANGED <<identity, seen, env>> /\ pc' # "verified"
    BY <1>3 DEF FindReceipt
  <2>2. pc' = "found" =>
          pinned' \in Receipt /\ seen.build = pinned'.build /\ seen.version = Version[pinned'.build]
    BY <1>3 DEF FindReceipt, Receipted, Binds, TypeOK
  <2>3. seen = [version |-> seen.version, build |-> seen.build]
    BY DEF TypeOK, Seen
  <2> QED
    BY <1>1, <2>1, <2>2, <2>3 DEF PinnedIsSeen, Receipted
<1>4. CASE Export
  <2>1. UNCHANGED <<pinned, seen, env>> /\ pc = "found"
    BY <1>4 DEF Export
  <2>2. pinned \in Receipt /\ seen = [version |-> Version[pinned.build], build |-> pinned.build]
    BY <2>1 DEF PinnedIsSeen, Receipted
  <2>3. CASE pc' = "verified"
    <3>1. identity' = [version |-> Version[pinned.build], build |-> pinned.build,
                       source |-> pinned.build]
      BY <1>4, <2>2, <2>3 DEF Export, Receipted
    <3>2. identity' # NoIdentity
      BY <2>2, <3>1, BuildsAreNumbers DEF NoIdentity
    <3> QED
      BY <2>1, <2>2, <2>3, <3>1, <3>2 DEF PinnedIsSeen
  <2>4. CASE pc' # "verified"
    BY <1>4, <2>1, <2>4 DEF Export, Receipted, PinnedIsSeen
  <2> QED
    BY <2>3, <2>4
<1> QED
  BY <1>2, <1>3, <1>4 DEF VerifyAuditor, Verify

\* What the steps of a lane do with the verification: it is kept, done with,
\* or forgotten with its lane.
LEMMA OtherSteps ==
  ASSUME TypeOK, Next, ~ VerifyAuditor
  PROVE  /\ UNCHANGED env
         /\ \/ UNCHANGED callVars
            \/ Done
            \/ identity' = NoIdentity /\ seen' = Unread /\ pc' = "idle" /\ lane' = "none"
<1>1. CASE HostMoves
  BY <1>1 DEF HostMoves, Install
<1>2. CASE (\E t \in waiting : Merge(t)) \/ StartEnsure
            \/ (\E f, b \in 2..Len(main), tree \in Worlds[world].drafts :
                  StartLane([fork |-> f, tree |-> tree], b))
  BY <1>2 DEF Merge, StartLane, StartEnsure, pinVars, callVars
<1>3. CASE GiveUp \/ Report
  BY <1>3 DEF GiveUp, Report, Rest, Renew
<1>4. CASE Require \/ ScoreAudit \/ ValidateBaseline \/ RunTool \/ Ratchet
  BY <1>4 DEF Require, ScoreAudit, ValidateBaseline, RunTool, Ratchet, Rest, Renew, Advance, Done
<1> QED
  BY <1>1, <1>2, <1>3, <1>4 DEF Next

LEMMA NextPinnedIsSeen ==
  ASSUME TypeOK, PinnedIsSeen, [Next]_vars PROVE PinnedIsSeen'
<1>1. CASE VerifyAuditor
  BY <1>1, VerifyPinnedIsSeen
<1>2. CASE Next /\ ~ VerifyAuditor
  BY <1>2, OtherSteps DEF PinnedIsSeen, Receipted, callVars, Done
<1>3. CASE UNCHANGED vars
  BY <1>3 DEF PinnedIsSeen, Receipted, vars, pinVars
<1> QED
  BY <1>1, <1>2, <1>3

-----------------------------------------------------------------------------
\* The builds stay in order: the installer, a verification, each step.
LEMMA HostMovesInOrder ==
  ASSUME TypeOK, BuildsInOrder, HostMoves PROVE BuildsInOrder'
<1>1. UNCHANGED <<env, callVars, laneVars>>
  BY DEF HostMoves, Install
<1>2. bin.build \in Nat /\ seen.build \in Nat /\ pinned.build \in Nat
  BY BuildsOfState
<1>3. env.forward => bin'.build \in Nat /\ bin.build <= bin'.build
  <2>1. CASE \E b \in Builds, proper \in BOOLEAN : PutBinary(b, proper)
    BY <2>1, BuildsAreNumbers DEF PutBinary
  <2>2. CASE UNCHANGED bin
    BY <1>2, <2>2
  <2> QED
    BY <2>1, <2>2 DEF HostMoves, Install, PutStamp, PutReceipt, DropReceipt
<1>4. scorer \in Builds => scorer \in Nat
  BY BuildsAreNumbers
<1> QED
  BY <1>1, <1>2, <1>3, <1>4 DEF BuildsInOrder, Receipted, IsClean, callVars, laneVars

LEMMA VerifyInOrder ==
  ASSUME TypeOK, PinnedIsSeen, BuildsInOrder, VerifyAuditor PROVE BuildsInOrder'
<1>1. UNCHANGED <<bin, env, laneVars>>
  BY DEF VerifyAuditor, Verify, Locate, ReadVersion, ReadDigest, CheckCurrent,
     FindReceipt, Export, hostVars
<1> SUFFICES ASSUME Receipted, env.forward PROVE BuildsInOrder'
  BY <1>1 DEF BuildsInOrder, Receipted
<1>2. bin.build \in Nat /\ seen.build \in Nat
  BY BuildsOfState
<1>3. seen'.build <= bin.build
  BY <1>2 DEF VerifyAuditor, Verify, Locate, ReadVersion, ReadDigest, CheckCurrent,
     FindReceipt, Export, BuildsInOrder, TypeOK, Seen, NoBuild
<1>4. identity # NoIdentity => pinned' = pinned /\ identity' # NoIdentity
  <2>1. CASE Export
    BY <2>1, VerifyKeepsPinned, VerifyPinnedIsSeen, <1>1 DEF Export, PinnedIsSeen, Receipted
  <2>2. CASE ~ Export
    BY <2>2, VerifyKeepsPinned DEF VerifyAuditor, Verify, Locate, ReadVersion, ReadDigest,
       CheckCurrent, FindReceipt
  <2> QED
    BY <2>1, <2>2
<1>5. lane = "required" /\ at >= 4 /\ pc' \in {"read", "current", "found", "verified"} =>
        scorer <= seen'.build
  <2>1. CASE ReadDigest
    <3>1. seen'.build = bin.build
      BY <2>1 DEF ReadDigest, TypeOK, Seen
    <3> QED
      BY <3>1 DEF BuildsInOrder
  <2>2. CASE Locate \/ ReadVersion
    BY <2>2 DEF Locate, ReadVersion
  <2>3. CASE CheckCurrent \/ FindReceipt \/ Export
    BY <2>3 DEF CheckCurrent, FindReceipt, Export, BuildsInOrder
  <2> QED
    BY <2>1, <2>2, <2>3 DEF VerifyAuditor, Verify
<1>6. at \in Nat
  BY DEF TypeOK
<1> QED
  BY <1>1, <1>3, <1>4, <1>5, <1>6 DEF BuildsInOrder, IsClean, laneVars

\* At a step of the lane the binary verified is the pinned one.
LEMMA VerifiedInOrder ==
  ASSUME TypeOK, PinnedIsSeen, BuildsInOrder, Receipted, env.forward, pc = "verified"
  PROVE  /\ identity # NoIdentity /\ pinned \in Receipt
         /\ seen.build = pinned.build /\ pinned.build <= bin.build
         /\ lane = "required" /\ at >= 4 => scorer = pinned.build
<1>1. /\ identity # NoIdentity /\ pinned \in Receipt
      /\ seen.build = pinned.build /\ pinned.build <= bin.build
  BY DEF PinnedIsSeen, BuildsInOrder
<1>2. pinned.build \in Nat
  BY <1>1, BuildsAreNumbers
<1>3. lane = "required" /\ at >= 4 =>
        scorer \in Builds /\ pinned.build <= scorer /\ scorer <= seen.build
  BY DEF BuildsInOrder
<1>4. scorer \in Builds => scorer \in Nat
  BY BuildsAreNumbers
<1> QED
  BY <1>1, <1>2, <1>3, <1>4

LEMMA StepsInOrder ==
  ASSUME TypeOK, PinnedIsSeen, BuildsInOrder,
         (Require /\ lane # "ensure") \/ ScoreAudit \/ ValidateBaseline \/ RunTool \/ Ratchet
  PROVE  BuildsInOrder'
<1>1. UNCHANGED <<bin, env, lane, topic>> /\ at' = at + 1 /\ UNCHANGED <<pinned, seen, identity>>
  BY DEF Require, ScoreAudit, ValidateBaseline, RunTool, Ratchet, Advance, Done, hostVars, callVars
<1> SUFFICES ASSUME Receipted, env.forward PROVE BuildsInOrder'
  BY <1>1 DEF BuildsInOrder, Receipted
<1>2. at \in Nat /\ lane \in {"none", "ensure", "required"}
  BY DEF TypeOK
<1>3. CASE Require /\ lane # "ensure"
  <2>1. lane = "required" /\ at \in {1, 2, 4} /\ pc = "verified" /\ pc' = "idle" /\ UNCHANGED scorer
    BY <1>2, <1>3, ScriptSteps DEF Require, Done
  <2> QED
    BY <1>1, <2>1, VerifiedInOrder DEF BuildsInOrder, IsClean
<1>4. CASE ScoreAudit
  <2>1. /\ lane = "required" /\ at = 3 /\ pc = "verified" /\ pc' = "idle"
        /\ scorer' = bin.build /\ IsClean(bin.build)
    BY <1>2, <1>4, ScriptSteps DEF ScoreAudit, Done
  <2>2. bin.build \in Builds /\ bin.build \in Nat
    BY BuildsAreNumbers DEF TypeOK
  <2> QED
    BY <1>1, <2>1, <2>2, VerifiedInOrder DEF BuildsInOrder, IsClean
<1>5. CASE ValidateBaseline
  <2>1. /\ lane = "required" /\ at = 5 /\ UNCHANGED <<pc, scorer>>
        /\ topic.tree.baseline.by = identity.build
    BY <1>2, <1>5, ScriptSteps DEF ValidateBaseline, BaselineHolds, callVars
  <2>2. identity.build = pinned.build
    BY <2>1 DEF BuildsInOrder, PinnedIsSeen
  <2> QED
    BY <1>1, <2>1, <2>2 DEF BuildsInOrder, IsClean
<1>6. CASE RunTool \/ Ratchet
  <2>1. lane = "required" /\ at \in {6, 7} /\ pc' = "idle" /\ UNCHANGED scorer
    BY <1>2, <1>6, ScriptSteps DEF RunTool, Ratchet, Done
  <2> QED
    BY <1>1, <2>1 DEF BuildsInOrder, IsClean
<1> QED
  BY <1>3, <1>4, <1>5, <1>6

LEMMA NextInOrder ==
  ASSUME TypeOK, PinnedIsSeen, BuildsInOrder, [Next]_vars PROVE BuildsInOrder'
<1>1. CASE HostMoves
  BY <1>1, HostMovesInOrder
<1>2. CASE VerifyAuditor
  BY <1>2, VerifyInOrder
<1>3. CASE (Require /\ lane # "ensure") \/ ScoreAudit \/ ValidateBaseline \/ RunTool \/ Ratchet
  BY <1>3, StepsInOrder
<1>4. CASE (Require /\ lane = "ensure") \/ GiveUp \/ Report
  <2>1. Rest
    BY <1>4 DEF Require, GiveUp, Report
  <2>2. bin.build \in Nat
    BY BuildsAreNumbers DEF TypeOK
  <2> QED
    BY <2>1, <2>2 DEF Rest, Renew, Unread, NoBuild, hostVars, BuildsInOrder, Receipted
<1>5. CASE (\E f, b \in 2..Len(main), tree \in Worlds[world].drafts :
              StartLane([fork |-> f, tree |-> tree], b)) \/ StartEnsure
  BY <1>5 DEF StartLane, StartEnsure, pinVars, BuildsInOrder, Receipted
<1>6. CASE (\E t \in waiting : Merge(t)) \/ UNCHANGED vars
  BY <1>6 DEF Merge, vars, pinVars, laneVars, BuildsInOrder, Receipted, IsClean
<1> QED
  BY <1>1, <1>2, <1>3, <1>4, <1>5, <1>6 DEF Next

-----------------------------------------------------------------------------
\* main keeps a baseline: a merge of a topic that holds with a main that
\* does, however far that has moved on from the fork.
LEMMA MergedHolds ==
  ASSUME TypeOK, MainKeepsBaseline, NEW t \in Topic, t.fork \in 2..Len(main),
         HoldsBefore(t.tree, Len(main) + 1), ~ Conflicts(t)
  PROVE  HoldsBefore(Merged(t), Len(main) + 1)
<1> DEFINE old == main[t.fork]
           head == main[Len(main)]
           new == Merged(t)
<1>1. Len(main) \in Nat /\ Len(main) >= 2
  BY DEF TypeOK
<1>2. HoldsBefore(old, t.fork) /\ HoldsBefore(head, Len(main))
  BY <1>1 DEF MainKeepsBaseline, HoldsBefore
<1>3. /\ new.policy = Pick(old.policy, t.tree.policy, head.policy)
      /\ new.baseline = Pick(old.baseline, t.tree.baseline, head.baseline)
      /\ ~ Conflict(old.policy, t.tree.policy, head.policy)
      /\ ~ Conflict(old.baseline, t.tree.baseline, head.baseline)
  BY DEF Merged, Conflicts
<1> HIDE DEF old, head, new
<1>4. CASE t.tree.baseline = old.baseline
  <2>1. t.tree.policy = old.policy
    BY <1>2, <1>4 DEF HoldsBefore
  <2>2. new.policy = head.policy /\ new.baseline = head.baseline
    BY <1>3, <1>4, <2>1 DEF Pick
  <2> QED
    BY <1>1, <1>2, <2>2 DEF HoldsBefore, new
<1>5. CASE t.tree.baseline # old.baseline
  <2>1. new.baseline = t.tree.baseline
    BY <1>3, <1>5 DEF Pick
  <2>2. new.policy = t.tree.policy
    <3>1. CASE t.tree.policy # old.policy
      BY <1>3, <3>1 DEF Pick
    <3>2. CASE t.tree.policy = old.policy
      <4>1. head.baseline = old.baseline \/ head.baseline = t.tree.baseline
        BY <1>3, <1>5 DEF Conflict
      <4>2. head.policy = t.tree.policy
        BY <1>2, <3>2, <4>1 DEF HoldsBefore
      <4> QED
        BY <1>3, <3>2, <4>2 DEF Pick
    <3> QED
      BY <3>1, <3>2
  <2> QED
    BY <2>1, <2>2 DEF HoldsBefore, new
<1> QED
  BY <1>4, <1>5

LEMMA MergeHolds ==
  ASSUME TypeOK, MainKeepsBaseline, TopicsHold, NEW t \in waiting, Merge(t)
  PROVE  MainKeepsBaseline' /\ TopicsHold'
<1>1. Len(main) \in Nat /\ Len(main) >= 2 /\ t \in Topic
  BY DEF TypeOK
<1>2. Merged(t) \in Tree
  BY <1>1, MergedSides DEF TypeOK
<1>3. /\ main' \in Seq(Tree) /\ Len(main') = Len(main) + 1
      /\ main'[Len(main) + 1] = Merged(t)
      /\ \A n \in 1..Len(main) : main'[n] = main[n]
  BY <1>1, <1>2 DEF Merge, TypeOK
<1>4. HoldsBefore(Merged(t), Len(main) + 1)
  BY <1>1, MergedHolds DEF TopicsHold, Merge
<1>5. MainKeepsBaseline'
  <2> SUFFICES ASSUME NEW n \in 2..Len(main')
               PROVE  /\ main'[n].baseline.commit \in 1..(n - 1)
                      /\ main'[n].baseline.policy = main'[n].policy
                      /\ main'[n].baseline.clean
    BY DEF MainKeepsBaseline
  <2>1. CASE n \in 2..Len(main)
    BY <1>1, <1>3, <2>1 DEF MainKeepsBaseline
  <2>2. CASE n = Len(main) + 1
    BY <1>1, <1>3, <1>4, <2>2 DEF HoldsBefore
  <2> QED
    BY <1>1, <1>3, <2>1, <2>2
<1>6. \A u \in waiting' : u.fork \in 2..Len(main') /\ HoldsBefore(u.tree, Len(main') + 1)
  <2> SUFFICES ASSUME NEW u \in waiting
               PROVE  u.fork \in 2..Len(main') /\ HoldsBefore(u.tree, Len(main') + 1)
    BY DEF Merge
  <2>1. u.fork \in 2..Len(main) /\ HoldsBefore(u.tree, Len(main) + 1)
    BY DEF TopicsHold
  <2> QED
    BY <1>1, <1>3, <2>1 DEF HoldsBefore
<1> QED
  BY <1>5, <1>6 DEF TopicsHold, Merge, laneVars

LEMMA ReportHolds ==
  ASSUME TypeOK, TopicsHold, Report
  PROVE  TopicsHold'
<1>1. lane = "required" /\ at = 8 /\ base \in 0..Len(main) /\ Len(main) \in Nat
  BY ScriptSteps DEF Report, TypeOK
<1>2. topic.fork \in 2..base /\ HoldsBefore(topic.tree, base + 1)
  BY <1>1 DEF TopicsHold
<1>3. topic.fork \in 2..Len(main) /\ HoldsBefore(topic.tree, Len(main) + 1)
  BY <1>1, <1>2 DEF HoldsBefore
<1>4. /\ UNCHANGED main /\ lane' = "none"
      /\ \A t \in waiting' : t \in waiting \/ t = topic
  BY DEF Report, Rest
<1> QED
  BY <1>3, <1>4 DEF TopicsHold

LEMMA StepsHold ==
  ASSUME TypeOK, TopicsHold,
         (Require /\ lane # "ensure") \/ ScoreAudit \/ ValidateBaseline \/ RunTool \/ Ratchet
  PROVE  TopicsHold'
<1>1. UNCHANGED <<main, waiting, lane, topic, base>> /\ at' = at + 1
  BY DEF Require, ScoreAudit, ValidateBaseline, RunTool, Ratchet, Advance
<1>2. at \in Nat /\ lane \in {"none", "ensure", "required"} /\ base \in Nat
  BY DEF TypeOK
<1>3. CASE ValidateBaseline
  <2>1. HoldsBefore(topic.tree, base + 1)
    BY <1>2, <1>3 DEF ValidateBaseline, BaselineHolds, NamesAncestor, HoldsBefore
  <2> QED
    BY <1>1, <2>1 DEF TopicsHold
<1>4. CASE ~ ValidateBaseline
  <2>1. lane = "required" => at # 5
    BY <1>2, <1>4, ScriptSteps DEF Require, ScoreAudit, RunTool, Ratchet
  <2> QED
    BY <1>1, <1>2, <2>1 DEF TopicsHold
<1> QED
  BY <1>3, <1>4

LEMMA NextHolds ==
  ASSUME TypeOK, MainKeepsBaseline, TopicsHold, [Next]_vars
  PROVE  MainKeepsBaseline' /\ TopicsHold'
<1>1. CASE \E t \in waiting : Merge(t)
  BY <1>1, MergeHolds
<1>2. CASE UNCHANGED main
  <2>1. MainKeepsBaseline'
    BY <1>2 DEF MainKeepsBaseline
  <2>2. CASE Report
    BY <2>1, <2>2, ReportHolds
  <2>3. CASE (Require /\ lane # "ensure") \/ ScoreAudit \/ ValidateBaseline \/ RunTool \/ Ratchet
    BY <2>1, <2>3, StepsHold
  <2>4. CASE (Require /\ lane = "ensure") \/ GiveUp
    BY <1>2, <2>1, <2>4 DEF Require, GiveUp, Rest, TopicsHold
  <2>5. CASE StartEnsure
    BY <1>2, <2>1, <2>5 DEF StartEnsure, TopicsHold
  <2>6. CASE \E f, b \in 2..Len(main), tree \in Worlds[world].drafts :
               StartLane([fork |-> f, tree |-> tree], b)
    BY <1>2, <2>1, <2>6 DEF StartLane, TopicsHold
  <2>7. CASE UNCHANGED <<waiting, laneVars>>
    BY <1>2, <2>1, <2>7 DEF TopicsHold, laneVars
  <2>8. HostMoves \/ VerifyAuditor \/ UNCHANGED vars => UNCHANGED <<waiting, laneVars>>
    BY DEF HostMoves, VerifyAuditor, vars, laneVars
  <2> QED
    BY <1>1, <2>1, <2>2, <2>3, <2>4, <2>5, <2>6, <2>7, <2>8, MergeHolds DEF Next
<1>3. [Next]_vars => (\E t \in waiting : Merge(t)) \/ UNCHANGED main
  BY DEF Next, HostMoves, StartLane, StartEnsure, VerifyAuditor, Require, ScoreAudit,
     ValidateBaseline, RunTool, Ratchet, Report, GiveUp, Rest, Advance, vars
<1> QED
  BY <1>1, <1>2, <1>3

-----------------------------------------------------------------------------
\* At the start main has one baseline, of its root, and no topic waits.
LEMMA InitIInv == Init => IInv
<1> SUFFICES ASSUME Init PROVE IInv
  OBVIOUS
<1>1. TypeOK
  BY InitTypeOK
<1>2. PinnedIsSeen
  BY DEF Init, Fresh, PinnedIsSeen
<1>3. BuildsInOrder
  <2>1. seen.build = 0 /\ bin.build \in Nat
    BY <1>1, BuildsOfState DEF Init, Fresh, Unread, NoBuild
  <2> QED
    BY <2>1 DEF Init, BuildsInOrder
<1>4. MainKeepsBaseline
  <2>1. PICK t \in Worlds[world].drafts :
          /\ t.baseline = [commit |-> 1, policy |-> t.policy, by |-> First, clean |-> TRUE]
          /\ main = <<[t EXCEPT !.baseline.commit = 0, !.baseline.clean = FALSE], t>>
    BY DEF Init
  <2>2. Len(main) = 2 /\ main[2] = t
    BY <2>1
  <2> QED
    BY <2>1, <2>2 DEF MainKeepsBaseline
<1>5. TopicsHold
  BY DEF Init, TopicsHold
<1> QED
  BY <1>1, <1>2, <1>3, <1>4, <1>5 DEF IInv

\* The invariant the properties follow from is inductive.
THEOREM Inductive == Spec => []IInv
<1>1. IInv /\ [Next]_vars => IInv'
  <2> SUFFICES ASSUME IInv, [Next]_vars PROVE IInv'
    OBVIOUS
  <2>1. TypeOK'
    BY NextTypeOK DEF IInv
  <2>2. PinnedIsSeen' /\ BuildsInOrder' /\ MainKeepsBaseline' /\ TopicsHold'
    BY NextPinnedIsSeen, NextInOrder, NextHolds DEF IInv
  <2> QED
    BY <2>1, <2>2 DEF IInv
<1> QED
  BY <1>1, InitIInv, PTL DEF Spec

\* Whatever an installer does between two reads of a verification, and in
\* between verifications, a lane knows one auditor by one version, digest
\* and source (lib.sh, require_jankurai).
THEOREM OneAuditorHolds == Spec => []OneAuditor
<1>1. IInv => OneAuditor
  BY DEF IInv, PinnedIsSeen, OneAuditor, Receipted
<1> QED
  BY <1>1, Inductive, PTL

\* On a host that goes forward what passes is clean by the auditor of its
\* baseline, though its audits were made by whatever was installed then
\* (score.sh, proof_evidence.sh).
THEOREM PassedIsCleanHolds == Spec => []PassedIsClean
<1>1. IInv => PassedIsClean
  <2> SUFFICES ASSUME IInv, Passed, Receipted, env.forward
               PROVE  topic.tree.baseline.by = pinned.build /\ IsClean(pinned.build)
    BY DEF PassedIsClean, Receipted
  <2>1. lane = "required" /\ at = 8
    BY ScriptSteps DEF IInv, TypeOK
  <2> QED
    BY <2>1 DEF IInv, BuildsInOrder
<1> QED
  BY <1>1, Inductive, PTL

\* main never loses its baseline, for any number of topics merged however
\* long after their checks (proof_evidence.sh, validate_baseline).
THEOREM MainKeepsBaselineHolds == Spec => []MainKeepsBaseline
<1>1. IInv => MainKeepsBaseline
  BY DEF IInv
<1> QED
  BY <1>1, Inductive, PTL
=============================================================================

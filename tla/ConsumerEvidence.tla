-------------------------- MODULE ConsumerEvidence --------------------------
(***************************************************************************)
(* The Redline evidence producer, ops/ci/redline-consumer.sh: a script     *)
(* that checks the checkout, the forge and Redline's family receipt one    *)
(* after the other, runs the contract test, and writes an evidence file    *)
(* and a sidecar with its digest.  Each check reads its files anew, so     *)
(* what changes in between matters; a run may die anywhere and be started  *)
(* again over the files of the last one.                                   *)
(*                                                                         *)
(* A file's digest is the file itself.  A run that is not given the        *)
(* canonical manifest ends before it reads anything else; the policy it is *)
(* given with --consumer-policy may be any file.  The digest of Redline's  *)
(* policy is taken and compared with nothing (line 122), and left out.     *)
(***************************************************************************)
EXTENDS FamilyManifest

CONSTANTS
  Commits, Tree,      \* the commits there are, and the files of each
  Policies,           \* contents of agent/audit-policy.toml
  Engines,            \* commits of Redline that Cargo.lock may bind
  Receipts,           \* family receipts Redline's CI issues
  RedlineManifests,
  Others,             \* contents of the policy files given instead of the own
  Drafts,             \* what the files of the checkout are found to be at first
  Edits,              \* what they are edited to from then on
  MaxRuns,            \* bound: runs that are started
  MaxMoves,           \* bound: moves between two looks of a run
  Absent, Torn, NoEngine

Policy == [own : BOOLEAN, v : Policies]
Files == [manifest : Manifest, policy : Policy, lock : Engines]
Receipt == [manifest : RedlineManifests, engine : Engines \cup {NoEngine}, pass : BOOLEAN]

\* What an evidence file says, as its schema has it.
Evidence == [commit : Commits, family : Receipts, redline : RedlineManifests,
             engine : Engines, manifest : Manifest, policy : Policy,
             log : [run : 1..MaxRuns, passes : BOOLEAN]]

ASSUME EvidenceAssumption ==
  /\ \A c \in Commits : Tree[c] \in Files
  /\ \A f \in Drafts \cup Edits : f \in Files
  /\ Others \subseteq Policy
  /\ Receipts \subseteq Receipt
  /\ MaxRuns \in Nat /\ MaxMoves \in Nat
  /\ NoEngine \notin Engines
  /\ Absent # Torn /\ Absent \notin Evidence /\ Torn \notin Evidence

VARIABLES
  head, onMain, work,        \* the checkout: its commit, branch and files
  forge,                     \* main at the forge
  receipt, receiptSum,       \* Redline's receipt and its sidecar
  redline,                   \* Redline's manifest
  pc, run, ev,               \* the producer, its run, and what it has noted
  own,                       \* its policy is that of the checkout
  log, output, sidecar,      \* the files it writes
  mains, issued,             \* history: main, and complete receipts
  moved,                     \* history: how often what the run looks at moved
  basis                      \* history: own and moved of the output's run

checkout == <<head, onMain, work, forge, mains>>
redlines == <<receipt, receiptSum, redline, issued>>
files == <<log, output, sidecar, basis>>
vars == <<checkout, redlines, files, pc, run, ev, own, moved>>

Steps == <<"manifest", "policy", "branch", "clean", "head", "forge", "receipt",
           "receipt_sum", "redline", "engine", "test_begin", "test_end", "digests",
           "write_begin", "write_end", "seal_begin", "seal_end">>

\* The steps before which a move of the checkout, or of Redline's files,
\* comes between two looks at them.
Between == [checkout |-> Range(Steps) \ {"manifest", "write_begin", "write_end",
                                         "seal_begin", "seal_end"},
            redline |-> {"receipt_sum", "redline", "engine"}]
Moves == [checkout : 0..MaxMoves, redline : 0..MaxMoves]
NoMoves == [checkout |-> 0, redline |-> 0]

\* What a run starts from: nothing noted.
NoEvidence == [commit |-> Absent, family |-> Absent, redline |-> Absent, engine |-> Absent,
               manifest |-> Absent, policy |-> Absent, log |-> Absent]

Init ==
  /\ head \in Commits /\ onMain = TRUE /\ work \in Drafts \cup {Tree[head]}
  /\ forge = head /\ mains = {head}
  /\ receipt \in Receipts /\ receiptSum = receipt /\ issued = {receipt}
  /\ redline = receipt.manifest
  /\ pc = "idle" /\ run = 0 /\ ev = NoEvidence
  /\ log = Absent /\ output = Absent /\ sidecar = Absent
  /\ own = TRUE /\ moved = NoMoves /\ basis = [own |-> TRUE, moved |-> NoMoves]

-----------------------------------------------------------------------------
(* The world around the producer.                                          *)

\* What happens after the last run of the bound is of no account.
Awaited == pc # "idle" \/ run < MaxRuns
World(what) ==
  /\ IF pc \in Between[what]
     THEN moved.checkout + moved.redline < MaxMoves /\ moved' = [moved EXCEPT ![what] = @ + 1]
     ELSE UNCHANGED moved
  /\ UNCHANGED <<files, pc, run, ev, own>>

\* Someone edits the checkout, or moves it to a branch or to another commit.
Edit ==
  /\ Awaited
  /\ \/ work' \in Edits /\ UNCHANGED <<head, onMain>>
     \/ onMain' = ~ onMain /\ UNCHANGED <<head, work>>
     \/ head' \in Commits /\ work' = Tree[head'] /\ UNCHANGED onMain
  /\ UNCHANGED <<forge, mains, redlines>> /\ World("checkout")

\* A merge: the manifest of what is merged has passed the gate (check.sh).
Merge ==
  /\ Awaited
  /\ forge' \in {c \in Commits : Valid(Tree[c].manifest)}
  /\ mains' = mains \cup {forge'}
  /\ UNCHANGED <<head, onMain, work, redlines, files, pc, run, ev, own, moved>>

\* Redline's CI writes a receipt, then its sidecar; its manifest moves on.
Refresh ==
  /\ Awaited
  /\ \/ receipt' \in Receipts /\ UNCHANGED <<receiptSum, redline, issued>>
     \/ receiptSum' = receipt /\ issued' = issued \cup {receipt}
        /\ UNCHANGED <<receipt, redline>>
     \/ redline' \in RedlineManifests /\ UNCHANGED <<receipt, receiptSum, issued>>
  /\ UNCHANGED checkout /\ World("redline")

-----------------------------------------------------------------------------
(* The producer.                                                           *)

NextStep(step) == Steps[1 + CHOOSE n \in DOMAIN Steps : Steps[n] = step]

Ends == pc' = "idle" /\ ev' = NoEvidence /\ own' = TRUE /\ moved' = NoMoves
Goes(step, noted) == pc' = NextStep(step) /\ ev' = noted /\ UNCHANGED <<own, moved>>

\* A check that holds takes the run to the next step with what it has noted,
\* one that fails ends it.
Check(step, holds, noted) ==
  /\ pc = step
  /\ IF holds THEN Goes(step, noted) ELSE Ends
  /\ UNCHANGED <<checkout, redlines, files, run>>

\* A run starts, with the checkout's policy or with another file's.
Begin ==
  /\ pc = "idle" /\ run < MaxRuns
  /\ pc' = Steps[1] /\ run' = run + 1
  /\ own' \in BOOLEAN
  /\ UNCHANGED <<checkout, redlines, files, ev, moved>>

\* The policy file as it is when it is read.
PolicyNow == IF own THEN {work.policy} ELSE Others

\* Mutant: untracked and changed files are let pass.
CheckCheckoutDirty ==
  \/ Check("manifest", Valid(work.manifest), ev)
  \/ \E p \in PolicyNow : Check("policy", p.own, ev)
  \/ Check("branch", onMain, ev)
  \/ Check("clean", TRUE, ev)
  \/ Check("head", TRUE, [ev EXCEPT !.commit = head])
  \/ Check("forge", ev.commit = forge, ev)

CheckCheckout ==
  \/ Check("manifest", Valid(work.manifest), ev)
  \/ \E p \in PolicyNow : Check("policy", p.own, ev)
  \/ Check("branch", onMain, ev)
  \/ Check("clean", work = Tree[head], ev)
  \/ Check("head", TRUE, [ev EXCEPT !.commit = head])
  \/ Check("forge", ev.commit = forge, ev)

\* Mutant: the receipt's sidecar is not asked for.
CheckReceiptAlone ==
  \/ Check("receipt", TRUE, [ev EXCEPT !.family = receipt])
  \/ Check("receipt_sum", TRUE, ev)
  \/ Check("redline", redline = receipt.manifest /\ receipt.pass,
           [ev EXCEPT !.redline = redline])
  \/ Check("engine", receipt.engine # NoEngine /\ work.lock = receipt.engine,
           [ev EXCEPT !.engine = receipt.engine])

\* The receipt is read again by each of the checks.
CheckReceipt ==
  \/ Check("receipt", TRUE, [ev EXCEPT !.family = receipt])
  \/ Check("receipt_sum", receiptSum = ev.family, ev)
  \/ Check("redline", redline = receipt.manifest /\ receipt.pass,
           [ev EXCEPT !.redline = redline])
  \/ Check("engine", receipt.engine # NoEngine /\ work.lock = receipt.engine,
           [ev EXCEPT !.engine = receipt.engine])

\* The contract test writes its log over that of the last run, and may fail.
Test ==
  /\ \/ pc = "test_begin" /\ log' = Torn /\ Goes(pc, ev)
     \/ \E passes \in BOOLEAN :
          /\ pc = "test_end" /\ log' = [run |-> run, passes |-> passes]
          /\ IF passes THEN Goes(pc, ev) ELSE Ends
  /\ UNCHANGED <<checkout, redlines, run, output, sidecar, basis>>

\* The files are read again for their digests.
Digests ==
  \E p \in PolicyNow :
    Check("digests", TRUE,
          [ev EXCEPT !.manifest = work.manifest, !.policy = p, !.log = log])

\* Mutant: the sidecar is written first.
WriteFirstSealed ==
  \/ pc = "write_begin" /\ sidecar' = Torn /\ UNCHANGED output
  \/ pc = "write_end" /\ sidecar' = ev /\ UNCHANGED output
  \/ pc = "seal_begin" /\ output' = Torn /\ UNCHANGED sidecar
  \/ pc = "seal_end" /\ output' = ev /\ UNCHANGED sidecar

\* The evidence, which matches its schema as it is generated, then the
\* digest of what is in the file.
WriteFiles ==
  \/ pc = "write_begin" /\ output' = Torn /\ UNCHANGED sidecar
  \/ pc = "write_end" /\ output' = ev /\ UNCHANGED sidecar
  \/ pc = "seal_begin" /\ sidecar' = Torn /\ UNCHANGED output
  \/ pc = "seal_end" /\ sidecar' = output /\ UNCHANGED output

Write ==
  /\ WriteFiles
  /\ basis' = IF pc = "write_begin" THEN [own |-> own, moved |-> moved] ELSE basis
  /\ IF pc = "seal_end" THEN Ends ELSE Goes(pc, ev)
  /\ UNCHANGED <<checkout, redlines, run, log>>

\* The run is killed, or a command it needs fails.
Die ==
  /\ pc # "idle" /\ Ends
  /\ UNCHANGED <<checkout, redlines, files, run>>

Next == \/ Edit \/ Merge \/ Refresh
        \/ Begin \/ CheckCheckout \/ CheckReceipt \/ Test \/ Digests \/ Write \/ Die

Spec == Init /\ [][Next]_vars

-----------------------------------------------------------------------------
(* Properties.                                                             *)

\* Every variable has its type; there is no sidecar without evidence.
TypeOK ==
  /\ {head, forge} \cup mains \subseteq Commits
  /\ onMain \in BOOLEAN /\ work \in Files
  /\ {receipt, receiptSum} \cup issued \subseteq Receipts
  /\ redline \in RedlineManifests
  /\ pc \in {"idle"} \cup Range(Steps)
  /\ run \in 0..MaxRuns /\ own \in BOOLEAN
  /\ moved \in Moves /\ basis \in [own : BOOLEAN, moved : Moves]
  /\ output \in {Absent, Torn} \/ output \in Evidence
  /\ sidecar \in {Absent, Torn} \/ sidecar \in Evidence
  /\ output = Absent => sidecar = Absent

\* The evidence file is there with a sidecar that has its digest.
Vouched == sidecar \notin {Absent, Torn} /\ sidecar = output

\* Evidence with a matching sidecar is whole, whatever run died over it, of
\* a test that passed; its commit has been main at the forge, and its receipt
\* is one that Redline's CI completed.  That the receipt passed and binds the
\* manifest and the engine of the evidence is only sure when nothing of
\* Redline's moved from the first look at the receipt to the last
\* (redline-consumer.sh:93-119, 129-170).
VouchedIsChecked ==
  Vouched =>
    /\ output \in Evidence
    /\ output.commit \in mains /\ output.log.passes
    /\ output.family \in issued
    /\ basis.moved.redline = 0 =>
         /\ output.family.pass
         /\ output.family.manifest = output.redline
         /\ output.family.engine = output.engine

\* What evidence says of this repository is true of the commit it names, its
\* manifest is valid, its lock binds the engine, and the digests are those of
\* its files, when the checkout did not move between the first check and the
\* digests, and for the policy's digest, when no other policy was given
\* (redline-consumer.sh:38-41, 71-97, 108-126).
EvidenceBinds ==
  Vouched /\ basis.moved.checkout = 0 =>
    LET tree == Tree[output.commit]
    IN  /\ Valid(tree.manifest) /\ output.manifest = tree.manifest
        /\ basis.own => output.policy = tree.policy
        /\ tree.lock = output.engine

\* The policy digest of evidence is that of the policy at the commit it
\* names: schemas/redline-consumer-evidence.schema.json:57, "SHA-256 of
\* jeryu-release-ops/agent/audit-policy.toml at source_commit".
PolicyBinds == Vouched => output.policy = Tree[output.commit].policy

\* Which manifests are valid is fixed by the code but for the order of rows
\* and names, the retirement of jeryu-web and the compliance state: each
\* repository that is not retired has one row, the one expected of it
\* (family_manifest.rs:149-258).
ManifestPinned ==
  \A m \in {work.manifest} \cup {Tree[c].manifest : c \in Commits} :
    Valid(m) <=>
      \E gone \in {<<>>, <<Web>>} :
        LET active == Repos \ Range(gone)
        IN  /\ m.canonical /\ m.retired = gone
            /\ Len(m.rows) = Cardinality(active)
            /\ \A r \in active : \E n \in DOMAIN m.rows :
                 m.rows[n] = [name |-> r, canonical |-> TRUE,
                              status |-> IF r \in Tagged THEN "bound" ELSE "pending",
                              tag |-> IF r \in Tagged THEN "expected" ELSE "none"]
            /\ Len(m.required) = Cardinality(active) + 1
            /\ \A r \in active \cup {Control} : \E n \in DOMAIN m.required : m.required[n] = r
=============================================================================

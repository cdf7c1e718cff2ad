------------------------ MODULE ConsumerEvidence_proofs ------------------------
(***************************************************************************)
(* Theorems about ConsumerEvidence, for any commits, receipts, manifests,  *)
(* edits and number of runs, wherever runs die: what a run has established *)
(* so far, from one check to the next, is true of what it has noted.       *)
(***************************************************************************)
EXTENDS ConsumerEvidence, FiniteSetTheorems, TLAPS

\* The points of a run, by what it has established when it gets there.
Sealing == {"seal_begin", "seal_end"}
Writing == {"write_begin", "write_end"} \cup Sealing
Begun == {"write_end"} \cup Sealing
Tested == {"digests"} \cup Writing
EngineNoted == {"test_begin", "test_end"} \cup Tested
RedlineNoted == {"engine"} \cup EngineNoted
ReceiptSealed == {"redline"} \cup RedlineNoted
ReceiptNoted == {"receipt_sum"} \cup ReceiptSealed
AtForge == {"receipt"} \cup ReceiptNoted
HeadNoted == {"forge"} \cup AtForge
TreeClean == {"head"} \cup HeadNoted
ManifestValid == {"policy", "branch", "clean"} \cup TreeClean
Points == {"manifest"} \cup ManifestValid

\* The points at which a move of the checkout, or of Redline's files, counts.
LooksHere == ManifestValid \ Writing
LooksThere == {"receipt_sum", "redline", "engine"}

TestLog == [run : 1..MaxRuns, passes : BOOLEAN]

\* What a run may have noted.
Draft == [commit : Commits \cup {Absent}, family : Receipts \cup {Absent},
          redline : RedlineManifests \cup {Absent}, engine : Engines \cup {Absent},
          manifest : Manifest \cup {Absent}, policy : Policy \cup {Absent},
          log : TestLog \cup {Absent}]

Typed ==
  /\ ev \in Draft
  /\ pc # "idle" => run >= 1
  /\ pc \in HeadNoted => ev.commit \in Commits
  /\ pc \in ReceiptNoted => ev.family \in Receipts
  /\ pc \in RedlineNoted => ev.redline \in RedlineManifests
  /\ pc \in EngineNoted => ev.engine \in Engines
  /\ pc \in Tested => log \in TestLog
  /\ pc \in Writing => ev \in Evidence
  /\ pc \in Sealing => output = ev
  /\ pc \in Begun => basis = [own |-> own, moved |-> moved]

TInv == TypeOK /\ Typed

-----------------------------------------------------------------------------
(* The order of the steps.                                                 *)

LEMMA StepsLaid ==
  /\ DOMAIN Steps = 1..17
  /\ Steps[1] = "manifest" /\ Steps[2] = "policy" /\ Steps[3] = "branch"
  /\ Steps[4] = "clean" /\ Steps[5] = "head" /\ Steps[6] = "forge"
  /\ Steps[7] = "receipt" /\ Steps[8] = "receipt_sum" /\ Steps[9] = "redline"
  /\ Steps[10] = "engine" /\ Steps[11] = "test_begin" /\ Steps[12] = "test_end"
  /\ Steps[13] = "digests" /\ Steps[14] = "write_begin" /\ Steps[15] = "write_end"
  /\ Steps[16] = "seal_begin" /\ Steps[17] = "seal_end"
BY DEF Steps

LEMMA StepsDistinct ==
  ASSUME NEW m \in 1..17, NEW n \in 1..17, Steps[m] = Steps[n] PROVE m = n
BY StepsLaid

LEMMA StepsRange == Range(Steps) = Points
<1>1. Range(Steps) = {Steps[n] : n \in 1..17}
  BY StepsLaid DEF Range
<1>2. \A n \in 1..17 : Steps[n] \in Points
  BY StepsLaid DEF Points, ManifestValid, TreeClean, HeadNoted, AtForge, ReceiptNoted,
     ReceiptSealed, RedlineNoted, EngineNoted, Tested, Writing, Sealing
<1>3. \A p \in Points : \E n \in 1..17 : Steps[n] = p
  BY StepsLaid DEF Points, ManifestValid, TreeClean, HeadNoted, AtForge, ReceiptNoted,
     ReceiptSealed, RedlineNoted, EngineNoted, Tested, Writing, Sealing
<1> QED
  BY <1>1, <1>2, <1>3

LEMMA BetweenIs == Between["checkout"] = LooksHere /\ Between["redline"] = LooksThere
<1>1. LooksHere = Points \ {"manifest", "write_begin", "write_end", "seal_begin", "seal_end"}
  BY DEF LooksHere, Points, ManifestValid, TreeClean, HeadNoted, AtForge, ReceiptNoted,
     ReceiptSealed, RedlineNoted, EngineNoted, Tested, Writing, Sealing
<1> QED
  BY <1>1, StepsRange DEF Between, LooksThere

LEMMA NextStepIs ==
  ASSUME NEW n \in 1..16 PROVE NextStep(Steps[n]) = Steps[n + 1]
<1> DEFINE k == CHOOSE m \in DOMAIN Steps : Steps[m] = Steps[n]
<1>1. n \in DOMAIN Steps
  BY StepsLaid
<1>2. k \in DOMAIN Steps /\ Steps[k] = Steps[n]
  BY <1>1, Zenon
<1>3. NextStep(Steps[n]) = Steps[1 + k]
  BY DEF NextStep
<1> HIDE DEF k
<1>4. k = n
  BY <1>2, StepsDistinct, StepsLaid
<1> QED
  BY <1>3, <1>4

LEMMA NextSteps ==
  /\ NextStep("manifest") = "policy" /\ NextStep("policy") = "branch"
  /\ NextStep("branch") = "clean" /\ NextStep("clean") = "head"
  /\ NextStep("head") = "forge" /\ NextStep("forge") = "receipt"
  /\ NextStep("receipt") = "receipt_sum" /\ NextStep("receipt_sum") = "redline"
  /\ NextStep("redline") = "engine" /\ NextStep("engine") = "test_begin"
  /\ NextStep("test_begin") = "test_end" /\ NextStep("test_end") = "digests"
  /\ NextStep("digests") = "write_begin" /\ NextStep("write_begin") = "write_end"
  /\ NextStep("write_end") = "seal_begin" /\ NextStep("seal_begin") = "seal_end"
<1>1. \A n \in 1..16 : NextStep(Steps[n]) = Steps[n + 1]
  BY NextStepIs
<1>2. /\ NextStep(Steps[1]) = Steps[2] /\ NextStep(Steps[2]) = Steps[3]
      /\ NextStep(Steps[3]) = Steps[4] /\ NextStep(Steps[4]) = Steps[5]
      /\ NextStep(Steps[5]) = Steps[6] /\ NextStep(Steps[6]) = Steps[7]
      /\ NextStep(Steps[7]) = Steps[8] /\ NextStep(Steps[8]) = Steps[9]
      /\ NextStep(Steps[9]) = Steps[10] /\ NextStep(Steps[10]) = Steps[11]
      /\ NextStep(Steps[11]) = Steps[12] /\ NextStep(Steps[12]) = Steps[13]
      /\ NextStep(Steps[13]) = Steps[14] /\ NextStep(Steps[14]) = Steps[15]
      /\ NextStep(Steps[15]) = Steps[16] /\ NextStep(Steps[16]) = Steps[17]
  BY <1>1
<1> QED
  BY <1>2, StepsLaid
-----------------------------------------------------------------------------
(* What each step of a run does: it ends the run, or establishes one fact  *)
(* and takes the run to the next step.                                     *)

LEMMA CheckoutSteps ==
  ASSUME CheckCheckout
  PROVE  /\ UNCHANGED <<checkout, redlines, files, run>> /\ pc # "idle"
         /\ Ends \/ UNCHANGED <<own, moved>>
         /\ \/ Ends
            \/ pc = "manifest" /\ pc' = "policy" /\ ev' = ev /\ Valid(work.manifest)
            \/ pc = "policy" /\ pc' = "branch" /\ ev' = ev
            \/ pc = "branch" /\ pc' = "clean" /\ ev' = ev
            \/ pc = "clean" /\ pc' = "head" /\ ev' = ev /\ work = Tree[head]
            \/ pc = "head" /\ pc' = "forge" /\ ev' = [ev EXCEPT !.commit = head]
            \/ pc = "forge" /\ pc' = "receipt" /\ ev' = ev /\ ev.commit = forge
BY NextSteps DEF CheckCheckout, Check, Goes

LEMMA ReceiptSteps ==
  ASSUME CheckReceipt
  PROVE  /\ UNCHANGED <<checkout, redlines, files, run>> /\ pc # "idle"
         /\ Ends \/ UNCHANGED <<own, moved>>
         /\ \/ Ends
            \/ pc = "receipt" /\ pc' = "receipt_sum" /\ ev' = [ev EXCEPT !.family = receipt]
            \/ /\ pc = "receipt_sum" /\ pc' = "redline" /\ ev' = ev
               /\ receiptSum = ev.family
            \/ /\ pc = "redline" /\ pc' = "engine" /\ ev' = [ev EXCEPT !.redline = redline]
               /\ redline = receipt.manifest /\ receipt.pass
            \/ /\ pc = "engine" /\ pc' = "test_begin"
               /\ ev' = [ev EXCEPT !.engine = receipt.engine]
               /\ receipt.engine # NoEngine /\ work.lock = receipt.engine
BY NextSteps DEF CheckReceipt, Check, Goes

LEMMA TestSteps ==
  ASSUME Test
  PROVE  /\ UNCHANGED <<checkout, redlines, output, sidecar, basis, run>> /\ pc # "idle"
         /\ Ends \/ UNCHANGED <<own, moved>>
         /\ \/ pc = "test_begin" /\ pc' = "test_end" /\ ev' = ev
            \/ Ends
            \/ /\ pc = "test_end" /\ pc' = "digests" /\ ev' = ev
               /\ log' = [run |-> run, passes |-> TRUE]
BY NextSteps DEF Test, Goes

LEMMA DigestsStep ==
  ASSUME Digests
  PROVE  /\ UNCHANGED <<checkout, redlines, files, run, own, moved>>
         /\ pc = "digests" /\ pc' = "write_begin"
         /\ \E p \in PolicyNow :
              ev' = [ev EXCEPT !.manifest = work.manifest, !.policy = p, !.log = log]
BY NextSteps DEF Digests, Check, Goes

LEMMA WriteSteps ==
  ASSUME Write
  PROVE  /\ UNCHANGED <<checkout, redlines, run, log>>
         /\ Ends \/ UNCHANGED <<own, moved>>
         /\ \/ /\ pc = "write_begin" /\ pc' = "write_end" /\ ev' = ev
               /\ output' = Torn /\ sidecar' = sidecar
               /\ basis' = [own |-> own, moved |-> moved]
            \/ /\ pc = "write_end" /\ pc' = "seal_begin" /\ ev' = ev
               /\ output' = ev /\ sidecar' = sidecar /\ basis' = basis
            \/ /\ pc = "seal_begin" /\ pc' = "seal_end" /\ ev' = ev
               /\ output' = output /\ sidecar' = Torn /\ basis' = basis
            \/ /\ pc = "seal_end" /\ Ends
               /\ output' = output /\ sidecar' = output /\ basis' = basis
BY NextSteps DEF Write, WriteFiles, Goes

\* What happens around a run leaves the run and its files alone.
LEMMA WorldSteps ==
  ASSUME Edit \/ Merge \/ Refresh
  PROVE  UNCHANGED <<log, output, sidecar, basis, pc, run, ev, own>>
BY DEF Edit, Merge, Refresh, World, files

\* An edit counts as a move of the checkout between two looks, and as no
\* move of Redline's; once the run has its digests it does not count.
LEMMA EditMoves ==
  ASSUME Edit, moved \in Moves
  PROVE  /\ moved' \in Moves /\ moved'.redline = moved.redline
         /\ moved'.checkout = 0 => moved.checkout = 0
         /\ pc \in LooksHere => moved'.checkout # 0
         /\ pc \notin LooksHere => moved' = moved
<1>1. IF pc \in LooksHere
      THEN /\ moved.checkout + moved.redline < MaxMoves
           /\ moved' = [moved EXCEPT !.checkout = @ + 1]
      ELSE moved' = moved
  BY BetweenIs DEF Edit, World
<1>2. /\ moved = [checkout |-> moved.checkout, redline |-> moved.redline]
      /\ moved.checkout \in 0..MaxMoves /\ moved.redline \in 0..MaxMoves /\ MaxMoves \in Nat
  BY EvidenceAssumption DEF Moves
<1>3. CASE pc \in LooksHere
  <2>1. moved' = [checkout |-> moved.checkout + 1, redline |-> moved.redline]
    BY <1>1, <1>2, <1>3
  <2> QED
    BY <1>1, <1>2, <1>3, <2>1 DEF Moves
<1> QED
  BY <1>1, <1>3

LEMMA RefreshMoves ==
  ASSUME Refresh, moved \in Moves
  PROVE  /\ moved' \in Moves /\ moved'.checkout = moved.checkout
         /\ moved'.redline = 0 => moved.redline = 0
         /\ pc \in LooksThere => moved'.redline # 0
         /\ pc \notin LooksThere => moved' = moved
<1>1. IF pc \in LooksThere
      THEN /\ moved.checkout + moved.redline < MaxMoves
           /\ moved' = [moved EXCEPT !.redline = @ + 1]
      ELSE moved' = moved
  BY BetweenIs DEF Refresh, World
<1>2. /\ moved = [checkout |-> moved.checkout, redline |-> moved.redline]
      /\ moved.checkout \in 0..MaxMoves /\ moved.redline \in 0..MaxMoves /\ MaxMoves \in Nat
  BY EvidenceAssumption DEF Moves
<1>3. CASE pc \in LooksThere
  <2>1. moved' = [checkout |-> moved.checkout, redline |-> moved.redline + 1]
    BY <1>1, <1>2, <1>3
  <2> QED
    BY <1>1, <1>2, <1>3, <2>1 DEF Moves
<1> QED
  BY <1>1, <1>3

-----------------------------------------------------------------------------
LEMMA NothingNoted == NoEvidence \in Draft
BY DEF NoEvidence, Draft

LEMMA NothingMoved == NoMoves \in Moves /\ NoMoves.checkout = 0 /\ NoMoves.redline = 0
BY EvidenceAssumption DEF NoMoves, Moves

LEMMA PolicyTyped == TypeOK => \A p \in PolicyNow : p \in Policy
BY EvidenceAssumption DEF TypeOK, PolicyNow, Files

LEMMA TypeInit == Init => TInv
<1> SUFFICES ASSUME Init PROVE TInv
  OBVIOUS
<1>1. /\ head \in Commits /\ forge \in Commits /\ mains \subseteq Commits
      /\ work \in Files /\ onMain \in BOOLEAN
  BY EvidenceAssumption DEF Init
<1>2. /\ receipt \in Receipts /\ receiptSum \in Receipts /\ issued \subseteq Receipts
      /\ redline \in RedlineManifests
  BY EvidenceAssumption DEF Init, Receipt
<1>3. pc = "idle" /\ run \in 0..MaxRuns
  BY EvidenceAssumption DEF Init
<1>4. TypeOK
  BY <1>1, <1>2, <1>3, NothingMoved DEF Init, TypeOK
<1>5. Typed
  BY <1>3, NothingNoted DEF Init, Typed, HeadNoted, AtForge, ReceiptNoted, ReceiptSealed,
     RedlineNoted, EngineNoted, Tested, Writing, Begun, Sealing
<1> QED
  BY <1>4, <1>5 DEF TInv

LEMMA TypeStep == TInv /\ [Next]_vars => TInv'
<1> SUFFICES ASSUME TInv, [Next]_vars PROVE TInv'
  OBVIOUS
<1>t. /\ {head, forge} \cup mains \subseteq Commits
      /\ onMain \in BOOLEAN /\ work \in Files
      /\ {receipt, receiptSum} \cup issued \subseteq Receipts
      /\ redline \in RedlineManifests
      /\ pc \in {"idle"} \cup Points
      /\ run \in 0..MaxRuns /\ own \in BOOLEAN
      /\ moved \in Moves /\ basis \in [own : BOOLEAN, moved : Moves]
      /\ output \in {Absent, Torn} \/ output \in Evidence
      /\ sidecar \in {Absent, Torn} \/ sidecar \in Evidence
      /\ output = Absent => sidecar = Absent
  BY StepsRange DEF TInv, TypeOK
<1>n. TypeOK' <=>
      /\ ({head, forge} \cup mains \subseteq Commits)'
      /\ (onMain \in BOOLEAN /\ work \in Files)'
      /\ ({receipt, receiptSum} \cup issued \subseteq Receipts)'
      /\ (redline \in RedlineManifests)'
      /\ pc' \in {"idle"} \cup Points
      /\ run' \in 0..MaxRuns /\ own' \in BOOLEAN
      /\ moved' \in Moves /\ basis' \in [own : BOOLEAN, moved : Moves]
      /\ output' \in {Absent, Torn} \/ output' \in Evidence
      /\ sidecar' \in {Absent, Torn} \/ sidecar' \in Evidence
      /\ output' = Absent => sidecar' = Absent
  BY StepsRange DEF TypeOK
<1>e. Typed /\ MaxRuns \in Nat
  BY EvidenceAssumption DEF TInv
<1>w. work.manifest \in Manifest /\ work.policy \in Policy /\ work.lock \in Engines
  BY <1>t DEF Files
<1>r. receipt.manifest \in RedlineManifests /\ receipt.engine \in Engines \cup {NoEngine}
  BY <1>t, EvidenceAssumption DEF Receipt
<1> USE DEF Points, ManifestValid, TreeClean, HeadNoted, AtForge, ReceiptNoted,
     ReceiptSealed, RedlineNoted, EngineNoted, Tested, Writing, Begun, Sealing
<1>1. CASE Edit
  <2>1. head' \in Commits /\ onMain' \in BOOLEAN /\ work' \in Files
    BY <1>1, <1>t, EvidenceAssumption DEF Edit
  <2>2. /\ UNCHANGED <<log, output, sidecar, basis, pc, run, ev, own>>
        /\ UNCHANGED <<forge, mains, receipt, receiptSum, redline, issued>>
    BY <1>1, WorldSteps DEF Edit, redlines
  <2>3. moved' \in Moves /\ (pc \in Begun => moved' = moved)
    BY <1>1, <1>t, EditMoves DEF LooksHere
  <2> QED
    BY <1>t, <1>n, <1>e, <2>1, <2>2, <2>3 DEF TInv, Typed
<1>2. CASE Merge
  <2>1. forge' \in Commits
    BY <1>2 DEF Merge
  <2> QED
    BY <1>2, <1>t, <1>n, <1>e, <2>1 DEF Merge, redlines, files, TInv, Typed
<1>3. CASE Refresh
  <2>1. /\ receipt' \in Receipts /\ receiptSum' \in Receipts
        /\ issued' \subseteq Receipts /\ redline' \in RedlineManifests
    BY <1>3, <1>t DEF Refresh
  <2>2. /\ UNCHANGED <<log, output, sidecar, basis, pc, run, ev, own>>
        /\ UNCHANGED <<head, onMain, work, forge, mains>>
    BY <1>3, WorldSteps DEF Refresh, checkout
  <2>3. moved' \in Moves /\ (pc \in Begun => moved' = moved)
    BY <1>3, <1>t, RefreshMoves DEF LooksThere
  <2> QED
    BY <1>t, <1>n, <1>e, <2>1, <2>2, <2>3 DEF TInv, Typed
<1>4. CASE Begin
  <2>1. pc' = "manifest" /\ run' = run + 1 /\ run < MaxRuns
    BY <1>4, StepsLaid DEF Begin
  <2> QED
    BY <1>4, <1>t, <1>n, <1>e, <2>1 DEF Begin, checkout, redlines, files, TInv, Typed
<1>5. CASE CheckCheckout
  <2>1. ev' \in Draft
    BY <1>5, <1>t, <1>e, CheckoutSteps, NothingNoted DEF Ends, Typed, Draft
  <2>2. pc' \in HeadNoted => ev'.commit \in Commits
    BY <1>5, <1>t, <1>e, CheckoutSteps DEF Ends, Typed, Draft
  <2>3. own' \in BOOLEAN /\ moved' \in Moves
    BY <1>5, <1>t, CheckoutSteps, NothingMoved DEF Ends
  <2> QED
    BY <1>5, <1>t, <1>n, <1>e, <2>1, <2>2, <2>3, CheckoutSteps
       DEF Ends, checkout, redlines, files, TInv, Typed
<1>6. CASE CheckReceipt
  <2>1. ev' \in Draft
    BY <1>6, <1>t, <1>e, <1>r, ReceiptSteps, NothingNoted DEF Ends, Typed, Draft
  <2>2. /\ pc' \in HeadNoted => ev'.commit \in Commits
        /\ pc' \in ReceiptNoted => ev'.family \in Receipts
        /\ pc' \in RedlineNoted => ev'.redline \in RedlineManifests
        /\ pc' \in EngineNoted => ev'.engine \in Engines
    BY <1>6, <1>t, <1>e, <1>r, ReceiptSteps DEF Ends, Typed, Draft
  <2>3. own' \in BOOLEAN /\ moved' \in Moves
    BY <1>6, <1>t, ReceiptSteps, NothingMoved DEF Ends
  <2> QED
    BY <1>6, <1>t, <1>n, <1>e, <2>1, <2>2, <2>3, ReceiptSteps
       DEF Ends, checkout, redlines, files, TInv, Typed
<1>7. CASE Test
  <2>0. run \in 1..MaxRuns
    BY <1>7, <1>t, <1>e, TestSteps DEF Typed
  <2>1. pc' = "digests" => log' \in TestLog
    <3>1. pc' = "digests" => log' = [run |-> run, passes |-> TRUE]
      BY <1>7, TestSteps DEF Ends
    <3>2. [run |-> run, passes |-> TRUE] \in TestLog
      BY <2>0 DEF TestLog
    <3> QED
      BY <3>1, <3>2
  <2>2. own' \in BOOLEAN /\ moved' \in Moves
    BY <1>7, <1>t, TestSteps, NothingMoved DEF Ends
  <2> QED
    BY <1>7, <1>t, <1>n, <1>e, <2>1, <2>2, TestSteps, NothingNoted
       DEF Ends, checkout, redlines, TInv, Typed
<1>8. CASE Digests
  <2>0. PICK p \in Policy :
          ev' = [ev EXCEPT !.manifest = work.manifest, !.policy = p, !.log = log]
    BY <1>8, DigestsStep, PolicyTyped DEF TInv
  <2>1. ev' \in Evidence
    BY <1>8, <1>e, <1>w, <2>0, DigestsStep DEF Typed, Draft, Evidence, TestLog
  <2>2. ev' \in Draft
    BY <1>8, <1>e, <1>w, <2>0, DigestsStep DEF Typed, Draft
  <2>3. /\ ev'.commit \in Commits /\ ev'.family \in Receipts
        /\ ev'.redline \in RedlineManifests /\ ev'.engine \in Engines
    BY <2>1 DEF Evidence
  <2> QED
    BY <1>8, <1>t, <1>n, <1>e, <2>1, <2>2, <2>3, DigestsStep
       DEF checkout, redlines, files, TInv, Typed
<1>9. CASE Write
  <2>1. pc \in Writing /\ ev \in Evidence
    BY <1>9, <1>e, WriteSteps DEF Ends, Typed
  <2>2. own' \in BOOLEAN /\ moved' \in Moves /\ basis' \in [own : BOOLEAN, moved : Moves]
    <3>1. own' \in BOOLEAN /\ moved' \in Moves
      BY <1>9, <1>t, WriteSteps, NothingMoved DEF Ends
    <3>2. basis' = basis \/ basis' = [own |-> own, moved |-> moved]
      BY <1>9, WriteSteps
    <3> QED
      BY <1>t, <3>1, <3>2
  <2>3. pc' \in Begun => basis' = [own |-> own', moved |-> moved']
    BY <1>9, <1>e, WriteSteps DEF Ends, Typed
  <2>4. UNCHANGED <<head, onMain, work, forge, mains, receipt, receiptSum, redline, issued,
                    run, log>>
    BY <1>9, WriteSteps DEF checkout, redlines
  <2>5. /\ output' \in {Absent, Torn} \/ output' \in Evidence
        /\ sidecar' \in {Absent, Torn} \/ sidecar' \in Evidence
        /\ output' = Absent => sidecar' = Absent
        /\ pc' \in Sealing => output' = ev'
    <3>1. Absent \notin Evidence /\ Absent # Torn /\ ev # Absent
      BY <2>1, EvidenceAssumption
    <3>2. pc \in Sealing => output = ev
      BY <1>e DEF Typed
    <3>3. CASE pc = "write_begin"
      BY <3>1, <3>3, <1>9, <1>t, WriteSteps
    <3>4. CASE pc = "write_end"
      BY <2>1, <3>1, <3>4, <1>9, <1>t, WriteSteps
    <3>5. CASE pc = "seal_begin"
      BY <2>1, <3>1, <3>2, <3>5, <1>9, <1>t, WriteSteps
    <3>6. CASE pc = "seal_end"
      BY <2>1, <3>1, <3>2, <3>6, <1>9, <1>t, WriteSteps DEF Ends
    <3> QED
      BY <3>3, <3>4, <3>5, <3>6, <1>9, WriteSteps
  <2>6. /\ pc' \in {"idle"} \cup Writing
        /\ pc' = "idle" => ev' = NoEvidence
        /\ pc' \in Writing => ev' = ev
    BY <1>9, WriteSteps DEF Ends
  <2>7. TypeOK'
    BY <1>t, <1>n, <2>2, <2>4, <2>5, <2>6
  <2>8. Typed'
    BY <1>e, <2>1, <2>3, <2>4, <2>5, <2>6, NothingNoted DEF Typed
  <2> QED
    BY <2>7, <2>8 DEF TInv
<1>10. CASE Die
  BY <1>10, <1>t, <1>n, <1>e, NothingNoted, NothingMoved
     DEF Die, Ends, checkout, redlines, files, TInv, Typed
<1>11. CASE UNCHANGED vars
  BY <1>11, <1>t, <1>n, <1>e DEF vars, checkout, redlines, files, TInv, Typed
<1> QED
  BY <1>1, <1>2, <1>3, <1>4, <1>5, <1>6, <1>7, <1>8, <1>9, <1>10, <1>11 DEF Next

\* Type correctness of every reachable state, wherever runs die; in
\* particular there is never a sidecar without evidence.
THEOREM EvidenceTypeCorrect == Spec => []TypeOK
<1>1. TInv => TypeOK
  BY DEF TInv
<1> QED
  BY <1>1, TypeInit, TypeStep, PTL DEF Spec
-----------------------------------------------------------------------------
(* Evidence of Redline: what the runs have seen whatever moves meanwhile,  *)
(* and what they have seen of one receipt when nothing of Redline's moves. *)

Written(f) == f \notin {Absent, Torn}

Checked(e) == e.commit \in mains /\ e.family \in issued /\ e.log.passes

CheckedSoFar ==
  /\ receiptSum \in issued
  /\ pc \in AtForge => ev.commit \in mains
  /\ pc \in ReceiptSealed => ev.family \in issued
  /\ pc \in Tested => log.passes
  /\ pc \in Writing => ev.log.passes
  /\ Written(output) => Checked(output)

CInv == TInv /\ forge \in mains /\ CheckedSoFar

LEMMA CheckedInit == Init => CInv
<1> SUFFICES ASSUME Init PROVE CInv
  OBVIOUS
<1>1. pc = "idle" /\ output = Absent /\ receiptSum \in issued /\ forge \in mains
  BY DEF Init
<1> QED
  BY <1>1, TypeInit DEF CInv, CheckedSoFar, Written, AtForge, ReceiptNoted, ReceiptSealed,
     RedlineNoted, EngineNoted, Tested, Writing, Sealing

LEMMA CheckedStep == CInv /\ [Next]_vars => CInv'
<1> SUFFICES ASSUME CInv, [Next]_vars PROVE CInv'
  OBVIOUS
<1>t. TInv /\ TInv' /\ Typed /\ forge \in mains /\ CheckedSoFar /\ ev \in Draft
  BY TypeStep DEF CInv, TInv, Typed
<1> USE DEF AtForge, ReceiptNoted, ReceiptSealed, RedlineNoted, EngineNoted, Tested,
            Writing, Sealing
<1>1. CASE Edit \/ Merge \/ Refresh
  <2>1. UNCHANGED <<log, output, pc, ev>>
    BY <1>1, WorldSteps
  <2>2. mains \subseteq mains' /\ forge' \in mains'
    BY <1>1, <1>t DEF Edit, Merge, Refresh, checkout
  <2>3. issued \subseteq issued' /\ receiptSum' \in issued'
    BY <1>1, <1>t DEF Edit, Merge, Refresh, redlines, CheckedSoFar
  <2> QED
    BY <1>t, <2>1, <2>2, <2>3 DEF CInv, CheckedSoFar, Checked
<1>3. CASE Begin
  <2>1. pc' = "manifest" /\ UNCHANGED <<checkout, redlines, files, ev>>
    BY <1>3, StepsLaid DEF Begin
  <2> QED
    BY <1>t, <2>1 DEF CInv, CheckedSoFar, Checked, checkout, redlines, files
<1>4. CASE CheckCheckout
  BY <1>4, <1>t, CheckoutSteps
     DEF CInv, CheckedSoFar, Checked, checkout, redlines, files, Ends
<1>5. CASE CheckReceipt
  <2>1. /\ pc' \in AtForge => ev'.commit = ev.commit /\ pc \in AtForge
        /\ pc' \in ReceiptSealed => ev'.family \in issued
        /\ pc' \notin Tested
    BY <1>5, <1>t, ReceiptSteps DEF CheckedSoFar, Ends, Draft
  <2>2. UNCHANGED <<mains, forge, receiptSum, issued, output>>
    BY <1>5, ReceiptSteps DEF checkout, redlines, files
  <2> QED
    BY <1>t, <2>1, <2>2 DEF CInv, CheckedSoFar, Checked
<1>6. CASE Test
  <2>1. UNCHANGED <<mains, forge, receiptSum, issued, output>>
    BY <1>6, TestSteps DEF checkout, redlines
  <2>2. \/ pc' = "idle"
        \/ pc = "test_begin" /\ pc' = "test_end" /\ ev' = ev
        \/ pc = "test_end" /\ pc' = "digests" /\ ev' = ev /\ log'.passes
    <3>1. log' = [run |-> run, passes |-> TRUE] => log'.passes
      OBVIOUS
    <3> QED
      BY <1>6, <3>1, TestSteps DEF Ends
  <2> QED
    BY <1>t, <2>1, <2>2 DEF CInv, CheckedSoFar, Checked
<1>7. CASE Digests
  <2>1. ev'.commit = ev.commit /\ ev'.family = ev.family /\ ev'.log = log
    BY <1>7, <1>t, DigestsStep DEF Draft
  <2> QED
    BY <1>7, <1>t, <2>1, DigestsStep
       DEF CInv, CheckedSoFar, Checked, checkout, redlines, files
<1>8. CASE Write
  <2>1. UNCHANGED <<checkout, redlines, log>>
    BY <1>8, WriteSteps
  <2>2. CASE pc = "write_end"
    <3>1. Checked(ev)
      BY <2>2, <1>t DEF CheckedSoFar, Checked
    <3>2. output' = ev /\ pc' = "seal_begin" /\ ev' = ev
      BY <2>2, <1>8, WriteSteps
    <3> QED
      BY <2>1, <3>1, <3>2, <2>2, <1>t DEF CInv, CheckedSoFar, Checked, checkout, redlines
  <2>3. CASE pc # "write_end"
    <3>1. output' = Torn \/ output' = output
      BY <2>3, <1>8, WriteSteps
    <3> QED
      BY <1>8, <2>1, <2>3, <3>1, <1>t, WriteSteps
         DEF CInv, CheckedSoFar, Checked, checkout, redlines, Written, Ends
  <2> QED
    BY <2>2, <2>3
<1>9. CASE Die
  BY <1>9, <1>t DEF Die, Ends, CInv, CheckedSoFar, Checked, checkout, redlines, files
<1>10. CASE UNCHANGED vars
  BY <1>10, <1>t DEF vars, CInv, CheckedSoFar, Checked, checkout, redlines, files
<1> QED
  BY <1>1, <1>3, <1>4, <1>5, <1>6, <1>7, <1>8, <1>9, <1>10 DEF Next

OneReceipt(e) ==
  /\ e.family.pass
  /\ e.family.manifest = e.redline
  /\ e.family.engine = e.engine

SeenSoFar ==
  moved.redline = 0 =>
    /\ pc \in LooksThere => ev.family = receipt
    /\ pc \in RedlineNoted => ev.family.pass /\ ev.family.manifest = ev.redline
    /\ pc \in EngineNoted => ev.family.engine = ev.engine

OutputSeen == Written(output) /\ basis.moved.redline = 0 => OneReceipt(output)

SInv == TInv /\ SeenSoFar /\ OutputSeen

LEMMA SeenInit == Init => SInv
<1> SUFFICES ASSUME Init PROVE SInv
  OBVIOUS
<1>1. pc = "idle" /\ output = Absent
  BY DEF Init
<1> QED
  BY <1>1, TypeInit DEF SInv, SeenSoFar, OutputSeen, Written, LooksThere,
     RedlineNoted, EngineNoted, Tested, Writing, Sealing

LEMMA SeenStep == SInv /\ [Next]_vars => SInv'
<1> SUFFICES ASSUME SInv, [Next]_vars PROVE SInv'
  OBVIOUS
<1>t. /\ TInv /\ TInv' /\ Typed /\ SeenSoFar /\ OutputSeen
      /\ ev \in Draft /\ moved \in Moves
  BY TypeStep DEF SInv, TInv, Typed, TypeOK
<1>k. UNCHANGED <<output, basis>> => OutputSeen'
  BY <1>t DEF OutputSeen, OneReceipt
<1> USE DEF LooksThere, RedlineNoted, EngineNoted, Tested, Writing, Sealing
<1>1. CASE Edit \/ Merge
  <2>1. UNCHANGED <<output, basis, pc, ev>>
    BY <1>1, WorldSteps
  <2>2. receipt' = receipt
    BY <1>1 DEF Edit, Merge, redlines
  <2>3. moved'.redline = moved.redline
    BY <1>1, <1>t, EditMoves DEF Merge
  <2>4. SeenSoFar'
    BY <1>t, <2>1, <2>2, <2>3 DEF SeenSoFar
  <2> QED
    BY <1>t, <1>k, <2>1, <2>4 DEF SInv
<1>2. CASE Refresh
  <2>1. UNCHANGED <<output, basis, pc, ev>>
    BY <1>2, WorldSteps
  <2>2. /\ moved'.redline = 0 => moved.redline = 0
        /\ pc \in LooksThere => moved'.redline # 0
    BY <1>2, <1>t, RefreshMoves
  <2>4. SeenSoFar'
    BY <1>t, <2>1, <2>2 DEF SeenSoFar
  <2> QED
    BY <1>t, <1>k, <2>1, <2>4 DEF SInv
<1>3. CASE Begin
  <2>1. pc' = "manifest" /\ UNCHANGED files
    BY <1>3, StepsLaid DEF Begin
  <2> QED
    BY <1>t, <1>k, <2>1 DEF SInv, SeenSoFar, files
<1>4. CASE CheckCheckout
  <2>1. pc' \notin LooksThere /\ pc' \notin RedlineNoted /\ pc' \notin EngineNoted
    BY <1>4, CheckoutSteps DEF Ends
  <2> QED
    BY <1>4, <1>t, <1>k, <2>1, CheckoutSteps DEF SInv, SeenSoFar, files
<1>5. CASE CheckReceipt
  <2>1. UNCHANGED <<receipt, output, basis>>
    BY <1>5, ReceiptSteps DEF redlines, files
  <2>2. CASE Ends
    BY <2>1, <2>2, <1>t, <1>k DEF Ends, SInv, SeenSoFar
  <2>3. CASE ~ Ends
    <3>1. moved' = moved
      BY <2>3, <1>5, ReceiptSteps
    <3>2. ASSUME moved.redline = 0
          PROVE  /\ pc' \in LooksThere => ev'.family = receipt
                 /\ pc' \in RedlineNoted => ev'.family.pass /\ ev'.family.manifest = ev'.redline
                 /\ pc' \in EngineNoted => ev'.family.engine = ev'.engine
      BY <2>3, <3>2, <1>5, <1>t, ReceiptSteps DEF SeenSoFar, Draft
    <3>3. SeenSoFar'
      BY <2>1, <3>1, <3>2 DEF SeenSoFar
    <3> QED
      BY <1>t, <1>k, <2>1, <3>3 DEF SInv
  <2> QED
    BY <2>2, <2>3
<1>6. CASE Test
  BY <1>6, <1>t, <1>k, TestSteps DEF SInv, SeenSoFar, redlines, Ends
<1>7. CASE Digests
  <2>1. /\ ev'.family = ev.family /\ ev'.redline = ev.redline /\ ev'.engine = ev.engine
    BY <1>7, <1>t, DigestsStep DEF Draft
  <2> QED
    BY <1>7, <1>t, <1>k, <2>1, DigestsStep DEF SInv, SeenSoFar, files
<1>8. CASE Write
  <2>1. SeenSoFar'
    BY <1>8, <1>t, WriteSteps DEF SeenSoFar, Ends
  <2>2. CASE pc = "write_end"
    <3>1. output' = ev /\ basis' = basis /\ basis.moved = moved
      BY <2>2, <1>8, <1>t, WriteSteps DEF Typed, Begun
    <3>2. moved.redline = 0 => OneReceipt(ev)
      BY <2>2, <1>t DEF SeenSoFar, OneReceipt
    <3>3. OutputSeen'
      BY <3>1, <3>2 DEF OutputSeen, OneReceipt
    <3> QED
      BY <1>t, <2>1, <3>3 DEF SInv
  <2>3. CASE pc = "write_begin"
    <3>1. output' = Torn
      BY <2>3, <1>8, WriteSteps
    <3> QED
      BY <1>t, <2>1, <3>1 DEF SInv, OutputSeen, Written
  <2>4. CASE pc \in Sealing
    <3>1. UNCHANGED <<output, basis>>
      BY <2>4, <1>8, WriteSteps
    <3> QED
      BY <1>t, <1>k, <2>1, <3>1 DEF SInv
  <2> QED
    BY <1>8, <2>2, <2>3, <2>4, WriteSteps
<1>9. CASE Die
  BY <1>9, <1>t, <1>k DEF Die, Ends, SInv, SeenSoFar, files
<1>10. CASE UNCHANGED vars
  BY <1>10, <1>t, <1>k DEF vars, SInv, SeenSoFar, redlines, files
<1> QED
  BY <1>1, <1>2, <1>3, <1>4, <1>5, <1>6, <1>7, <1>8, <1>9, <1>10 DEF Next

\* Whatever moves in the checkout, at the forge and in Redline while a run
\* looks, evidence with a matching sidecar is whole, of a test that passed,
\* its commit has been main, and its receipt was completed; the receipt passed
\* and binds the manifest and the engine when nothing of Redline's moved from
\* the first look at the receipt to the last.
THEOREM VouchedIsCheckedHolds == Spec => []VouchedIsChecked
<1>1. CInv /\ SInv => VouchedIsChecked
  <2> SUFFICES ASSUME CInv, SInv, Vouched
               PROVE  /\ output \in Evidence /\ Checked(output)
                      /\ basis.moved.redline = 0 => OneReceipt(output)
    BY DEF VouchedIsChecked, Checked, OneReceipt
  <2>1. Written(output)
    BY DEF Vouched, Written
  <2> QED
    BY <2>1 DEF CInv, SInv, TInv, TypeOK, CheckedSoFar, OutputSeen, Written
<1> QED
  BY <1>1, CheckedInit, CheckedStep, SeenInit, SeenStep, PTL DEF Spec

-----------------------------------------------------------------------------
(* Evidence of this repository: while the checkout is left alone, what was *)
(* checked of its files is what is digested at the end.                    *)

Bound(e, itsOwn) ==
  LET tree == Tree[e.commit]
  IN  /\ Valid(tree.manifest) /\ e.manifest = tree.manifest
      /\ itsOwn => e.policy = tree.policy
      /\ tree.lock = e.engine

BoundSoFar ==
  moved.checkout = 0 =>
    /\ pc \in LooksHere => Valid(work.manifest)
    /\ pc \in LooksHere \cap TreeClean => work = Tree[head]
    /\ pc \in LooksHere \cap HeadNoted => ev.commit = head
    /\ pc \in LooksHere \cap EngineNoted => ev.engine = work.lock
    /\ pc \in Writing => Bound(ev, own)

OutputBound == Written(output) /\ basis.moved.checkout = 0 => Bound(output, basis.own)

BInv == TInv /\ BoundSoFar /\ OutputBound

LEMMA BoundInit == Init => BInv
<1> SUFFICES ASSUME Init PROVE BInv
  OBVIOUS
<1>1. pc = "idle" /\ output = Absent
  BY DEF Init
<1> QED
  BY <1>1, TypeInit DEF BInv, BoundSoFar, OutputBound, Written, LooksHere, ManifestValid,
     TreeClean, HeadNoted, AtForge, ReceiptNoted, ReceiptSealed, RedlineNoted, EngineNoted,
     Tested, Writing, Sealing

LEMMA BoundStep == BInv /\ [Next]_vars => BInv'
<1> SUFFICES ASSUME BInv, [Next]_vars PROVE BInv'
  OBVIOUS
<1>t. /\ TInv /\ TInv' /\ Typed /\ BoundSoFar /\ OutputBound
      /\ ev \in Draft /\ moved \in Moves
  BY TypeStep DEF BInv, TInv, Typed, TypeOK
<1>k. UNCHANGED <<output, basis>> => OutputBound'
  BY <1>t DEF OutputBound, Bound
<1> USE DEF LooksHere, ManifestValid, TreeClean, HeadNoted, AtForge, ReceiptNoted,
            ReceiptSealed, RedlineNoted, EngineNoted, Tested, Writing, Sealing
<1>1. CASE Edit
  <2>1. UNCHANGED <<output, basis, pc, ev, own>>
    BY <1>1, WorldSteps
  <2>2. /\ moved'.checkout = 0 => moved.checkout = 0
        /\ pc \in LooksHere => moved'.checkout # 0
    BY <1>1, <1>t, EditMoves
  <2>3. BoundSoFar'
    BY <1>t, <2>1, <2>2 DEF BoundSoFar, Bound
  <2> QED
    BY <1>t, <1>k, <2>1, <2>3 DEF BInv
<1>2. CASE Merge \/ Refresh
  <2>1. UNCHANGED <<head, work, output, basis, pc, ev, own>>
    BY <1>2, WorldSteps DEF Merge, Refresh, checkout
  <2>2. moved'.checkout = moved.checkout
    BY <1>2, <1>t, RefreshMoves DEF Merge
  <2>3. BoundSoFar'
    BY <1>t, <2>1, <2>2 DEF BoundSoFar, Bound
  <2> QED
    BY <1>t, <1>k, <2>1, <2>3 DEF BInv
<1>3. CASE Begin
  <2>1. pc' = "manifest" /\ UNCHANGED files
    BY <1>3, StepsLaid DEF Begin
  <2> QED
    BY <1>t, <1>k, <2>1 DEF BInv, BoundSoFar, files
<1>4. CASE CheckCheckout
  <2>1. /\ pc' \in HeadNoted => ev'.commit = head \/ moved.checkout # 0
        /\ pc' \notin EngineNoted
    BY <1>4, <1>t, CheckoutSteps DEF BoundSoFar, Ends, Draft
  <2>2. moved.checkout = 0 =>
          /\ pc' \in LooksHere => Valid(work.manifest)
          /\ pc' \in TreeClean => work = Tree[head]
    BY <1>4, <1>t, CheckoutSteps DEF BoundSoFar, Ends
  <2>3. UNCHANGED <<head, work, output, basis>>
    BY <1>4, CheckoutSteps DEF checkout, files
  <2>4. pc' = "idle" \/ moved' = moved
    BY <1>4, CheckoutSteps DEF Ends
  <2>5. BoundSoFar'
    BY <2>1, <2>2, <2>3, <2>4 DEF BoundSoFar
  <2> QED
    BY <1>t, <1>k, <2>3, <2>5 DEF BInv
<1>5. CASE CheckReceipt
  <2>1. /\ pc' # "idle" => pc \in LooksHere \cap HeadNoted /\ ev'.commit = ev.commit
        /\ pc' \in EngineNoted => ev'.engine = work.lock
        /\ pc' \notin Tested
    BY <1>5, <1>t, ReceiptSteps DEF Ends, Draft
  <2>2. UNCHANGED <<head, work, output, basis>>
    BY <1>5, ReceiptSteps DEF checkout, files
  <2>3. pc' = "idle" \/ moved' = moved
    BY <1>5, ReceiptSteps DEF Ends
  <2>4. BoundSoFar'
    BY <1>t, <2>1, <2>2, <2>3 DEF BoundSoFar
  <2> QED
    BY <1>t, <1>k, <2>2, <2>4 DEF BInv
<1>6. CASE Test
  <2>1. UNCHANGED <<head, work, output, basis>>
    BY <1>6, TestSteps DEF checkout
  <2>2. pc' = "idle" \/ (/\ moved' = moved /\ ev' = ev /\ pc \in EngineNoted \ Writing
                         /\ pc' \in EngineNoted \ Writing)
    BY <1>6, TestSteps DEF Ends
  <2>3. BoundSoFar'
    BY <1>t, <2>1, <2>2 DEF BoundSoFar
  <2> QED
    BY <1>t, <1>k, <2>1, <2>3 DEF BInv
<1>7. CASE Digests
  <2>1. PICK p \in PolicyNow :
          ev' = [ev EXCEPT !.manifest = work.manifest, !.policy = p, !.log = log]
    BY <1>7, DigestsStep
  <2>2. /\ ev'.commit = ev.commit /\ ev'.engine = ev.engine
        /\ ev'.manifest = work.manifest /\ ev'.policy = p
    BY <2>1, <1>t DEF Draft
  <2>3. own => p = work.policy
    BY <2>1 DEF PolicyNow
  <2>4. pc = "digests" /\ pc' = "write_begin" /\ UNCHANGED <<own, moved, output, basis>>
    BY <1>7, DigestsStep DEF files
  <2>5. moved.checkout = 0 => Bound(ev, own)'
    BY <1>t, <2>2, <2>3, <2>4 DEF BoundSoFar, Bound
  <2>6. BoundSoFar'
    BY <2>4, <2>5 DEF BoundSoFar
  <2> QED
    BY <1>t, <1>k, <2>4, <2>6 DEF BInv
<1>8. CASE Write
  <2>1. BoundSoFar'
    <3>1. CASE Ends
      BY <3>1 DEF Ends, BoundSoFar
    <3>2. CASE ~ Ends
      <4>1. pc \in Writing /\ pc' \in Writing /\ UNCHANGED <<ev, own, moved>>
        BY <3>2, <1>8, WriteSteps
      <4> QED
        BY <4>1, <1>t DEF BoundSoFar, Bound
    <3> QED
      BY <3>1, <3>2
  <2>2. CASE pc = "write_end"
    <3>1. output' = ev /\ basis' = basis /\ basis.moved = moved /\ basis.own = own
      BY <2>2, <1>8, <1>t, WriteSteps DEF Typed, Begun
    <3>2. moved.checkout = 0 => Bound(ev, own)
      BY <2>2, <1>t DEF BoundSoFar
    <3>3. OutputBound'
      BY <3>1, <3>2 DEF OutputBound, Bound
    <3> QED
      BY <1>t, <2>1, <3>3 DEF BInv
  <2>3. CASE pc = "write_begin"
    <3>1. output' = Torn
      BY <2>3, <1>8, WriteSteps
    <3> QED
      BY <1>t, <2>1, <3>1 DEF BInv, OutputBound, Written
  <2>4. CASE pc \in Sealing
    <3>1. UNCHANGED <<output, basis>>
      BY <2>4, <1>8, WriteSteps
    <3> QED
      BY <1>t, <1>k, <2>1, <3>1 DEF BInv
  <2> QED
    BY <1>8, <2>2, <2>3, <2>4, WriteSteps
<1>9. CASE Die
  BY <1>9, <1>t, <1>k DEF Die, Ends, BInv, BoundSoFar, files
<1>10. CASE UNCHANGED vars
  <2>1. UNCHANGED <<head, work, output, basis, pc, ev, own, moved>>
    BY <1>10 DEF vars, checkout, files
  <2>2. BoundSoFar'
    BY <1>t, <2>1 DEF BoundSoFar, Bound
  <2> QED
    BY <1>t, <1>k, <2>1, <2>2 DEF BInv
<1> QED
  BY <1>1, <1>2, <1>3, <1>4, <1>5, <1>6, <1>7, <1>8, <1>9, <1>10 DEF Next

\* Whatever happens at the forge and in Redline, and whichever policy a run is
\* given, what evidence says of this repository is true of the commit it names
\* when the checkout did not move between the first check and the digests; its
\* policy digest, when the policy was the checkout's own.
THEOREM EvidenceBindsHolds == Spec => []EvidenceBinds
<1>1. BInv => EvidenceBinds
  BY DEF BInv, OutputBound, Bound, EvidenceBinds, Vouched, Written
<1> QED
  BY <1>1, BoundInit, BoundStep, PTL DEF Spec
-----------------------------------------------------------------------------
(* Which manifests are valid.                                              *)

Expected(r) == [name |-> r, canonical |-> TRUE,
                status |-> IF r \in Tagged THEN "bound" ELSE "pending",
                tag |-> IF r \in Tagged THEN "expected" ELSE "none"]

\* A sequence as long as a finite set is large lists it without repetition
\* as soon as it names every member.
LEMMA Lists ==
  ASSUME NEW T, IsFiniteSet(T), NEW n \in Nat, NEW U, NEW s \in [1..n -> U]
  PROVE  /\ T \subseteq Range(s) /\ n = Cardinality(T)
              <=> Range(s) = T /\ Cardinality(Range(s)) = n
         /\ Cardinality(Range(s)) = n => \A a, b \in 1..n : s[a] = s[b] => a = b
<1>1. IsFiniteSet(1..n) /\ Cardinality(1..n) = n
  BY FS_Interval
<1>2. s \in Surjection(1..n, Range(s))
  BY DEF Surjection, Range
<1>3. /\ IsFiniteSet(Range(s)) /\ Cardinality(Range(s)) <= n
      /\ Cardinality(Range(s)) = n <=> s \in Injection(1..n, Range(s))
  BY <1>1, <1>2, FS_Surjection
<1>4. ASSUME T \subseteq Range(s), n = Cardinality(T)
      PROVE Range(s) = T /\ Cardinality(Range(s)) = n
  <2>1. Cardinality(T) <= Cardinality(Range(s))
        /\ (Cardinality(T) = Cardinality(Range(s)) => Range(s) = T)
    BY <1>3, <1>4, FS_Subset
  <2>2. Cardinality(Range(s)) \in Nat
    BY <1>3, FS_CardinalityType
  <2> QED
    BY <1>3, <1>4, <2>1, <2>2
<1> QED
  BY <1>3, <1>4 DEF Injection, IsInjective

LEMMA RetiredIs ==
  ASSUME NEW s \in Seq(Name)
  PROVE  Distinct(s) /\ Range(s) \in {{}, {Web}} <=> s \in {<<>>, <<Web>>}
<1>1. s = <<>> => Range(s) = {}
  BY DEF Range
<1>2. s = <<Web>> => Range(s) = {Web} /\ Len(s) = 1
  BY DEF Range
<1>3. Cardinality({}) = 0 /\ Cardinality({Web}) = 1
  BY FS_EmptySet, FS_Singleton
<1>4. ASSUME Distinct(s), Range(s) = {} PROVE s = <<>>
  BY <1>3, <1>4 DEF Distinct
<1>5. ASSUME Distinct(s), Range(s) = {Web} PROVE s = <<Web>>
  <2>1. Len(s) = 1
    BY <1>3, <1>5 DEF Distinct
  <2>2. s[1] \in Range(s)
    BY <2>1 DEF Range
  <2> QED
    BY <1>5, <2>1, <2>2
<1> QED
  BY <1>1, <1>2, <1>3, <1>4, <1>5 DEF Distinct

\* The rows of a manifest: one, the expected one, for each active repository.
LEMMA RowsPinned ==
  ASSUME NEW m \in Manifest, NEW active, active \subseteq Repos
  PROVE  (/\ \A n \in DOMAIN m.rows :
               m.rows[n].name \in Repos /\ m.rows[n].canonical /\ IdentityMatches(m.rows[n])
          /\ Cardinality(RowNames(m)) = Len(m.rows)
          /\ RowNames(m) = active)
         <=> (/\ Len(m.rows) = Cardinality(active)
              /\ \A r \in active : \E n \in DOMAIN m.rows : m.rows[n] = Expected(r))
<1> DEFINE k == Len(m.rows)
           g == [n \in 1..k |-> m.rows[n].name]
<1>t. m.rows \in Seq(Row)
  BY DEF Manifest
<1>d. k \in Nat /\ DOMAIN m.rows = 1..k /\ \A n \in 1..k : m.rows[n] \in Row
  BY <1>t
<1>f. IsFiniteSet(active)
  BY ReposAssumption, FS_Subset
<1>g. g \in [1..k -> Name] /\ Range(g) = RowNames(m)
  BY <1>d DEF Row, Range, RowNames
<1>e. ASSUME NEW r \in Repos, NEW row \in Row, row.name = r
      PROVE  row.canonical /\ IdentityMatches(row) <=> row = Expected(r)
  <2>1. row = [name |-> row.name, canonical |-> row.canonical,
               status |-> row.status, tag |-> row.tag]
    BY DEF Row
  <2>2. row.canonical \in BOOLEAN
    BY DEF Row
  <2> QED
    BY <2>1, <2>2, <1>e DEF Expected, IdentityMatches
<1>1. ASSUME \A n \in 1..k :
               m.rows[n].name \in Repos /\ m.rows[n].canonical /\ IdentityMatches(m.rows[n]),
             Cardinality(Range(g)) = k, Range(g) = active
      PROVE  /\ k = Cardinality(active)
             /\ \A r \in active : \E n \in 1..k : m.rows[n] = Expected(r)
  <2>1. ASSUME NEW r \in active PROVE \E n \in 1..k : m.rows[n] = Expected(r)
    <3>1. PICK n \in 1..k : m.rows[n].name = r
      BY <1>1, <2>1 DEF Range
    <3> QED
      BY <3>1, <1>1, <1>d, <1>e, <2>1
  <2> QED
    BY <1>1, <2>1
<1>2. ASSUME k = Cardinality(active),
             \A r \in active : \E n \in 1..k : m.rows[n] = Expected(r)
      PROVE  /\ \A n \in 1..k :
                  m.rows[n].name \in Repos /\ m.rows[n].canonical /\ IdentityMatches(m.rows[n])
             /\ Cardinality(Range(g)) = k /\ Range(g) = active
  <2>1. ASSUME NEW r \in active PROVE r \in Range(g)
    <3>1. PICK n \in 1..k : m.rows[n] = Expected(r)
      BY <1>2, <2>1
    <3>2. g[n] = r
      BY <3>1 DEF Expected
    <3> QED
      BY <3>2 DEF Range
  <2> HIDE DEF g
  <2>2. Range(g) = active /\ Cardinality(Range(g)) = k
    BY <1>d, <1>f, <1>g, <1>2, <2>1, Lists
  <2>3. \A a, b \in 1..k : g[a] = g[b] => a = b
    BY <1>d, <1>f, <1>g, <2>2, Lists
  <2>4. ASSUME NEW n \in 1..k PROVE m.rows[n] = Expected(g[n]) /\ g[n] \in active
    <3>1. g[n] \in active
      BY <2>2, <1>g DEF Range
    <3>2. PICK a \in 1..k : m.rows[a] = Expected(g[n])
      BY <3>1, <1>2
    <3>3. g[a] = g[n]
      BY <3>2 DEF g, Expected
    <3> QED
      BY <3>1, <3>2, <3>3, <2>3
  <2>5. ASSUME NEW n \in 1..k
        PROVE m.rows[n].name \in Repos /\ m.rows[n].canonical /\ IdentityMatches(m.rows[n])
    <3>1. m.rows[n].name = g[n]
      BY DEF g
    <3> QED
      BY <3>1, <2>4, <1>d, <1>e
  <2> QED
    BY <2>2, <2>5
<1> QED
  BY <1>1, <1>2, <1>d, <1>g
LEMMA RequiredPinned ==
  ASSUME NEW m \in Manifest, NEW active, active \subseteq Repos
  PROVE  Distinct(m.required) /\ Range(m.required) = active \cup {Control}
         <=> (/\ Len(m.required) = Cardinality(active) + 1
              /\ \A r \in active \cup {Control} :
                   \E n \in DOMAIN m.required : m.required[n] = r)
<1> DEFINE k == Len(m.required)
           T == active \cup {Control}
<1>t. m.required \in Seq(Name)
  BY DEF Manifest
<1>d. k \in Nat /\ DOMAIN m.required = 1..k /\ m.required \in [1..k -> Name]
  BY <1>t
<1>f. IsFiniteSet(active) /\ IsFiniteSet(T) /\ Cardinality(T) = Cardinality(active) + 1
  <2>1. IsFiniteSet(active) /\ Control \notin active
    BY ReposAssumption, FS_Subset
  <2> QED
    BY <2>1, FS_AddElement
<1>1. T \subseteq Range(m.required) /\ k = Cardinality(T)
        <=> Range(m.required) = T /\ Cardinality(Range(m.required)) = k
  BY <1>d, <1>f, Lists
<1>2. T \subseteq Range(m.required)
        <=> \A r \in T : \E n \in DOMAIN m.required : m.required[n] = r
  BY DEF Range
<1> QED
  BY <1>1, <1>2, <1>f DEF Distinct

LEMMA Pinned ==
  ASSUME NEW m \in Manifest
  PROVE  Valid(m) <=>
           \E gone \in {<<>>, <<Web>>} :
             LET active == Repos \ Range(gone)
             IN  /\ m.canonical /\ m.retired = gone
                 /\ Len(m.rows) = Cardinality(active)
                 /\ \A r \in active : \E n \in DOMAIN m.rows : m.rows[n] = Expected(r)
                 /\ Len(m.required) = Cardinality(active) + 1
                 /\ \A r \in active \cup {Control} :
                      \E n \in DOMAIN m.required : m.required[n] = r
<1> DEFINE active == Repos \ Range(m.retired)
<1>t. m.retired \in Seq(Name)
  BY DEF Manifest
<1>1. Distinct(m.retired) /\ Range(m.retired) \in {{}, {Web}}
        <=> m.retired \in {<<>>, <<Web>>}
  BY <1>t, RetiredIs
<1>2. Valid(m) <=>
        /\ m.canonical /\ m.retired \in {<<>>, <<Web>>}
        /\ \A n \in DOMAIN m.rows :
             m.rows[n].name \in Repos /\ m.rows[n].canonical /\ IdentityMatches(m.rows[n])
        /\ Cardinality(RowNames(m)) = Len(m.rows)
        /\ RowNames(m) = active
        /\ Distinct(m.required) /\ Range(m.required) = active \cup {Control}
  <2>1. Control \notin active
    BY ReposAssumption
  <2>2. Range(m.retired) \cap active = {}
    OBVIOUS
  <2> QED
    BY <1>1, <2>1, <2>2 DEF Valid
<1>3. (/\ \A n \in DOMAIN m.rows :
            m.rows[n].name \in Repos /\ m.rows[n].canonical /\ IdentityMatches(m.rows[n])
       /\ Cardinality(RowNames(m)) = Len(m.rows)
       /\ RowNames(m) = active)
      <=> (/\ Len(m.rows) = Cardinality(active)
           /\ \A r \in active : \E n \in DOMAIN m.rows : m.rows[n] = Expected(r))
  BY RowsPinned
<1>4. Distinct(m.required) /\ Range(m.required) = active \cup {Control}
      <=> (/\ Len(m.required) = Cardinality(active) + 1
           /\ \A r \in active \cup {Control} :
                \E n \in DOMAIN m.required : m.required[n] = r)
  BY RequiredPinned
<1> QED
  BY <1>2, <1>3, <1>4

\* Whatever edits and merges bring about, in the checkout and at every
\* commit, which manifests are valid is fixed by the code but for the order
\* of rows and names, the retirement of jeryu-web and the compliance state.
THEOREM ManifestPinnedHolds == Spec => []ManifestPinned
<1>1. TypeOK => ManifestPinned
  <2> SUFFICES ASSUME TypeOK,
                      NEW m \in {work.manifest} \cup {Tree[c].manifest : c \in Commits}
               PROVE  Valid(m) <=>
      \E gone \in {<<>>, <<Web>>} :
        LET active == Repos \ Range(gone)
        IN  /\ m.canonical /\ m.retired = gone
            /\ Len(m.rows) = Cardinality(active)
            /\ \A r \in active : \E n \in DOMAIN m.rows : m.rows[n] = Expected(r)
            /\ Len(m.required) = Cardinality(active) + 1
            /\ \A r \in active \cup {Control} : \E n \in DOMAIN m.required : m.required[n] = r
    BY Zenon DEF ManifestPinned, Expected
  <2>1. m \in Manifest
    BY EvidenceAssumption DEF TypeOK, Files
  <2> QED
    BY <2>1, Pinned
<1> QED
  BY <1>1, EvidenceTypeCorrect, PTL
=============================================================================

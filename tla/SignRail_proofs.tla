--------------------------- MODULE SignRail_proofs ---------------------------
(***************************************************************************)
(* Theorems about SignRail, for any number of runs, checks, releases,      *)
(* checkouts, stages and keys, and whatever the callers ask for.           *)
(***************************************************************************)
EXTENDS SignRail, TLAPS

\* The run counts its files from one once it has passed the gates, and has
\* none before.
StepOK ==
  \A r \in Runs :
    /\ pc[r] \in {"idle", "hashed"} => step[r] = 0
    /\ pc[r] \in Writing \cup {"done"} => step[r] >= 1

TInv == TypeOK /\ StepOK

-----------------------------------------------------------------------------
LEMMA RequestType ==
  ASSUME TypeOK, NEW r \in Runs
  PROVE  /\ req[r].id \in Ids
         /\ req[r].dir \in Dirs
         /\ req[r].stages \in Seq(Stages)
         /\ req[r].key \in Keys
         /\ req[r].seed \in BOOLEAN
         /\ Len(req[r].stages) \in Nat
         /\ Len(req[r].stages) >= 1
         /\ LastStep(req[r]) \in Nat
<1>1. req[r] \in Request
  BY RequestsAssumption DEF TypeOK
<1>2. req[r].stages \in Seq(Stages) /\ req[r].stages # <<>>
  BY <1>1 DEF Request
<1>3. Len(req[r].stages) \in Nat /\ Len(req[r].stages) >= 1
  BY <1>2
<1> QED
  BY <1>1, <1>2, <1>3 DEF Request, LastStep

LEMMA TypeInit == Init => TInv
<1> SUFFICES ASSUME Init PROVE TInv
  OBVIOUS
<1>1. \A r \in Runs : LastStep(req[r]) \in Nat
  <2> TAKE r \in Runs
  <2>1. req[r] \in Request
    BY RequestsAssumption DEF Init
  <2>2. Len(req[r].stages) \in Nat
    BY <2>1 DEF Request
  <2> QED
    BY <2>2 DEF LastStep
<1>2. TypeOK
  BY <1>1 DEF Init, TypeOK, Broken, Ended, Writing
<1>3. StepOK
  BY DEF Init, StepOK, Writing
<1> QED
  BY <1>2, <1>3 DEF TInv

LEMMA TypeStep == TInv /\ [Next]_vars => TInv'
<1> SUFFICES ASSUME TInv, [Next]_vars PROVE TInv'
  OBVIOUS
<1> USE DEF TInv
<1>t. \A r \in Runs : /\ req[r].dir \in Dirs
                      /\ LastStep(req[r]) \in Nat
  BY RequestType
<1>1. ASSUME NEW d \in Dirs, Rebuild(d) PROVE TInv'
  BY <1>1 DEF Rebuild, TypeOK, StepOK, runVars, checkVars
<1>2. ASSUME NEW r \in Runs, SeedMissing(r) PROVE TInv'
  BY <1>2 DEF SeedMissing, MayBegin, TypeOK, StepOK, checkVars, Ended, Writing
<1>3. ASSUME NEW r \in Runs, Hash(r) PROVE TInv'
  BY <1>3, <1>t DEF Hash, MayBegin, TypeOK, StepOK, checkVars, Writing
<1>4. ASSUME NEW r \in Runs, Block(r) PROVE TInv'
  BY <1>4 DEF Block, TypeOK, StepOK, checkVars, Ended, Writing
<1>5. ASSUME NEW r \in Runs, Approve(r) PROVE TInv'
  <2>1. clean' \in [Checks -> BOOLEAN]
    BY <1>5, Zenon DEF Approve
  <2>2. latest' \in [Ids -> Runs \cup {NoRun}]
    BY <1>5 DEF Approve, TypeOK
  <2>3. step' \in [Runs -> Nat] /\ pc' \in [Runs -> {"idle", "hashed"} \cup Writing \cup Ended]
    BY <1>5 DEF Approve, TypeOK, Writing
  <2>4. UNCHANGED <<work, blob, fs, req, digest, inv, cpc, loaded>>
    BY <1>5 DEF Approve
  <2>5. ASSUME NEW k \in Runs
        PROVE /\ step'[k] <= LastStep(req[k]) + 1
              /\ pc'[k] = "writing" => step'[k] \in 1..LastStep(req[k])
              /\ pc'[k] \in {"hashed", "done"} \cup Writing => digest[k] \in Bytes
              /\ pc'[k] \in {"idle", "hashed"} => step'[k] = 0
              /\ pc'[k] \in Writing \cup {"done"} => step'[k] >= 1
    BY <1>5, <1>t DEF Approve, TypeOK, StepOK, Writing
  <2> QED
    BY <2>1, <2>2, <2>3, <2>4, <2>5 DEF TypeOK, StepOK
<1>6. ASSUME NEW r \in Runs, CopyBegin(r) PROVE TInv'
  BY <1>6 DEF CopyBegin, TypeOK, StepOK, checkVars, Writing, Broken
<1>7. ASSUME NEW r \in Runs, CopyEnd(r) PROVE TInv'
  BY <1>7, <1>t DEF CopyEnd, TypeOK, StepOK, checkVars, Writing, Broken, OverlayCopy
<1>8. ASSUME NEW r \in Runs, WriteBegin(r) PROVE TInv'
  <2>1. fs' \in [Slots -> Runs \cup Broken]
    BY <1>8 DEF WriteBegin, TypeOK, Broken
  <2>2. pc' \in [Runs -> {"idle", "hashed"} \cup Writing \cup Ended]
    BY <1>8 DEF WriteBegin, TypeOK, Writing
  <2>3. UNCHANGED <<work, blob, req, digest, step, latest, inv, cpc, loaded, clean>>
    BY <1>8 DEF WriteBegin, checkVars
  <2>4. ASSUME NEW k \in Runs
        PROVE /\ pc'[k] = "writing" => step[k] \in 1..LastStep(req[k])
              /\ pc'[k] \in {"hashed", "done"} \cup Writing => digest[k] \in Bytes
              /\ pc'[k] \in {"idle", "hashed"} => step[k] = 0
              /\ pc'[k] \in Writing \cup {"done"} => step[k] >= 1
    BY <1>8, <1>t DEF WriteBegin, TypeOK, StepOK, Writing
  <2> QED
    BY <2>1, <2>2, <2>3, <2>4 DEF TypeOK, StepOK
<1>9. ASSUME NEW r \in Runs, WriteEnd(r) PROVE TInv'
  <2>1. fs' \in [Slots -> Runs \cup Broken]
    BY <1>9 DEF WriteEnd, OverlayJson, TypeOK, Broken
  <2>2. /\ pc' \in [Runs -> {"idle", "hashed"} \cup Writing \cup Ended]
        /\ step' \in [Runs -> Nat]
    BY <1>9 DEF WriteEnd, TypeOK, Writing
  <2>3. UNCHANGED <<work, blob, req, digest, latest, inv, cpc, loaded, clean>>
    BY <1>9 DEF WriteEnd, checkVars
  <2>4. ASSUME NEW k \in Runs
        PROVE /\ step'[k] <= LastStep(req[k]) + 1
              /\ pc'[k] = "writing" => step'[k] \in 1..LastStep(req[k])
              /\ pc'[k] \in {"hashed", "done"} \cup Writing => digest[k] \in Bytes
              /\ pc'[k] \in {"idle", "hashed"} => step'[k] = 0
              /\ pc'[k] \in Writing \cup {"done"} => step'[k] >= 1
    BY <1>9, <1>t DEF WriteEnd, TypeOK, StepOK, Writing
  <2> QED
    BY <2>1, <2>2, <2>3, <2>4 DEF TypeOK, StepOK
<1>10. ASSUME NEW r \in Runs, Finish(r) PROVE TInv'
  BY <1>10 DEF Finish, TypeOK, StepOK, checkVars, Writing, Ended
<1>11. ASSUME NEW r \in Runs, Stop(r) PROVE TInv'
  BY <1>11 DEF Stop, Live, TypeOK, StepOK, checkVars, Writing, Ended
<1>12. ASSUME NEW c \in Checks, ReadRelease(c) PROVE TInv'
  BY <1>12 DEF ReadRelease, Verdict, Settled, TypeOK, StepOK, runVars
<1>13. ASSUME NEW c \in Checks, CheckRelease(c) PROVE TInv'
  BY <1>13 DEF CheckRelease, Verdict, TypeOK, StepOK, runVars
<1>14. ASSUME NEW c \in Checks, ReadReceipt(c) PROVE TInv'
  BY <1>14 DEF ReadReceipt, Verdict, TypeOK, StepOK, runVars
<1>15. ASSUME UNCHANGED vars PROVE TInv'
  BY <1>15 DEF vars, runVars, checkVars, TypeOK, StepOK
<1> QED
  BY <1>1, <1>2, <1>3, <1>4, <1>5, <1>6, <1>7, <1>8, <1>9, <1>10, <1>11,
     <1>12, <1>13, <1>14, <1>15 DEF Next, RunStep, CheckStep

\* Type correctness of every reachable state: in particular a run never
\* writes past its last file and never acts on a digest it has not computed.
THEOREM TypeCorrect == Spec => []TypeOK
<1>1. TInv => TypeOK
  BY DEF TInv
<1> QED
  BY <1>1, TypeInit, TypeStep, PTL DEF Spec
-----------------------------------------------------------------------------
(* A run that has a file to its name has passed the gates: from hashing on *)
(* it has its seed, from its first step on it has passed the policy too.   *)

Gated ==
  \A r \in Runs :
    /\ pc[r] = "hashed" => req[r].seed
    /\ step[r] >= 1 => req[r].seed /\ PolicyOk(req[r])

Own == \A f \in Slots : fs[f] \in Runs => Wrote(fs[f], f)

AInv == TInv /\ Gated /\ Own

LEMMA ArgumentsStay == [Next]_vars => req' = req /\ inv' = inv
BY DEF Next, vars, RunStep, CheckStep, Rebuild, SeedMissing, Hash, Block,
       Approve, CopyBegin, CopyEnd, WriteBegin, WriteEnd, Finish, Stop,
       ReadRelease, CheckRelease, ReadReceipt, checkVars

LEMMA StepsStay ==
  ASSUME TInv, [Next]_vars, NEW r \in Runs PROVE step'[r] >= step[r]
<1>1. CASE UNCHANGED step
  BY <1>1 DEF TInv, TypeOK
<1>2. ASSUME NEW k \in Runs, Approve(k) PROVE step'[r] >= step[r]
  BY <1>2 DEF Approve, TInv, TypeOK, StepOK
<1>3. ASSUME NEW k \in Runs, WriteEnd(k) PROVE step'[r] >= step[r]
  BY <1>3 DEF WriteEnd, TInv, TypeOK
<1> QED
  BY <1>1, <1>2, <1>3
     DEF Next, vars, runVars, RunStep, CheckStep, Rebuild, SeedMissing, Hash,
         Block, CopyBegin, CopyEnd, WriteBegin, Finish, Stop, ReadRelease,
         CheckRelease, ReadReceipt

\* What a run has written stays written.
LEMMA WroteStays ==
  ASSUME TInv, [Next]_vars, NEW r \in Runs, NEW f, Wrote(r, f)
  PROVE  Wrote(r, f)'
<1>1. req' = req
  BY ArgumentsStay
<1>2. step'[r] >= step[r] /\ step'[r] \in Nat
  BY StepsStay, TypeStep DEF TInv, TypeOK
<1>3. PICK n \in 1..(step[r] - 1) : SlotAt(req[r], n) = f
  BY DEF Wrote
<1>4. n \in 1..(step'[r] - 1)
  BY <1>2 DEF TInv, TypeOK
<1> QED
  BY <1>1, <1>3, <1>4 DEF Wrote

LEMMA ApprovedInit == Init => AInv
<1> SUFFICES ASSUME Init PROVE AInv
  OBVIOUS
<1>1. TInv
  BY TypeInit
<1>2. Gated
  <2>1. \A r \in Runs : pc[r] = "idle" /\ step[r] = 0
    BY DEF Init
  <2>2. ASSUME NEW r \in Runs PROVE pc[r] # "hashed" /\ ~ (step[r] >= 1)
    BY <2>1
  <2> QED
    BY <2>2 DEF Gated
<1>3. Own
  BY DistinctAssumption DEF Init, Own, Broken
<1> QED
  BY <1>1, <1>2, <1>3 DEF AInv

LEMMA ApprovedStep == AInv /\ [Next]_vars => AInv'
<1> SUFFICES ASSUME AInv, [Next]_vars PROVE AInv'
  OBVIOUS
<1> USE DEF AInv
<1>t. TInv'
  BY TypeStep
<1>w. \A r \in Runs, f \in Slots : Wrote(r, f) => Wrote(r, f)'
  BY WroteStays
<1>1. ASSUME NEW r \in Runs, SeedMissing(r) PROVE Gated' /\ Own'
  BY <1>1, <1>w DEF SeedMissing, MayBegin, Gated, Own, checkVars, TInv, TypeOK
<1>2. ASSUME NEW r \in Runs, Hash(r) PROVE Gated' /\ Own'
  BY <1>2, <1>w DEF Hash, MayBegin, Gated, Own, checkVars, TInv, TypeOK
<1>3. ASSUME NEW r \in Runs, Approve(r) PROVE Gated' /\ Own'
  BY <1>3, <1>w DEF Approve, Gated, Own, TInv, TypeOK
<1>4. ASSUME NEW r \in Runs, CopyBegin(r) \/ CopyEnd(r) PROVE Gated' /\ Own'
  BY <1>4, <1>w DEF CopyBegin, CopyEnd, Gated, Own, checkVars, TInv, TypeOK
<1>5. ASSUME NEW r \in Runs, WriteBegin(r) PROVE Gated' /\ Own'
  BY <1>5, <1>w, DistinctAssumption
     DEF WriteBegin, Gated, Own, checkVars, TInv, TypeOK, Broken
<1>6. ASSUME NEW r \in Runs, WriteEnd(r) PROVE Gated' /\ Own'
  <2>1. Gated'
    BY <1>6 DEF WriteEnd, Gated, checkVars, TInv, TypeOK
  <2>2. ASSUME NEW f \in Slots, f = SlotAt(req[r], step[r]) PROVE Wrote(r, f)'
    <3>1. step[r] \in 1..(step'[r] - 1) /\ req' = req
      BY <1>6 DEF WriteEnd, TInv, TypeOK, StepOK, Writing
    <3> QED
      BY <3>1, <2>2 DEF Wrote
  <2>3. ASSUME NEW f \in Slots, NEW k \in Runs, fs'[f] = k PROVE Wrote(k, f)'
    <3>1. CASE f = SlotAt(req[r], step[r])
      <4>1. fs'[f] \in {r, "mixed"}
        BY <1>6, <3>1 DEF WriteEnd, OverlayJson, TInv, TypeOK
      <4>2. k = r
        BY <4>1, <2>3, DistinctAssumption DEF Broken
      <4> QED
        BY <4>2, <2>2, <3>1
    <3>2. CASE f # SlotAt(req[r], step[r])
      <4>1. fs[f] = k
        BY <1>6, <2>3, <3>2 DEF WriteEnd, TInv, TypeOK
      <4> QED
        BY <4>1, <1>w DEF Own
    <3> QED
      BY <3>1, <3>2
  <2> QED
    BY <2>1, <2>3 DEF Own
<1>7. ASSUME NEW r \in Runs, Block(r) \/ Finish(r) \/ Stop(r) PROVE Gated' /\ Own'
  BY <1>7, <1>w DEF Block, Finish, Stop, Gated, Own, checkVars, TInv, TypeOK
<1>8. ASSUME \/ \E d \in Dirs : Rebuild(d)
             \/ \E c \in Checks : CheckStep(c)
             \/ UNCHANGED vars
      PROVE Gated' /\ Own'
  BY <1>8, <1>w DEF Rebuild, CheckStep, ReadRelease, CheckRelease, ReadReceipt,
                    vars, runVars, checkVars, Gated, Own
<1> QED
  BY <1>t, <1>1, <1>2, <1>3, <1>4, <1>5, <1>6, <1>7, <1>8 DEF Next, RunStep

LEMMA AInvImplies == AInv => ApprovedOnly
<1> SUFFICES ASSUME AInv, NEW f \in Slots, fs[f] \in Runs
             PROVE req[fs[f]].seed /\ PolicyOk(req[fs[f]]) /\ Wrote(fs[f], f)
  BY DEF ApprovedOnly
<1>1. Wrote(fs[f], f)
  BY DEF AInv, Own
<1>2. step[fs[f]] >= 1
  BY <1>1 DEF Wrote, AInv, TInv, TypeOK
<1> QED
  BY <1>1, <1>2 DEF AInv, Gated

\* Whatever the store and the output directories hold was put there by a run
\* that had its seed and passed every gate, for any number of concurrent,
\* killed and repeated runs.
THEOREM ApprovedOnlyHolds == Spec => []ApprovedOnly
<1> QED
  BY ApprovedInit, ApprovedStep, AInvImplies, PTL DEF Spec

-----------------------------------------------------------------------------
(* What the slots are.                                                     *)

LEMMA SlotTypes ==
  /\ \A n \in 1..4, i \in Ids : StoreSlot(n, i) \in Slots
  /\ \A i \in Ids, s \in Stages : ReceiptSlot(i, s) \in Slots
  /\ \A d \in Dirs : OutRelease(d) \in Slots
BY DEF Slots

LEMMA StoreSlotAt ==
  ASSUME NEW q, NEW n \in 1..4 PROVE SlotAt(q, n) = StoreSlot(n, q.id)
BY DEF SlotAt

LEMMA ReceiptSlotAt ==
  ASSUME NEW q, NEW n \in Nat, n >= 1, NEW i, NEW s,
         SlotAt(q, n) = ReceiptSlot(i, s)
  PROVE  n > 6 /\ q.id = i
<1>1. CASE n \in 1..4
  <2>1. StoreDirs[n] # "receipts"
    BY <1>1 DEF StoreDirs
  <2>2. SlotAt(q, n) = <<StoreDirs[n], q.id, "-">>
    BY <1>1, StoreSlotAt DEF StoreSlot
  <2> QED
    BY <2>1, <2>2 DEF ReceiptSlot
<1>2. CASE n = 5
  BY <1>2 DEF SlotAt, OutRelease, ReceiptSlot
<1>3. CASE n > 5 /\ n % 2 = 0 /\ n # 6
  BY <1>3 DEF SlotAt, ReceiptSlot
<1>4. CASE n > 5 /\ ~ (n % 2 = 0 /\ n # 6)
  BY <1>4 DEF SlotAt, OutCopies, ReceiptSlot
<1> QED
  BY <1>1, <1>2, <1>3, <1>4

-----------------------------------------------------------------------------
(* Receipts come last: a run that is past its n-th file has left it there, *)
(* and only a run past all four store files touches a receipt.             *)

Present(f) == fs[f] # "absent"

Kept == \A r \in Runs, n \in 1..4 : step[r] > n => Present(StoreSlot(n, req[r].id))

Backed ==
  \A i \in Ids, s \in Stages : Present(ReceiptSlot(i, s)) =>
    \E r \in Runs : req[r].id = i /\ step[r] > 4

RInv == TInv /\ Kept /\ Backed

\* No file ever disappears.
LEMMA PresentStays ==
  ASSUME TInv, [Next]_vars, NEW f \in Slots, Present(f) PROVE Present(f)'
<1>1. CASE UNCHANGED fs
  BY <1>1 DEF Present
<1>2. ASSUME NEW r \in Runs, WriteBegin(r) PROVE Present(f)'
  BY <1>2 DEF WriteBegin, Present, TInv, TypeOK
<1>3. ASSUME NEW r \in Runs, WriteEnd(r) PROVE Present(f)'
  BY <1>3, DistinctAssumption DEF WriteEnd, OverlayJson, Present, TInv, TypeOK, Broken
<1> QED
  BY <1>1, <1>2, <1>3
     DEF Next, vars, RunStep, CheckStep, Rebuild, SeedMissing, Hash, Block,
         Approve, CopyBegin, CopyEnd, Finish, Stop, ReadRelease, CheckRelease,
         ReadReceipt

LEMMA ReceiptInit == Init => RInv
<1> SUFFICES ASSUME Init PROVE RInv
  OBVIOUS
<1>1. Kept
  <2>1. \A r \in Runs, n \in 1..4 : ~ (step[r] > n)
    BY DEF Init
  <2> QED
    BY <2>1 DEF Kept
<1>2. Backed
  BY SlotTypes DEF Init, Backed, Present
<1> QED
  BY <1>1, <1>2, TypeInit DEF RInv

LEMMA ReceiptStep == RInv /\ [Next]_vars => RInv'
<1> SUFFICES ASSUME RInv, [Next]_vars PROVE RInv'
  OBVIOUS
<1> USE DEF RInv
<1>t. TInv' /\ req' = req /\ inv' = inv
  BY TypeStep, ArgumentsStay
<1>r. \A r \in Runs : req[r].id \in Ids /\ req[r] = req'[r]
  BY <1>t, RequestType DEF TInv
<1>p. \A f \in Slots : Present(f) => Present(f)'
  BY PresentStays
<1>s. \A r \in Runs : step[r] \in Nat /\ step'[r] \in Nat /\ step'[r] >= step[r]
  BY <1>t, StepsStay DEF TInv, TypeOK
<1>1. ASSUME NEW r \in Runs, NEW n \in 1..4, step'[r] > n
      PROVE Present(StoreSlot(n, req[r].id))'
  <2>0. StoreSlot(n, req[r].id) \in Slots
    BY <1>r, SlotTypes
  <2>1. CASE step[r] > n
    BY <2>1, <2>0, <1>p, <1>t DEF Kept
  <2>2. CASE ~ (step[r] > n)
    <3>1. WriteEnd(r)
      <4>1. ASSUME NEW k \in Runs, Approve(k) PROVE FALSE
        BY <4>1, <1>1, <2>2, <1>s DEF Approve, TInv, TypeOK
      <4>2. ASSUME NEW k \in Runs, WriteEnd(k) PROVE k = r
        BY <4>2, <1>1, <2>2, <1>s DEF WriteEnd, TInv, TypeOK
      <4>3. step' # step
        BY <1>1, <2>2
      <4> QED
        BY <4>1, <4>2, <4>3
           DEF Next, vars, runVars, RunStep, CheckStep, Rebuild, SeedMissing,
               Hash, Block, CopyBegin, CopyEnd, WriteBegin, Finish, Stop,
               ReadRelease, CheckRelease, ReadReceipt
    <3>2. step[r] = n
      BY <3>1, <1>1, <2>2, <1>s DEF WriteEnd, TInv, TypeOK
    <3>3. SlotAt(req[r], step[r]) = StoreSlot(n, req[r].id)
      BY <3>2, StoreSlotAt
    <3>4. fs'[StoreSlot(n, req[r].id)] \in {r, "mixed"}
      BY <3>1, <3>3, <2>0 DEF WriteEnd, OverlayJson, TInv, TypeOK
    <3>5. fs'[StoreSlot(n, req[r].id)] # "absent"
      BY <3>4, DistinctAssumption DEF Broken
    <3> QED
      BY <3>5, <1>t DEF Present
  <2> QED
    BY <2>1, <2>2
<1>2. ASSUME NEW i \in Ids, NEW s \in Stages, Present(ReceiptSlot(i, s))'
      PROVE \E r \in Runs : req[r].id = i /\ step'[r] > 4
  <2>0. ReceiptSlot(i, s) \in Slots
    BY SlotTypes
  <2>1. CASE Present(ReceiptSlot(i, s))
    <3>1. PICK r \in Runs : req[r].id = i /\ step[r] > 4
      BY <2>1 DEF Backed
    <3>2. step'[r] > 4
      BY <3>1, <1>s
    <3> QED
      BY <3>1, <3>2
  <2>2. CASE ~ Present(ReceiptSlot(i, s))
    <3>1. fs'[ReceiptSlot(i, s)] # fs[ReceiptSlot(i, s)]
      BY <1>2, <2>2 DEF Present
    <3>2. PICK r \in Runs : WriteBegin(r) \/ WriteEnd(r)
      BY <3>1
         DEF Next, vars, RunStep, CheckStep, Rebuild, SeedMissing, Hash, Block,
             Approve, CopyBegin, CopyEnd, Finish, Stop, ReadRelease,
             CheckRelease, ReadReceipt
    <3>3. SlotAt(req[r], step[r]) = ReceiptSlot(i, s)
      BY <3>1, <3>2, <2>0 DEF WriteBegin, WriteEnd, TInv, TypeOK
    <3>4. step[r] >= 1
      BY <3>2 DEF WriteBegin, WriteEnd, TInv, StepOK, Writing
    <3>5. req[r].id = i /\ step[r] > 6
      BY <3>3, <3>4, <1>s, ReceiptSlotAt
    <3> QED
      BY <3>5, <1>s
  <2> QED
    BY <2>1, <2>2
<1>3. Kept'
  BY <1>1, <1>t DEF Kept
<1>4. Backed'
  BY <1>2, <1>t DEF Backed
<1> QED
  BY <1>t, <1>3, <1>4

\* A receipt in the store never outruns the record it vouches for, wherever
\* the runs of its release were killed.
THEOREM ReceiptLastHolds == Spec => []ReceiptLast
<1>1. RInv => ReceiptLast
  <2> SUFFICES ASSUME RInv, NEW i \in Ids, NEW s \in Stages,
                      fs[ReceiptSlot(i, s)] # "absent", NEW n \in 1..4
               PROVE  fs[StoreSlot(n, i)] # "absent"
    BY DEF ReceiptLast
  <2>1. PICK r \in Runs : req[r].id = i /\ step[r] > 4
    BY DEF RInv, Backed, Present
  <2>2. step[r] > n
    BY <2>1 DEF RInv, TInv, TypeOK
  <2> QED
    BY <2>1, <2>2 DEF RInv, Kept, Present
<1> QED
  BY <1>1, ReceiptInit, ReceiptStep, PTL DEF Spec

-----------------------------------------------------------------------------
(* What a check has established so far is still true when it answers: its  *)
(* verdict rests on files that may have been rewritten since it read them. *)

Vetted(c) ==
  /\ cpc[c] \in {"loaded", "stored", "accepted"} =>
       /\ loaded[c] \in Runs
       /\ req[loaded[c]].seed /\ PolicyOk(req[loaded[c]])
  /\ cpc[c] \in {"stored", "accepted"} => req[loaded[c]].key = inv[c].key
  /\ cpc[c] = "accepted" =>
       \E k \in Runs :
         /\ PolicyOk(req[k]) /\ req[k].id = req[loaded[c]].id
         /\ Wrote(k, ReceiptSlot(req[loaded[c]].id, inv[c].stage))

VInv == AInv /\ \A c \in Checks : Vetted(c)

LEMMA VettedInit == Init => VInv
<1> SUFFICES ASSUME Init PROVE VInv
  OBVIOUS
<1>1. ASSUME NEW c \in Checks PROVE Vetted(c)
  <2>1. cpc[c] = "idle"
    BY DEF Init
  <2> QED
    BY <2>1 DEF Vetted
<1> QED
  BY <1>1, ApprovedInit DEF VInv

LEMMA VettedStep == VInv /\ [Next]_vars => VInv'
<1> SUFFICES ASSUME VInv, [Next]_vars PROVE VInv'
  OBVIOUS
<1> USE DEF VInv
<1>a. AInv' /\ TInv /\ ApprovedOnly
  BY ApprovedStep, AInvImplies DEF AInv
<1>u. req' = req /\ inv' = inv
  BY ArgumentsStay
<1>v. \A c \in Checks : inv[c].dir \in Dirs /\ inv[c].stage \in Stages
  BY <1>a, InvocationsAssumption DEF TInv, TypeOK, Invocation
<1>r. \A r \in Runs : req[r].id \in Ids
  BY <1>a, RequestType DEF TInv
<1>1. ASSUME NEW c \in Checks, cpc'[c] = cpc[c], loaded'[c] = loaded[c]
      PROVE Vetted(c)'
  <2>1. CASE cpc[c] # "accepted"
    BY <1>1, <1>u, <2>1 DEF Vetted
  <2>2. CASE cpc[c] = "accepted"
    <3> DEFINE i == req[loaded[c]].id
    <3>1. PICK k \in Runs : /\ PolicyOk(req[k]) /\ req[k].id = i
                            /\ Wrote(k, ReceiptSlot(i, inv[c].stage))
      BY <2>2 DEF Vetted
    <3>2. ASSUME NEW f, f = ReceiptSlot(i, inv[c].stage) PROVE Wrote(k, f)'
      BY <3>1, <3>2, <1>a, WroteStays
    <3>3. \E f : f = ReceiptSlot(i, inv[c].stage)
      OBVIOUS
    <3>4. Wrote(k, ReceiptSlot(req[loaded[c]].id, inv[c].stage))'
      BY <3>2, <1>1, <1>u
    <3> QED
      BY <1>1, <1>u, <2>2, <3>1, <3>4 DEF Vetted
  <2> QED
    BY <2>1, <2>2
<1>2. ASSUME NEW c \in Checks, ReadRelease(c) PROVE Vetted(c)'
  <2>1. CASE fs[OutRelease(inv[c].dir)] \in Runs
    <3>1. cpc'[c] = "loaded" /\ loaded'[c] = fs[OutRelease(inv[c].dir)]
      BY <1>2, <1>a, <2>1 DEF ReadRelease, Verdict, TInv, TypeOK
    <3>2. OutRelease(inv[c].dir) \in Slots
      BY <1>v, SlotTypes
    <3> QED
      BY <3>1, <3>2, <2>1, <1>a, <1>u DEF ApprovedOnly, Vetted
  <2>2. CASE fs[OutRelease(inv[c].dir)] \notin Runs
    <3>1. cpc'[c] = "rejected"
      BY <1>2, <1>a, <2>2 DEF ReadRelease, Verdict, TInv, TypeOK
    <3> QED
      BY <3>1 DEF Vetted
  <2> QED
    BY <2>1, <2>2
<1>3. ASSUME NEW c \in Checks, CheckRelease(c) PROVE Vetted(c)'
  <2>1. /\ cpc'[c] \in {"stored", "rejected"} /\ loaded' = loaded
        /\ cpc[c] = "loaded"
        /\ cpc'[c] = "stored" => req[loaded[c]].key = inv[c].key
    BY <1>3, <1>a DEF CheckRelease, Verdict, TInv, TypeOK
  <2> QED
    BY <2>1, <1>u DEF Vetted
<1>4. ASSUME NEW c \in Checks, ReadReceipt(c) PROVE Vetted(c)'
  <2> DEFINE i == req[loaded[c]].id
             f == ReceiptSlot(i, inv[c].stage)
  <2>1. /\ cpc'[c] \in {"accepted", "rejected"} /\ loaded' = loaded
        /\ cpc[c] = "stored"
        /\ cpc'[c] = "accepted" => fs[f] \in Runs /\ req[fs[f]].id = i
    BY <1>4, <1>a DEF ReadReceipt, Verdict, TInv, TypeOK
  <2>2. CASE cpc'[c] = "accepted"
    <3>1. f \in Slots
      BY <2>1, <1>v, <1>r, SlotTypes DEF Vetted
    <3>2. PolicyOk(req[fs[f]]) /\ Wrote(fs[f], f)
      BY <2>1, <2>2, <3>1, <1>a DEF ApprovedOnly
    <3>3. PICK k \in Runs : k = fs[f]
      BY <2>1, <2>2
    <3>4. PolicyOk(req[k]) /\ req[k].id = i /\ Wrote(k, f)
      BY <2>1, <2>2, <3>2, <3>3
    <3>5. ASSUME NEW g, g = f PROVE Wrote(k, g)'
      BY <3>4, <3>5, <1>a, WroteStays
    <3>6. Wrote(k, ReceiptSlot(req[loaded[c]].id, inv[c].stage))'
      BY <3>5, <2>1, <1>u
    <3> QED
      BY <2>1, <2>2, <3>4, <3>6, <1>u DEF Vetted
  <2>3. CASE cpc'[c] # "accepted"
    BY <2>1, <2>3 DEF Vetted
  <2> QED
    BY <2>2, <2>3
<1>5. ASSUME NEW c \in Checks, CheckStep(c), NEW b \in Checks, b # c
      PROVE cpc'[b] = cpc[b] /\ loaded'[b] = loaded[b]
  BY <1>5, <1>a DEF CheckStep, ReadRelease, CheckRelease, ReadReceipt, Verdict,
                    TInv, TypeOK
<1>6. ASSUME NEW c \in Checks, CheckStep(c), NEW b \in Checks PROVE Vetted(b)'
  <2>1. CASE b = c
    BY <2>1, <1>2, <1>3, <1>4, <1>6 DEF CheckStep
  <2>2. CASE b # c
    BY <2>2, <1>1, <1>5, <1>6
  <2> QED
    BY <2>1, <2>2
<1>7. CASE cpc' = cpc /\ loaded' = loaded
  BY <1>7, <1>1, <1>a
<1> QED
  BY <1>a, <1>6, <1>7
     DEF Next, vars, checkVars, RunStep, Rebuild, SeedMissing, Hash, Block,
         Approve, CopyBegin, CopyEnd, WriteBegin, WriteEnd, Finish, Stop

\* A check that accepts was right, although none of the three files it read
\* is locked and any of them may be rewritten between the reads.
THEOREM AcceptedSoundHolds == Spec => []AcceptedSound
<1>1. VInv => AcceptedSound
  BY DEF VInv, Vetted, AcceptedSound
<1> QED
  BY <1>1, VettedInit, VettedStep, PTL DEF Spec
-----------------------------------------------------------------------------
(* Refinement: what the files and the control state of the runs amount to  *)
(* is a ledger of approvals and publications (ReleaseLedger).              *)

\* A release that was read back from an output directory was approved.
Begun == \A c \in Checks :
  cpc[c] \in {"loaded", "stored", "accepted"} =>
    loaded[c] \in Runs /\ step[loaded[c]] >= 1

LInv == VInv /\ Begun

LEMMA BegunStep == LInv /\ [Next]_vars => Begun'
<1> SUFFICES ASSUME LInv, [Next]_vars PROVE Begun'
  OBVIOUS
<1>t. TInv /\ Own /\ Begun
  BY DEF LInv, VInv, AInv
<1>s. \A r \in Runs : step[r] \in Nat /\ step'[r] \in Nat /\ step'[r] >= step[r]
  BY <1>t, TypeStep, StepsStay DEF TInv, TypeOK
<1>1. ASSUME NEW c \in Checks, CheckStep(c) PROVE Begun'
  <2>1. step' = step
    BY <1>1 DEF CheckStep, ReadRelease, CheckRelease, ReadReceipt, runVars
  <2>2. CASE ReadRelease(c)
    <3> DEFINE f == OutRelease(inv[c].dir)
    <3>1. inv[c].dir \in Dirs
      BY <1>t, InvocationsAssumption DEF TInv, TypeOK, Invocation
    <3>2. f \in Slots
      BY <3>1, SlotTypes
    <3>3. fs[f] \in Runs => step[fs[f]] >= 1
      BY <1>t, <3>2 DEF Own, Wrote, TInv, TypeOK
    <3>4. cpc'[c] \in {"loaded", "stored", "accepted"} => fs[f] \in Runs /\ loaded'[c] = fs[f]
      BY <2>2, <1>t DEF ReadRelease, Verdict, TInv, TypeOK
    <3>5. \A b \in Checks : b # c => cpc'[b] = cpc[b] /\ loaded'[b] = loaded[b]
      BY <2>2, <1>t DEF ReadRelease, Verdict, TInv, TypeOK
    <3> QED
      BY <1>t, <2>1, <3>3, <3>4, <3>5 DEF Begun
  <2>3. CASE CheckRelease(c) \/ ReadReceipt(c)
    <3>1. loaded' = loaded /\ cpc[c] \in {"loaded", "stored"}
      BY <2>3 DEF CheckRelease, ReadReceipt
    <3>2. \A b \in Checks : b # c => cpc'[b] = cpc[b]
      BY <2>3, <1>t DEF CheckRelease, ReadReceipt, Verdict, TInv, TypeOK
    <3> QED
      BY <1>t, <2>1, <3>1, <3>2 DEF Begun
  <2> QED
    BY <1>1, <2>2, <2>3 DEF CheckStep
<1>2. CASE cpc' = cpc /\ loaded' = loaded
  BY <1>2, <1>t, <1>s DEF Begun
<1> QED
  BY <1>1, <1>2
     DEF Next, vars, checkVars, RunStep, Rebuild, SeedMissing, Hash, Block,
         Approve, CopyBegin, CopyEnd, WriteBegin, WriteEnd, Finish, Stop

LEMMA LedgerInvInit == Init => LInv
<1> SUFFICES ASSUME Init PROVE LInv
  OBVIOUS
<1> QED
  BY VettedInit DEF Init, LInv, Begun

LEMMA LedgerInvStep == LInv /\ [Next]_vars => LInv'
BY VettedStep, BegunStep DEF LInv

LEMMA LedgerInit == Init => Ledger!Init
<1> SUFFICES ASSUME Init PROVE Ledger!Init
  OBVIOUS
<1>1. Approved = {}
  BY DEF Init, Approved
<1>2. Published = {}
  <2>1. \A r \in Runs : step[r] = 0
    BY DEF Init
  <2>2. ASSUME NEW r \in Runs, NEW n \in 1..(step[r] - 1) PROVE FALSE
    BY <2>1
  <2>3. \A r \in Runs : \A f : ~ Wrote(r, f)
    BY <2>2 DEF Wrote
  <2> QED
    BY <2>3 DEF Published
<1>3. /\ [c \in Checks |-> Answer(c)] = [c \in Checks |-> "pending"]
      /\ [c \in Checks |-> Claim(c)] = [c \in Checks |-> {}]
  BY DEF Init, Answer, Claim
<1> QED
  BY <1>1, <1>2, <1>3 DEF Ledger!Init

\* What a run adds to the ledger: its approval with its first step, a stage
\* with the second half of a write into the store's receipts, else nothing.
LEMMA ApproveMaps ==
  ASSUME LInv, NEW r \in Runs, Approve(r)
  PROVE  Approved' = Approved \cup {<<req[r].id, req[r].key>>} /\ Published' = Published
<1>t. /\ TInv /\ step \in [Runs -> Nat] /\ step[r] = 0
  BY DEF LInv, VInv, AInv, TInv, TypeOK, StepOK, Approve
<1>1. /\ req' = req /\ step'[r] = 1
      /\ \A k \in Runs : k # r => step'[k] = step[k]
  BY <1>t DEF Approve
<1>2. \A k \in Runs : \A f : Wrote(k, f)' <=> Wrote(k, f)
  <2>1. \A k \in Runs : 1..(step'[k] - 1) = 1..(step[k] - 1)
    BY <1>t, <1>1
  <2> QED
    BY <1>1, <2>1 DEF Wrote
<1> QED
  BY <1>t, <1>1, <1>2 DEF Approved, Published

LEMMA WriteEndMaps ==
  ASSUME LInv, NEW r \in Runs, WriteEnd(r)
  PROVE  /\ Approved' = Approved /\ <<req[r].id, req[r].key>> \in Approved
         /\ \/ Published' = Published
            \/ \E s \in Stages : Published' = Published \cup {<<req[r].id, s>>}
<1>t. /\ TInv /\ step \in [Runs -> Nat] /\ step[r] >= 1 /\ step[r] <= LastStep(req[r])
      /\ req[r].id \in Ids /\ req[r].stages \in Seq(Stages)
  BY RequestType DEF LInv, VInv, AInv, TInv, TypeOK, StepOK, WriteEnd, Writing
<1> DEFINE n == step[r]
           here == SlotAt(req[r], n)
<1>1. /\ req' = req /\ step'[r] = n + 1
      /\ \A k \in Runs : k # r => step'[k] = step[k]
  BY <1>t DEF WriteEnd
<1>2. ASSUME NEW k \in Runs, NEW f
      PROVE  Wrote(k, f)' <=> Wrote(k, f) \/ (k = r /\ f = here)
  <2>1. CASE k = r
    <3>1. 1..(step'[k] - 1) = (1..(step[k] - 1)) \cup {n}
      BY <1>t, <1>1, <2>1
    <3> QED
      BY <1>1, <2>1, <3>1 DEF Wrote
  <2>2. CASE k # r
    BY <1>1, <2>2 DEF Wrote
  <2> QED
    BY <2>1, <2>2
<1>a. /\ Approved' = Approved
      /\ <<req[r].id, req[r].key>> \in Approved
  <2>1. {k \in Runs : step'[k] >= 1} = {k \in Runs : step[k] >= 1}
    BY <1>t, <1>1
  <2> QED
    BY <1>t, <1>1, <2>1 DEF Approved
<1>3. Published' = Published \cup {p \in Ids \X Stages : req[r].id = p[1] /\ here = ReceiptSlot(p[1], p[2])}
  BY <1>1, <1>2 DEF Published
<1>4. CASE n > 6 /\ n % 2 = 0
  <2> DEFINE s == req[r].stages[(n - 6) \div 2]
  <2>1. (n - 6) \div 2 \in 1..Len(req[r].stages)
    BY <1>t, <1>4 DEF LastStep
  <2>2. s \in Stages /\ here = ReceiptSlot(req[r].id, s)
    BY <1>t, <1>4, <2>1 DEF SlotAt
  <2>3. \A p \in Ids \X Stages :
          req[r].id = p[1] /\ here = ReceiptSlot(p[1], p[2]) <=> p = <<req[r].id, s>>
    BY <2>2 DEF ReceiptSlot
  <2>4. <<req[r].id, s>> \in Ids \X Stages
    BY <1>t, <2>2
  <2>5. Published' = Published \cup {<<req[r].id, s>>}
    BY <1>3, <2>3, <2>4
  <2> QED
    BY <1>a, <2>2, <2>5
<1>5. CASE ~ (n > 6 /\ n % 2 = 0)
  <2>1. \A i, s : here # ReceiptSlot(i, s)
    BY <1>t, <1>5 DEF SlotAt, StoreSlot, StoreDirs, OutRelease, OutCopies, ReceiptSlot
  <2> QED
    BY <1>a, <1>3, <2>1
<1> QED
  BY <1>4, <1>5

LEMMA AnswersOf ==
  ASSUME UNCHANGED <<req, inv>>, NEW c \in Checks, NEW b \in Checks,
         cpc'[b] = cpc[b], loaded'[b] = loaded[b]
  PROVE  Answer(b)' = Answer(b) /\ Claim(b)' = Claim(b)
BY DEF Answer, Claim

LEMMA CheckMaps ==
  ASSUME LInv, NEW c \in Checks, CheckStep(c)
  PROVE  [Ledger!Next]_(Ledger!vars)
<1> DEFINE i == req[loaded[c]].id
           s == inv[c].stage
           k == inv[c].key
<1>t. /\ TInv /\ Own /\ Vetted(c) /\ Begun
      /\ cpc \in [Checks -> {"idle", "loaded", "stored", "accepted", "rejected"}]
      /\ loaded \in [Checks -> Runs \cup {NoRun}]
      /\ s \in Stages /\ k \in Keys
  BY InvocationsAssumption DEF LInv, VInv, AInv, TInv, TypeOK, Invocation
<1>1. UNCHANGED <<req, inv, step>>
  BY DEF CheckStep, ReadRelease, CheckRelease, ReadReceipt, runVars
<1>2. Approved' = Approved /\ Published' = Published
  BY <1>1 DEF Approved, Published, Wrote
<1>3. \A b \in Checks : b # c => cpc'[b] = cpc[b] /\ loaded'[b] = loaded[b]
  BY <1>t DEF CheckStep, ReadRelease, CheckRelease, ReadReceipt, Verdict
<1>4. \A b \in Checks : b # c => Answer(b)' = Answer(b) /\ Claim(b)' = Claim(b)
  BY <1>1, <1>3, AnswersOf
<1>5. Answer(c) = "pending" /\ Claim(c) = {}
  BY DEF CheckStep, ReadRelease, CheckRelease, ReadReceipt, Answer, Claim
<1>6. CASE cpc'[c] \in {"loaded", "stored"}
  <2>1. Answer(c)' = "pending" /\ Claim(c)' = {}
    BY <1>6 DEF Answer, Claim
  <2>2. \A b \in Checks : Answer(b)' = Answer(b) /\ Claim(b)' = Claim(b)
    BY <1>4, <1>5, <2>1
  <2>3. /\ [b \in Checks |-> Answer(b)]' = [b \in Checks |-> Answer(b)]
        /\ [b \in Checks |-> Claim(b)]' = [b \in Checks |-> Claim(b)]
    BY <2>2
  <2> QED
    BY <1>2, <2>3 DEF Ledger!vars
<1>7. CASE cpc'[c] = "rejected"
  <2>1. Answer(c)' = "rejected" /\ Claim(c)' = {}
    BY <1>7 DEF Answer, Claim
  <2>2. /\ [b \in Checks |-> Answer(b)]' = [[b \in Checks |-> Answer(b)] EXCEPT ![c] = "rejected"]
        /\ [b \in Checks |-> Claim(b)]' = [b \in Checks |-> Claim(b)]
    BY <1>4, <1>5, <2>1
  <2>3. Ledger!Reject(c)
    BY <1>2, <1>5, <2>2 DEF Ledger!Reject
  <2> QED
    BY <2>3 DEF Ledger!Next
<1>8. CASE cpc'[c] = "accepted"
  <2>1. ReadReceipt(c)
    BY <1>8, <1>t DEF CheckStep, ReadRelease, CheckRelease, Verdict
  <2> DEFINE f == ReceiptSlot(i, s)
  <2>2. /\ cpc[c] = "stored" /\ loaded' = loaded
        /\ fs[f] \in Runs /\ req[fs[f]].id = i
    BY <2>1, <1>8, <1>t DEF ReadReceipt, Verdict
  <2>3. loaded[c] \in Runs /\ step[loaded[c]] >= 1 /\ req[loaded[c]].key = k /\ i \in Ids
    BY <2>2, <1>t, RequestType DEF Begun, Vetted, TInv
  <2>4. <<i, k>> \in Approved
    BY <2>3 DEF Approved
  <2>5. Wrote(fs[f], f)
    BY <2>2, <2>3, <1>t, SlotTypes DEF Own
  <2>6. <<i, s>> \in Published
    BY <2>2, <2>3, <2>5, <1>t DEF Published
  <2>7. Answer(c)' = "accepted" /\ Claim(c)' = {<<i, s, k>>}
    BY <1>8, <1>1, <2>2 DEF Answer, Claim
  <2>8. /\ [b \in Checks |-> Answer(b)]' = [[b \in Checks |-> Answer(b)] EXCEPT ![c] = "accepted"]
        /\ [b \in Checks |-> Claim(b)]' = [[b \in Checks |-> Claim(b)] EXCEPT ![c] = {<<i, s, k>>}]
    BY <1>4, <2>7
  <2>9. Ledger!Accept(c, i, s, k)
    BY <1>2, <1>5, <2>4, <2>6, <2>8 DEF Ledger!Accept
  <2> QED
    BY <2>3, <2>9, <1>t DEF Ledger!Next
<1> QED
  BY <1>6, <1>7, <1>8, <1>t
     DEF CheckStep, ReadRelease, CheckRelease, ReadReceipt, Verdict

LEMMA LedgerStep == LInv /\ [Next]_vars => [Ledger!Next]_(Ledger!vars)
<1> SUFFICES ASSUME LInv, [Next]_vars PROVE [Ledger!Next]_(Ledger!vars)
  OBVIOUS
<1> DEFINE Silent == UNCHANGED <<cpc, loaded, req, inv>>
<1>1. ASSUME Silent
      PROVE  /\ [b \in Checks |-> Answer(b)]' = [b \in Checks |-> Answer(b)]
             /\ [b \in Checks |-> Claim(b)]' = [b \in Checks |-> Claim(b)]
  BY <1>1 DEF Answer, Claim
<1>2. ASSUME NEW r \in Runs, Approve(r) PROVE Ledger!Next
  <2>1. req[r].id \in Ids /\ req[r].key \in Keys
    BY RequestType DEF LInv, VInv, AInv, TInv
  <2>2. Silent
    BY <1>2 DEF Approve
  <2>3. Ledger!Approve(req[r].id, req[r].key)
    BY <1>1, <1>2, <2>2, ApproveMaps DEF Ledger!Approve
  <2> QED
    BY <2>1, <2>3 DEF Ledger!Next
<1>3. ASSUME NEW r \in Runs, WriteEnd(r) PROVE [Ledger!Next]_(Ledger!vars)
  <2>1. req[r].id \in Ids /\ req[r].key \in Keys
    BY RequestType DEF LInv, VInv, AInv, TInv
  <2>2. Silent
    BY <1>3 DEF WriteEnd, checkVars
  <2>3. CASE Published' = Published
    BY <1>1, <1>3, <2>2, <2>3, WriteEndMaps DEF Ledger!vars
  <2>4. ASSUME NEW s \in Stages, Published' = Published \cup {<<req[r].id, s>>}
        PROVE Ledger!Next
    <3>1. Ledger!Publish(req[r].id, s)
      BY <1>1, <1>3, <2>1, <2>2, <2>4, WriteEndMaps DEF Ledger!Publish
    <3> QED
      BY <2>1, <3>1 DEF Ledger!Next
  <2> QED
    BY <1>3, <2>3, <2>4, WriteEndMaps
<1>4. CASE UNCHANGED step /\ Silent
  <2>1. Approved' = Approved /\ Published' = Published
    BY <1>4 DEF Approved, Published, Wrote
  <2> QED
    BY <1>1, <1>4, <2>1 DEF Ledger!vars
<1>5. ASSUME NEW c \in Checks, CheckStep(c) PROVE [Ledger!Next]_(Ledger!vars)
  BY <1>5, CheckMaps
<1> QED
  BY <1>2, <1>3, <1>4, <1>5
     DEF Next, vars, runVars, checkVars, RunStep, Rebuild, SeedMissing, Hash, Block,
         CopyBegin, CopyEnd, WriteBegin, Finish, Stop

\* sign-release and verify-release implement ReleaseLedger: every step of a
\* run or a check approves, publishes, answers or changes nothing there,
\* whatever is killed or overwritten meanwhile.
THEOREM LedgerHolds == Spec => LedgerSpec
<1> QED
  BY LedgerInvInit, LedgerInvStep, LedgerInit, LedgerStep, PTL
     DEF Spec, LedgerSpec, Ledger!Spec
-----------------------------------------------------------------------------
(* Retries, when the caller starts one run at a time.  A run that is still *)
(* the latest of its release holds every store file it has written, except *)
(* the one it is rewriting at the moment (a stage may be asked for twice). *)

StoreOf(i) == {StoreSlot(n, i) : n \in 1..4} \cup {ReceiptSlot(i, s) : s \in Stages}

Serial == \A r, k \in Runs : Live(r) /\ Live(k) => r = k

Newest ==
  /\ \A i \in Ids : latest[i] \in Runs => req[latest[i]].id = i
  /\ \A r \in Runs : pc[r] \in Writing => latest[req[r].id] = r

Half == \A r \in Runs : pc[r] = "writing" => fs[SlotAt(req[r], step[r])] = "torn"

Complete == \A r \in Runs : pc[r] = "done" => step[r] > LastStep(req[r])

Whole ==
  \A r \in Runs : pc[r] \in Writing \cup {"done"} /\ latest[req[r].id] = r =>
    \A f \in StoreOf(req[r].id) : Wrote(r, f) =>
      \/ fs[f] = r
      \/ pc[r] = "writing" /\ f = SlotAt(req[r], step[r])

WInv == TInv /\ Serial /\ Newest /\ Half /\ Complete /\ Whole

\* Only runs of a release touch its store files.
LEMMA StoreOfOne ==
  ASSUME NEW q, NEW n \in Nat, n >= 1, NEW i, SlotAt(q, n) \in StoreOf(i)
  PROVE  q.id = i
<1>1. CASE \E s \in Stages : SlotAt(q, n) = ReceiptSlot(i, s)
  BY <1>1, ReceiptSlotAt
<1>2. ASSUME NEW m \in 1..4, SlotAt(q, n) = StoreSlot(m, i) PROVE q.id = i
  <2>0. StoreDirs[m] \in {"releases", "sboms", "provenance", "witnesses"}
    BY DEF StoreDirs
  <2>1. SlotAt(q, n)[1] = StoreDirs[m] /\ SlotAt(q, n)[2] = i
    BY <1>2 DEF StoreSlot
  <2>2. CASE n \in 1..4
    <3>1. SlotAt(q, n) = <<StoreDirs[n], q.id, "-">>
      BY <2>2, StoreSlotAt DEF StoreSlot
    <3> QED
      BY <2>1, <3>1
  <2>3. CASE n = 5
    BY <2>0, <2>1, <2>3 DEF SlotAt, OutRelease
  <2>4. CASE n > 5 /\ n % 2 = 0 /\ n # 6
    BY <2>0, <2>1, <2>4 DEF SlotAt, ReceiptSlot
  <2>5. CASE n > 5 /\ ~ (n % 2 = 0 /\ n # 6)
    BY <2>0, <2>1, <2>5 DEF SlotAt, OutCopies
  <2> QED
    BY <2>2, <2>3, <2>4, <2>5
<1> QED
  BY <1>1, <1>2 DEF StoreOf

LEMMA StoreOfType == ASSUME NEW i \in Ids PROVE StoreOf(i) \subseteq Slots
BY SlotTypes DEF StoreOf

\* Only the start of a run makes it live, and then it is alone.
LEMMA SerialStep ==
  ASSUME Exclusive, TInv, Serial, [Next]_vars PROVE Serial'
<1>1. ASSUME NEW r \in Runs, Hash(r) PROVE Serial'
  <2>1. (\A k \in Runs : ~ Live(k)) /\ \A k \in Runs : k # r => pc'[k] = pc[k]
    BY <1>1 DEF Hash, MayBegin, TInv, TypeOK
  <2> QED
    BY <2>1 DEF Serial, Live
<1>2. ASSUME \A k \in Runs : Live(k)' => Live(k) PROVE Serial'
  BY <1>2 DEF Serial
<1>3. ASSUME NEW r \in Runs, RunStep(r) \/ Stop(r), ~ Hash(r)
      PROVE \A k \in Runs : Live(k)' => Live(k)
  BY <1>3
     DEF RunStep, SeedMissing, MayBegin, Block, Approve, CopyBegin, CopyEnd,
         WriteBegin, WriteEnd, Finish, Stop, Live, Ended, TInv, TypeOK
<1>4. ASSUME pc' = pc PROVE \A k \in Runs : Live(k)' => Live(k)
  BY <1>4 DEF Live
<1> QED
  BY <1>1, <1>2, <1>3, <1>4
     DEF Next, vars, runVars, CheckStep, ReadRelease, CheckRelease,
         ReadReceipt, Rebuild

LEMMA RetryInit == Init => WInv
<1> SUFFICES ASSUME Init PROVE WInv
  OBVIOUS
<1>1. \A r \in Runs : pc[r] = "idle"
  BY DEF Init
<1>2. Serial /\ Half /\ Complete /\ Whole
  BY <1>1 DEF Serial, Live, Half, Complete, Whole, Writing
<1>3. Newest
  BY <1>1, DistinctAssumption DEF Newest, Init, Writing
<1> QED
  BY <1>2, <1>3, TypeInit DEF WInv
LEMMA SlotAtType ==
  ASSUME TInv, NEW r \in Runs, NEW n \in Nat, n >= 1, n <= LastStep(req[r])
  PROVE  SlotAt(req[r], n) \in Slots
<1>t. /\ req[r].id \in Ids /\ req[r].dir \in Dirs
      /\ req[r].stages \in Seq(Stages) /\ Len(req[r].stages) \in Nat
  BY RequestType DEF TInv
<1>1. CASE n \in 1..4
  BY <1>1, <1>t, StoreSlotAt, SlotTypes
<1>2. CASE n = 5
  BY <1>2, <1>t, SlotTypes DEF SlotAt
<1>3. CASE n > 5 /\ n % 2 = 0 /\ n # 6
  <2>1. (n - 6) \div 2 \in 1..Len(req[r].stages)
    BY <1>3, <1>t DEF LastStep
  <2>2. req[r].stages[(n - 6) \div 2] \in Stages
    BY <2>1, <1>t
  <2> QED
    BY <2>2, <1>3, <1>t, SlotTypes DEF SlotAt
<1>4. CASE n > 5 /\ ~ (n % 2 = 0 /\ n # 6)
  <2>1. SlotAt(req[r], n) = OutCopies(req[r].dir)
    BY <1>4 DEF SlotAt
  <2> QED
    BY <2>1, <1>t DEF Slots
<1> QED
  BY <1>1, <1>2, <1>3, <1>4

\* Steps that touch no file and start no run; a run that ends has written
\* its last file.
LEMMA QuietStep ==
  ASSUME WInv, UNCHANGED <<fs, latest, step, req>>,
         \A k \in Runs :
           /\ pc'[k] \in Writing => pc[k] \in Writing /\ (pc'[k] = "writing" <=> pc[k] = "writing")
           /\ pc'[k] = "done" =>
                \/ pc[k] = "done"
                \/ pc[k] = "write" /\ step[k] > LastStep(req[k])
  PROVE  Newest' /\ Half' /\ Complete' /\ Whole'
<1>1. Newest' /\ Half' /\ Complete'
  BY DEF WInv, Newest, Half, Complete, Writing
<1>2. ASSUME NEW k \in Runs, pc'[k] \in Writing \cup {"done"}, latest[req[k].id] = k,
             NEW f \in StoreOf(req[k].id), Wrote(k, f)
      PROVE  fs[f] = k \/ (pc'[k] = "writing" /\ f = SlotAt(req[k], step[k]))
  <2>1. pc[k] \in Writing \cup {"done"} /\ (pc'[k] = "writing" <=> pc[k] = "writing")
    BY <1>2 DEF Writing
  <2> QED
    BY <1>2, <2>1 DEF WInv, Whole
<1>3. \A k \in Runs : \A f : Wrote(k, f)' <=> Wrote(k, f)
  BY DEF Wrote
<1>4. Whole'
  BY <1>2, <1>3 DEF Whole, StoreOf
<1> QED
  BY <1>1, <1>4

LEMMA ApproveAlone ==
  ASSUME WInv, NEW r \in Runs, Approve(r)
  PROVE  Newest' /\ Half' /\ Complete' /\ Whole'
<1>t. TInv /\ Serial /\ Newest /\ Half /\ Complete /\ Whole
  BY DEF WInv
<1>a. /\ UNCHANGED <<fs, req>> /\ pc'[r] = "copy" /\ step'[r] = 1
      /\ \A k \in Runs : k # r => pc'[k] = pc[k] /\ step'[k] = step[k]
      /\ req[r].id \in Ids /\ latest' = [latest EXCEPT ![req[r].id] = r]
      /\ latest \in [Ids -> Runs \cup {NoRun}]
  BY <1>t, RequestType DEF Approve, TInv, TypeOK
<1>b. \A k \in Runs : k # r => pc[k] \notin Writing
  <2>1. Live(r)
    BY DEF Approve, Live, Ended
  <2>2. \A k \in Runs : pc[k] \in Writing => Live(k)
    BY DEF Live, Ended, Writing
  <2> QED
    BY <2>1, <2>2, <1>t DEF Serial
<1>1. Newest'
  BY <1>t, <1>a, <1>b DEF Newest
<1>2. Half' /\ Complete'
  BY <1>t, <1>a, <1>b DEF Half, Complete, Writing
<1>3. \A f : ~ Wrote(r, f)'
  BY <1>a DEF Wrote
<1>4. \A k \in Runs : k # r => \A f : Wrote(k, f)' <=> Wrote(k, f)
  BY <1>a DEF Wrote
<1>5. ASSUME NEW k \in Runs, k # r, pc'[k] \in Writing \cup {"done"},
             latest'[req[k].id] = k, NEW f \in StoreOf(req[k].id), Wrote(k, f)
      PROVE  fs[f] = k
  <2>1. pc[k] = "done"
    BY <1>5, <1>a, <1>b
  <2>2. req[k].id \in Ids /\ latest[req[k].id] = k
    BY <1>5, <1>a, <1>t, RequestType DEF TInv
  <2> QED
    BY <2>1, <2>2, <1>5, <1>t DEF Whole
<1>6. Whole'
  BY <1>a, <1>3, <1>4, <1>5 DEF Whole, StoreOf
<1> QED
  BY <1>1, <1>2, <1>6

\* While a run writes, every other run that is still the latest of its
\* release is done, and of another release.
LEMMA OthersDone ==
  ASSUME WInv, NEW r \in Runs, pc[r] \in Writing, NEW k \in Runs, k # r
  PROVE  /\ pc[k] \notin Writing
         /\ latest[req[k].id] = k =>
              \A n \in Nat : n >= 1 => SlotAt(req[r], n) \notin StoreOf(req[k].id)
<1>1. Live(r) /\ (pc[k] \in Writing => Live(k))
  BY DEF Live, Ended, Writing
<1>2. latest[req[r].id] = r
  BY DEF WInv, Newest
<1> QED
  BY <1>1, <1>2, StoreOfOne DEF WInv, Serial

LEMMA WriteBeginAlone ==
  ASSUME WInv, NEW r \in Runs, WriteBegin(r)
  PROVE  Newest' /\ Half' /\ Complete' /\ Whole'
<1> DEFINE here == SlotAt(req[r], step[r])
<1>t. TInv /\ Newest /\ Half /\ Complete /\ Whole
  BY DEF WInv
<1>a. /\ UNCHANGED <<req, step, latest>> /\ pc[r] = "write" /\ pc'[r] = "writing"
      /\ \A k \in Runs : k # r => pc'[k] = pc[k]
      /\ step[r] \in Nat /\ step[r] >= 1 /\ here \in Slots
      /\ fs' = [fs EXCEPT ![here] = "torn"] /\ DOMAIN fs = Slots
  BY <1>t, SlotAtType DEF WriteBegin, TInv, TypeOK, StepOK, Writing
<1>b. pc[r] \in Writing
  BY <1>a DEF Writing
<1>c. \A k \in Runs : k # r => pc[k] \notin Writing
  BY <1>b, OthersDone
<1>1. Newest' /\ Complete'
  BY <1>t, <1>a, <1>b DEF Newest, Complete, Writing
<1>2. Half'
  BY <1>a, <1>c DEF Half, Writing
<1>3. \A k \in Runs : \A f : Wrote(k, f)' <=> Wrote(k, f)
  BY <1>a DEF Wrote
<1>4. ASSUME NEW k \in Runs, pc'[k] \in Writing \cup {"done"}, latest[req[k].id] = k,
             NEW f \in StoreOf(req[k].id), Wrote(k, f)
      PROVE  fs'[f] = k \/ (pc'[k] = "writing" /\ f = SlotAt(req[k], step[k]))
  <2>f. f \in Slots
    BY <1>t, StoreOfType, RequestType DEF TInv
  <2>1. CASE k = r
    <3>1. pc[k] # "writing"
      BY <2>1, <1>a
    <3>2. fs[f] = k
      BY <3>1, <2>1, <1>4, <1>b, <1>t DEF Whole
    <3> QED
      BY <3>2, <2>1, <2>f, <1>a
  <2>2. CASE k # r
    <3>1. pc[k] = "done"
      BY <2>2, <1>4, <1>a, <1>c
    <3>2. fs[f] = k
      BY <3>1, <1>4, <1>t DEF Whole
    <3>3. f # here
      BY <2>2, <1>a, <1>b, <1>4, OthersDone
    <3> QED
      BY <3>2, <3>3, <2>f, <1>a
  <2> QED
    BY <2>1, <2>2
<1>5. Whole'
  BY <1>a, <1>3, <1>4 DEF Whole, StoreOf
<1> QED
  BY <1>1, <1>2, <1>5

LEMMA WriteEndAlone ==
  ASSUME WInv, NEW r \in Runs, WriteEnd(r)
  PROVE  Newest' /\ Half' /\ Complete' /\ Whole'
<1> DEFINE here == SlotAt(req[r], step[r])
<1>t. TInv /\ Newest /\ Half /\ Complete /\ Whole
  BY DEF WInv
<1>a. /\ UNCHANGED <<req, latest>> /\ pc[r] = "writing" /\ pc'[r] = "write"
      /\ \A k \in Runs : k # r => pc'[k] = pc[k] /\ step'[k] = step[k]
      /\ step[r] \in Nat /\ step[r] >= 1 /\ step'[r] = step[r] + 1
      /\ DOMAIN fs = Slots /\ here \in Slots
  BY <1>t, SlotAtType DEF WriteEnd, TInv, TypeOK, StepOK, Writing
<1>b. pc[r] \in Writing
  BY <1>a DEF Writing
<1>c. \A k \in Runs : k # r => pc[k] \notin Writing
  BY <1>b, OthersDone
<1>d. fs' = [fs EXCEPT ![here] = r]
  <2>1. fs[here] = "torn" /\ "torn" \notin Runs
    BY <1>t, <1>a, DistinctAssumption DEF Half, Broken
  <2>2. OverlayJson(fs[here], r) = {r}
    BY <2>1 DEF OverlayJson
  <2> QED
    BY <2>2 DEF WriteEnd
<1>1. Newest' /\ Complete'
  BY <1>t, <1>a, <1>b DEF Newest, Complete, Writing
<1>2. Half'
  BY <1>a, <1>c DEF Half, Writing
<1>3. \A k \in Runs : k # r => \A f : Wrote(k, f)' <=> Wrote(k, f)
  BY <1>a DEF Wrote
<1>4. \A f : Wrote(r, f)' => Wrote(r, f) \/ f = here
  <2>1. 1..(step'[r] - 1) = (1..(step[r] - 1)) \cup {step[r]}
    BY <1>a
  <2> QED
    BY <2>1, <1>a DEF Wrote
<1>5. ASSUME NEW k \in Runs, pc'[k] \in Writing \cup {"done"}, latest[req[k].id] = k,
             NEW f \in StoreOf(req[k].id), Wrote(k, f)'
      PROVE  fs'[f] = k
  <2>f. f \in Slots
    BY <1>t, StoreOfType, RequestType DEF TInv
  <2>1. CASE k = r
    <3>1. CASE f = here
      BY <3>1, <2>1, <2>f, <1>a, <1>d
    <3>2. CASE f # here
      <4>1. fs[f] = k
        BY <3>2, <2>1, <1>4, <1>5, <1>b, <1>t DEF Whole
      <4> QED
        BY <4>1, <3>2, <2>f, <1>a, <1>d
    <3> QED
      BY <3>1, <3>2
  <2>2. CASE k # r
    <3>1. pc[k] = "done" /\ Wrote(k, f)
      BY <2>2, <1>5, <1>a, <1>c, <1>3
    <3>2. fs[f] = k
      BY <3>1, <1>5, <1>t DEF Whole
    <3>3. f # here
      BY <2>2, <1>a, <1>b, <1>5, OthersDone
    <3> QED
      BY <3>2, <3>3, <2>f, <1>a, <1>d
  <2> QED
    BY <2>1, <2>2
<1>6. Whole'
  BY <1>a, <1>5 DEF Whole, StoreOf
<1> QED
  BY <1>1, <1>2, <1>6

LEMMA RetryStep == ASSUME Exclusive, WInv, [Next]_vars PROVE WInv'
<1>t. TInv /\ TInv' /\ Serial'
  BY TypeStep, SerialStep DEF WInv
<1>1. ASSUME NEW r \in Runs,
             \/ SeedMissing(r) \/ Hash(r) \/ Block(r) \/ CopyBegin(r)
             \/ CopyEnd(r) \/ Finish(r) \/ Stop(r)
      PROVE  WInv'
  <2>1. UNCHANGED <<fs, latest, step, req>>
    BY <1>1 DEF SeedMissing, Hash, Block, CopyBegin, CopyEnd, Finish, Stop
  <2>2. \A k \in Runs :
          /\ pc'[k] \in Writing => pc[k] \in Writing /\ (pc'[k] = "writing" <=> pc[k] = "writing")
          /\ pc'[k] = "done" =>
               \/ pc[k] = "done"
               \/ pc[k] = "write" /\ step[k] > LastStep(req[k])
    BY <1>1, <1>t
       DEF SeedMissing, Hash, Block, CopyBegin, CopyEnd, Finish, Stop, Writing,
           TInv, TypeOK
  <2> QED
    BY <2>1, <2>2, <1>t, QuietStep DEF WInv
<1>2. ASSUME NEW r \in Runs, Approve(r) \/ WriteBegin(r) \/ WriteEnd(r) PROVE WInv'
  BY <1>2, <1>t, ApproveAlone, WriteBeginAlone, WriteEndAlone DEF WInv
<1>3. CASE UNCHANGED <<fs, latest, step, req, pc>>
  BY <1>3, <1>t, QuietStep DEF WInv
<1> QED
  BY <1>1, <1>2, <1>3
     DEF Next, vars, runVars, RunStep, CheckStep, ReadRelease, CheckRelease,
         ReadReceipt, Rebuild

\* A done run has written every store file of its release.
LEMMA DoneWrote ==
  ASSUME TInv, Complete, NEW r \in Runs, pc[r] = "done"
  PROVE  /\ \A n \in 1..4 : Wrote(r, StoreSlot(n, req[r].id))
         /\ \A k \in 1..Len(req[r].stages) :
              Wrote(r, ReceiptSlot(req[r].id, req[r].stages[k]))
<1>t. /\ Len(req[r].stages) \in Nat /\ step[r] \in Nat
      /\ LastStep(req[r]) = 6 + 2 * Len(req[r].stages) /\ step[r] > LastStep(req[r])
  BY RequestType DEF TInv, TypeOK, LastStep, Complete
<1>1. ASSUME NEW n \in 1..4 PROVE Wrote(r, StoreSlot(n, req[r].id))
  <2>1. n \in 1..(step[r] - 1)
    BY <1>t
  <2> QED
    BY <2>1, StoreSlotAt DEF Wrote
<1>2. ASSUME NEW k \in 1..Len(req[r].stages)
      PROVE  Wrote(r, ReceiptSlot(req[r].id, req[r].stages[k]))
  <2>1. 6 + 2 * k \in 1..(step[r] - 1)
    BY <1>t
  <2>2. /\ 6 + 2 * k > 5 /\ (6 + 2 * k) % 2 = 0 /\ 6 + 2 * k # 6
        /\ 6 + 2 * k \notin 1..4 /\ 6 + 2 * k # 5
        /\ (6 + 2 * k - 6) \div 2 = k
    BY <1>t
  <2>3. SlotAt(req[r], 6 + 2 * k) = ReceiptSlot(req[r].id, req[r].stages[k])
    BY <2>2 DEF SlotAt
  <2> QED
    BY <2>1, <2>3 DEF Wrote
<1> QED
  BY <1>1, <1>2

\* The store files of a done run that is still the latest of its release.
LEMMA DoneHolds ==
  ASSUME WInv, NEW r \in Runs, pc[r] = "done", latest[req[r].id] = r
  PROVE  /\ \A n \in 1..4 : fs[StoreSlot(n, req[r].id)] = r
         /\ \A k \in 1..Len(req[r].stages) :
              fs[ReceiptSlot(req[r].id, req[r].stages[k])] = r
<1>t. TInv /\ Complete /\ Whole /\ req[r].stages \in Seq(Stages)
  BY RequestType DEF WInv, TInv
<1>1. \A f \in StoreOf(req[r].id) : Wrote(r, f) => fs[f] = r
  BY <1>t DEF Whole
<1>2. \A n \in 1..4 : StoreSlot(n, req[r].id) \in StoreOf(req[r].id)
  BY DEF StoreOf
<1>3. \A k \in 1..Len(req[r].stages) :
        ReceiptSlot(req[r].id, req[r].stages[k]) \in StoreOf(req[r].id)
  BY <1>t DEF StoreOf
<1> QED
  BY <1>1, <1>2, <1>3, <1>t, DoneWrote

\* Started one at a time, a run that completes leaves every store file of
\* its release whole and its own, whatever earlier runs left half-written.
THEOREM RetryRepairsHolds == ASSUME Exclusive PROVE Spec => []RetryRepairs
<1>1. WInv => RetryRepairs
  <2> SUFFICES ASSUME WInv, NEW i \in Ids, latest[i] \in Runs, pc[latest[i]] = "done"
               PROVE  /\ \A n \in 1..4 : fs[StoreSlot(n, i)] = latest[i]
                      /\ \A k \in 1..Len(req[latest[i]].stages) :
                           fs[ReceiptSlot(i, req[latest[i]].stages[k])] = latest[i]
    BY DEF RetryRepairs
  <2>1. req[latest[i]].id = i
    BY DEF WInv, Newest
  <2> QED
    BY <2>1, DoneHolds
<1>2. WInv /\ [Next]_vars => WInv'
  BY RetryStep
<1> QED
  BY <1>1, <1>2, RetryInit, PTL DEF Spec
-----------------------------------------------------------------------------
(* No false alarm.  A clean check holds the release of a run that is done  *)
(* and still the latest, so the files it has yet to read are in place.     *)

Rest ==
  \A c \in Checks : clean[c] /\ loaded[c] \in Runs =>
    latest[req[loaded[c]].id] = loaded[c] /\ pc[loaded[c]] = "done"

SInv == WInv /\ Rest /\ NoSpuriousReject

LEMMA AlarmInit == Init => SInv
<1> SUFFICES ASSUME Init PROVE SInv
  OBVIOUS
<1>1. \A c \in Checks : ~ clean[c]
  BY DEF Init
<1> QED
  BY <1>1, RetryInit DEF SInv, Rest, NoSpuriousReject

\* Steps of runs and builds leave a clean check as it was, or make it unclean.
LEMMA AlarmRunStep ==
  ASSUME SInv, UNCHANGED <<req, inv, cpc, loaded>>,
         \A c \in Checks : clean'[c] /\ loaded[c] \in Runs =>
           /\ clean[c]
           /\ latest'[req[loaded[c]].id] = latest[req[loaded[c]].id]
           /\ pc'[loaded[c]] = pc[loaded[c]]
  PROVE  Rest' /\ NoSpuriousReject'
BY DEF SInv, Rest, NoSpuriousReject

LEMMA AlarmApprove ==
  ASSUME SInv, NEW r \in Runs, Approve(r) PROVE Rest' /\ NoSpuriousReject'
<1>t. TInv /\ Rest
  BY DEF SInv, WInv
<1>1. ASSUME NEW c \in Checks, clean'[c], loaded[c] \in Runs
      PROVE  /\ clean[c]
             /\ latest'[req[loaded[c]].id] = latest[req[loaded[c]].id]
             /\ pc'[loaded[c]] = pc[loaded[c]]
  <2>1. clean[c] /\ req[loaded[c]].id # req[r].id
    BY <1>1, Zenon DEF Approve
  <2>2. pc[loaded[c]] = "done" /\ req[loaded[c]].id \in Ids
    BY <2>1, <1>1, <1>t, RequestType DEF Rest, TInv
  <2> QED
    BY <2>1, <2>2, <1>1, <1>t DEF Approve, TInv, TypeOK
<1> QED
  BY <1>1, AlarmRunStep DEF Approve

\* Reading the release: the check is clean only if the release was at rest.
LEMMA AlarmReadRelease ==
  ASSUME SInv, NEW c \in Checks, ReadRelease(c) PROVE Rest' /\ NoSpuriousReject'
<1> DEFINE r == fs[OutRelease(inv[c].dir)]
<1>t. /\ TInv /\ Rest /\ NoSpuriousReject /\ c \in DOMAIN clean /\ c \in DOMAIN cpc
      /\ c \in DOMAIN loaded
  BY DEF SInv, WInv, TInv, TypeOK
<1>1. UNCHANGED <<req, inv, latest, pc>>
  BY DEF ReadRelease, runVars
<1>2. \A b \in Checks : b # c =>
        clean'[b] = clean[b] /\ loaded'[b] = loaded[b] /\ cpc'[b] = cpc[b]
  BY <1>t DEF ReadRelease, Verdict, TInv, TypeOK
<1>3. clean'[c] = Settled(c)
  BY <1>t, Zenon DEF ReadRelease
<1>4. Settled(c) => /\ r \in Runs /\ loaded'[c] = r /\ cpc'[c] = "loaded"
                    /\ latest[req[r].id] = r /\ pc[r] = "done"
  BY <1>t DEF ReadRelease, Verdict, Settled
<1>5. Rest'
  BY <1>1, <1>2, <1>3, <1>4, <1>t DEF Rest
<1>6. NoSpuriousReject'
  <2> SUFFICES ASSUME NEW b \in Checks, clean'[b], loaded'[b] \in Runs,
                      req[loaded'[b]].key = inv[b].key,
                      \E n \in DOMAIN req[loaded'[b]].stages :
                        req[loaded'[b]].stages[n] = inv[b].stage
               PROVE  cpc'[b] # "rejected"
    BY <1>1 DEF NoSpuriousReject
  <2>1. CASE b = c
    BY <2>1, <1>3, <1>4
  <2>2. CASE b # c
    BY <2>2, <1>2, <1>t DEF NoSpuriousReject
  <2> QED
    BY <2>1, <2>2
<1> QED
  BY <1>5, <1>6

\* The two other reads find what the latest run of the release has written.
LEMMA AlarmOtherReads ==
  ASSUME SInv, NEW c \in Checks, CheckRelease(c) \/ ReadReceipt(c)
  PROVE  Rest' /\ NoSpuriousReject'
<1>t. /\ WInv /\ TInv /\ Rest /\ NoSpuriousReject /\ c \in DOMAIN cpc
      /\ \A k \in Runs : req[k].stages \in Seq(Stages)
  BY RequestType DEF SInv, WInv, TInv, TypeOK
<1>1. UNCHANGED <<req, inv, latest, pc, loaded, clean>>
  BY DEF CheckRelease, ReadReceipt, runVars
<1>2. \A b \in Checks : b # c => cpc'[b] = cpc[b]
  BY <1>t DEF CheckRelease, ReadReceipt, Verdict, TInv, TypeOK
<1>3. Rest'
  BY <1>1, <1>t DEF Rest
<1>4. ASSUME clean[c], loaded[c] \in Runs, req[loaded[c]].key = inv[c].key,
             NEW n \in DOMAIN req[loaded[c]].stages,
             req[loaded[c]].stages[n] = inv[c].stage
      PROVE  cpc'[c] # "rejected"
  <2>1. latest[req[loaded[c]].id] = loaded[c] /\ pc[loaded[c]] = "done"
    BY <1>4, <1>t DEF Rest
  <2>2. n \in 1..Len(req[loaded[c]].stages)
    BY <1>4, <1>t
  <2>3. /\ fs[StoreSlot(1, req[loaded[c]].id)] = loaded[c]
        /\ fs[ReceiptSlot(req[loaded[c]].id, inv[c].stage)] = loaded[c]
    BY <2>1, <2>2, <1>4, <1>t, DoneHolds
  <2>4. loaded[c] # "absent"
    BY <1>4, DistinctAssumption DEF Broken
  <2> QED
    BY <2>3, <2>4, <1>4, <1>t DEF CheckRelease, ReadReceipt, Verdict
<1>5. NoSpuriousReject'
  <2> SUFFICES ASSUME NEW b \in Checks, clean[b], loaded[b] \in Runs,
                      req[loaded[b]].key = inv[b].key,
                      NEW n \in DOMAIN req[loaded[b]].stages,
                      req[loaded[b]].stages[n] = inv[b].stage
               PROVE  cpc'[b] # "rejected"
    BY <1>1 DEF NoSpuriousReject
  <2>1. CASE b = c
    BY <2>1, <1>4
  <2>2. CASE b # c
    BY <2>2, <1>2, <1>t DEF NoSpuriousReject
  <2> QED
    BY <2>1, <2>2
<1> QED
  BY <1>3, <1>5

LEMMA AlarmStep == ASSUME Exclusive, SInv, [Next]_vars PROVE SInv'
<1>t. WInv' /\ TInv /\ Rest
  BY RetryStep DEF SInv, WInv
<1>1. ASSUME NEW r \in Runs, RunStep(r) \/ Stop(r), ~ Approve(r) PROVE SInv'
  <2>1. UNCHANGED <<req, inv, cpc, loaded, clean, latest>>
    BY <1>1 DEF RunStep, SeedMissing, Hash, Block, CopyBegin, CopyEnd, WriteBegin,
                WriteEnd, Finish, Stop, checkVars
  <2>2. \A k \in Runs : pc[k] = "done" => pc'[k] = pc[k]
    BY <1>1, <1>t
       DEF RunStep, SeedMissing, MayBegin, Hash, Block, CopyBegin, CopyEnd,
           WriteBegin, WriteEnd, Finish, Stop, Live, Ended, TInv, TypeOK
  <2> QED
    BY <2>1, <2>2, <1>t, AlarmRunStep DEF SInv, Rest
<1>2. ASSUME NEW r \in Runs, Approve(r) PROVE SInv'
  BY <1>2, <1>t, AlarmApprove DEF SInv
<1>3. ASSUME NEW c \in Checks, CheckStep(c) PROVE SInv'
  BY <1>3, <1>t, AlarmReadRelease, AlarmOtherReads DEF SInv, CheckStep
<1>4. CASE UNCHANGED <<req, inv, cpc, loaded, clean, latest, pc>>
  BY <1>4, <1>t, AlarmRunStep DEF SInv
<1> QED
  BY <1>1, <1>2, <1>3, <1>4 DEF Next, vars, runVars, checkVars, Rebuild

\* Started one at a time, runs never make a check of a finished release that
\* is not signed again meanwhile come out rejected.
THEOREM NoSpuriousRejectHolds == ASSUME Exclusive PROVE Spec => []NoSpuriousReject
<1>1. SInv => NoSpuriousReject
  BY DEF SInv
<1>2. SInv /\ [Next]_vars => SInv'
  BY AlarmStep
<1> QED
  BY <1>1, <1>2, AlarmInit, PTL DEF Spec
=============================================================================

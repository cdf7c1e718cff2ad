------------------------------ MODULE SignRail ------------------------------
(***************************************************************************)
(* `sign-release` and `verify-release` (crates/jeryu-signrail) around one  *)
(* filesystem store.  Every execution of `sign-release` is a run, every    *)
(* execution of `verify-release` a check; a retry is another run with the  *)
(* same release id.  Neither command takes a lock and neither replaces a   *)
(* file atomically: fs::write and fs::copy truncate the target first and   *)
(* fill it afterwards, so every write below is two steps, and a run may be *)
(* killed, or fail with an I/O error, before or between any two of them.   *)
(*                                                                         *)
(* Data is abstracted to what the properties tell apart.  A JSON document  *)
(* is identified with the run that rendered it: its id, commit, signing    *)
(* key, artifact digest and stage are those of the run and of the slot it  *)
(* is stored in.  sha256 is injective, so a digest is the byte content it  *)
(* was computed from.                                                      *)
(***************************************************************************)
EXTENDS Integers, Sequences

CONSTANTS
  Runs,       \* executions of sign-release
  Checks,     \* executions of verify-release
  Ids,        \* release ids, "repo@sha"; one file name each
  Dirs,       \* checkouts: each holds an artifact file and an --out-dir
  Stages,     \* promotion stages
  Keys,       \* Ed25519 keys
  Bytes,      \* contents an artifact file can have
  NoBytes,    \* digest of a run that has not hashed its artifact yet
  NoRun,      \* "no run" for the history variable latest
  Requests,   \* the arguments and environment a run may be started with
  Invocations,\* the arguments a check may be started with
  Exclusive   \* TRUE: the caller starts one run at a time

\* What a truncated, an overlaid and a missing file hold.
Broken == {"absent", "torn", "mixed"}

Request == [id : Ids, dir : Dirs, stages : Seq(Stages) \ {<<>>}, key : Keys,
            seed : BOOLEAN, runner : {"release-hermetic", "other"},
            version : {"semver", "latest"},
            size : Nat]  \* how long the documents rendered for it are

Invocation == [dir : Dirs, stage : Stages, key : Keys]

ASSUME RequestsAssumption == Requests \subseteq Request
ASSUME InvocationsAssumption == Invocations \subseteq Invocation
ASSUME ExclusiveAssumption == Exclusive \in BOOLEAN
ASSUME DistinctAssumption ==
  /\ NoBytes \notin Bytes
  /\ NoRun \notin Runs
  /\ Broken \cap Runs = {}
  /\ Broken \cap Bytes = {}

-----------------------------------------------------------------------------
(* The files a run writes after its artifact, in program order: four in    *)
(* the store, those of the output directory, then per stage one receipt in *)
(* the output directory and one in the store.  Of the output directory     *)
(* only release.json is ever read; the copies beside it (SBOM, provenance, *)
(* witness, stage receipts) are one slot.                                  *)

StoreDirs == <<"releases", "sboms", "provenance", "witnesses">>

StoreSlot(n, i) == <<StoreDirs[n], i, "-">>
ReceiptSlot(i, s) == <<"receipts", i, s>>
OutRelease(d) == <<"release.json", d, "-">>
OutCopies(d) == <<"copies", d, "-">>

Slots == {StoreSlot(n, i) : n \in 1..4, i \in Ids}
           \cup {ReceiptSlot(i, s) : i \in Ids, s \in Stages}
           \cup {OutRelease(d) : d \in Dirs} \cup {OutCopies(d) : d \in Dirs}

\* Mutant: the loop over the stages ends before the last store write.
LastStepShort(q) == 5 + 2 * Len(q.stages)

LastStep(q) == 6 + 2 * Len(q.stages)

\* Mutant: the first receipt is stored before the record it vouches for.
SlotAtReceiptFirst(q, n) ==
  CASE n = 1 -> ReceiptSlot(q.id, q.stages[1])
    [] n \in 2..5 -> StoreSlot(n - 1, q.id)
    [] n = 6 -> OutRelease(q.dir)
    [] OTHER -> OutCopies(q.dir)

SlotAt(q, n) ==
  CASE n \in 1..4 -> StoreSlot(n, q.id)
    [] n = 5 -> OutRelease(q.dir)
    [] n > 5 /\ n % 2 = 0 /\ n # 6 -> ReceiptSlot(q.id, q.stages[(n - 6) \div 2])
    [] OTHER -> OutCopies(q.dir)

\* The gates of validate_release that a command line can fail; the whole
\* policy is modelled in ReleaseAssembly.
PolicyOk(q) == q.runner = "release-hermetic" /\ q.version # "latest"

-----------------------------------------------------------------------------
VARIABLES
  work,    \* artifact file of each checkout
  blob,    \* artifacts/<digest>/<name> of the store
  fs,      \* every JSON file of the store and of the output directories
  req,     \* arguments of each run
  pc, digest, step,  \* control state of each run
  latest,  \* history: the run that last began to write a release id
  inv,     \* arguments of each check
  cpc, loaded,       \* control state of each check, the release it read
  clean    \* history: the release was at rest when the check read it, and since

\* What a file holds after a writer that truncated it has filled it: if
\* another writer finished in between, the longer of the two shows through.
OverlayJson(old, r) ==
  IF old \in Runs /\ req[old].size > req[r].size THEN {"mixed"}
  ELSE IF old = "mixed" THEN {r, "mixed"} ELSE {r}

OverlayCopy(old, new) == IF old \in {"absent", "torn", new} THEN {new} ELSE {new, "mixed"}

runVars == <<pc, digest, step>>
checkVars == <<inv, cpc, loaded, clean>>
vars == <<work, blob, fs, req, runVars, latest, checkVars>>

Ended == {"failed", "stopped", "done"}
Writing == {"copy", "copying", "write", "writing"}
Live(r) == pc[r] \notin {"idle"} \cup Ended

Init ==
  /\ work \in [Dirs -> Bytes]
  /\ blob = [b \in Bytes |-> "absent"]
  /\ fs = [f \in Slots |-> "absent"]
  /\ req \in [Runs -> Requests]
  /\ pc = [r \in Runs |-> "idle"]
  /\ digest = [r \in Runs |-> NoBytes]
  /\ step = [r \in Runs |-> 0]
  /\ latest = [i \in Ids |-> NoRun]
  /\ inv \in [Checks -> Invocations]
  /\ cpc = [c \in Checks |-> "idle"]
  /\ loaded = [c \in Checks |-> NoRun]
  /\ clean = [c \in Checks |-> FALSE]

-----------------------------------------------------------------------------
(* The build that produces the artifact file: it knows nothing of runs.    *)

Rebuild(d) ==
  /\ \E b \in Bytes : work' = [work EXCEPT ![d] = b]
  /\ UNCHANGED <<blob, fs, req, runVars, latest, checkVars>>

-----------------------------------------------------------------------------
(* sign-release.                                                           *)

MayBegin(r) == pc[r] = "idle" /\ (Exclusive => \A k \in Runs : ~ Live(k))

\* No signing seed in the environment: nothing is read or written.
SeedMissing(r) ==
  /\ MayBegin(r)
  /\ ~ req[r].seed
  /\ pc' = [pc EXCEPT ![r] = "failed"]
  /\ UNCHANGED <<work, blob, fs, req, digest, step, latest, checkVars>>

\* Mutant: the digest is not kept.
HashNotKept(r) ==
  /\ MayBegin(r)
  /\ req[r].seed
  /\ pc' = [pc EXCEPT ![r] = "hashed"]
  /\ UNCHANGED <<work, blob, fs, req, digest, step, latest, checkVars>>

\* The artifact is hashed; signing and validation use only this digest.
Hash(r) ==
  /\ MayBegin(r)
  /\ req[r].seed
  /\ pc' = [pc EXCEPT ![r] = "hashed"]
  /\ digest' = [digest EXCEPT ![r] = work[req[r].dir]]
  /\ UNCHANGED <<work, blob, fs, req, step, latest, checkVars>>

Block(r) ==
  /\ pc[r] = "hashed"
  /\ ~ PolicyOk(req[r])
  /\ pc' = [pc EXCEPT ![r] = "failed"]
  /\ UNCHANGED <<work, blob, fs, req, digest, step, latest, checkVars>>

\* Mutant: the outcome of validation is not looked at.
ApproveAnyway(r) ==
  /\ pc[r] = "hashed"
  /\ pc' = [pc EXCEPT ![r] = "copy"]
  /\ step' = [step EXCEPT ![r] = 1]
  /\ latest' = [latest EXCEPT ![req[r].id] = r]
  /\ clean' = [c \in Checks |-> clean[c] /\ req[loaded[c]].id # req[r].id]
  /\ UNCHANGED <<work, blob, fs, req, digest, inv, cpc, loaded>>

Approve(r) ==
  /\ pc[r] = "hashed"
  /\ PolicyOk(req[r])
  /\ pc' = [pc EXCEPT ![r] = "copy"]
  /\ step' = [step EXCEPT ![r] = 1]
  /\ latest' = [latest EXCEPT ![req[r].id] = r]
  /\ clean' = [c \in Checks |-> clean[c] /\ req[loaded[c]].id # req[r].id]
  /\ UNCHANGED <<work, blob, fs, req, digest, inv, cpc, loaded>>

\* put_artifact copies the file at the artifact's path, not the hashed bytes.
CopyBegin(r) ==
  /\ pc[r] = "copy"
  /\ pc' = [pc EXCEPT ![r] = "copying"]
  /\ blob' = [blob EXCEPT ![digest[r]] = "torn"]
  /\ UNCHANGED <<work, fs, req, digest, step, latest, checkVars>>

CopyEnd(r) ==
  /\ pc[r] = "copying"
  /\ pc' = [pc EXCEPT ![r] = "write"]
  /\ \E b \in OverlayCopy(blob[digest[r]], work[req[r].dir]) :
       blob' = [blob EXCEPT ![digest[r]] = b]
  /\ UNCHANGED <<work, fs, req, digest, step, latest, checkVars>>

WriteBegin(r) ==
  /\ pc[r] = "write"
  /\ step[r] <= LastStep(req[r])
  /\ pc' = [pc EXCEPT ![r] = "writing"]
  /\ fs' = [fs EXCEPT ![SlotAt(req[r], step[r])] = "torn"]
  /\ UNCHANGED <<work, blob, req, digest, step, latest, checkVars>>

WriteEnd(r) ==
  /\ pc[r] = "writing"
  /\ pc' = [pc EXCEPT ![r] = "write"]
  /\ step' = [step EXCEPT ![r] = @ + 1]
  /\ \E f \in OverlayJson(fs[SlotAt(req[r], step[r])], r) :
       fs' = [fs EXCEPT ![SlotAt(req[r], step[r])] = f]
  /\ UNCHANGED <<work, blob, req, digest, latest, checkVars>>

Finish(r) ==
  /\ pc[r] = "write"
  /\ step[r] > LastStep(req[r])
  /\ pc' = [pc EXCEPT ![r] = "done"]
  /\ UNCHANGED <<work, blob, fs, req, digest, step, latest, checkVars>>

\* Killed, or an I/O error returned by any of the calls above.
Stop(r) ==
  /\ Live(r)
  /\ pc' = [pc EXCEPT ![r] = "stopped"]
  /\ UNCHANGED <<work, blob, fs, req, digest, step, latest, checkVars>>

RunStep(r) ==
  \/ SeedMissing(r) \/ Hash(r) \/ Block(r) \/ Approve(r)
  \/ CopyBegin(r) \/ CopyEnd(r) \/ WriteBegin(r) \/ WriteEnd(r) \/ Finish(r)

-----------------------------------------------------------------------------
(* verify-release: three reads of files that runs may be rewriting.        *)

Verdict(c, ok, next) == cpc' = [cpc EXCEPT ![c] = IF ok THEN next ELSE "rejected"]

\* The check is handed the release of a run that is done, no run has written
\* that release since, and none is under way.
Settled(c) ==
  LET r == fs[OutRelease(inv[c].dir)]
  IN  /\ r \in Runs
      /\ latest[req[r].id] = r
      /\ pc[r] = "done"
      /\ \A k \in Runs : ~ Live(k)

ReadRelease(c) ==
  LET r == fs[OutRelease(inv[c].dir)]
  IN  /\ cpc[c] = "idle"
      /\ Verdict(c, r \in Runs, "loaded")
      /\ loaded' = [loaded EXCEPT ![c] = IF r \in Runs THEN r ELSE @]
      /\ clean' = [clean EXCEPT ![c] = Settled(c)]
      /\ UNCHANGED <<work, blob, fs, req, runVars, latest, inv>>

\* Mutant: the provenance is not verified under the given key.
CheckReleaseAnyKey(c) ==
  /\ cpc[c] = "loaded"
  /\ Verdict(c, fs[StoreSlot(1, req[loaded[c]].id)] # "absent", "stored")
  /\ UNCHANGED <<work, blob, fs, req, runVars, latest, inv, loaded, clean>>

\* The stored release only has to be a file; its content is not read.  The
\* provenance of the release that was read must verify under the given key.
CheckRelease(c) ==
  LET r == loaded[c]
  IN  /\ cpc[c] = "loaded"
      /\ Verdict(c, /\ fs[StoreSlot(1, req[r].id)] # "absent"
                    /\ req[r].key = inv[c].key, "stored")
      /\ UNCHANGED <<work, blob, fs, req, runVars, latest, inv, loaded, clean>>

\* Mutant: the receipt, like the stored release, only has to be a file.
ReadReceiptIsFile(c) ==
  /\ cpc[c] = "stored"
  /\ Verdict(c, fs[ReceiptSlot(req[loaded[c]].id, inv[c].stage)] # "absent", "accepted")
  /\ UNCHANGED <<work, blob, fs, req, runVars, latest, inv, loaded, clean>>

ReadReceipt(c) ==
  /\ cpc[c] = "stored"
  /\ LET i == req[loaded[c]].id
         k == fs[ReceiptSlot(i, inv[c].stage)]
     IN  Verdict(c, k \in Runs /\ req[k].id = i, "accepted")
  /\ UNCHANGED <<work, blob, fs, req, runVars, latest, inv, loaded, clean>>

CheckStep(c) == ReadRelease(c) \/ CheckRelease(c) \/ ReadReceipt(c)

-----------------------------------------------------------------------------
Next ==
  \/ \E d \in Dirs : Rebuild(d)
  \/ \E r \in Runs : RunStep(r) \/ Stop(r)
  \/ \E c \in Checks : CheckStep(c)

Spec == Init /\ [][Next]_vars

\* A started process is scheduled; nothing promises it is never killed.
Fairness ==
  /\ \A r \in Runs : WF_vars(RunStep(r))
  /\ \A c \in Checks : WF_vars(CheckStep(c))

FairSpec == Spec /\ Fairness

-----------------------------------------------------------------------------
(* Properties.                                                             *)

\* Every variable has its type; from the moment a run has read its artifact
\* it holds that artifact's digest, and it never runs past its last file.
TypeOK ==
  /\ work \in [Dirs -> Bytes]
  /\ blob \in [Bytes -> Bytes \cup Broken]
  /\ fs \in [Slots -> Runs \cup Broken]
  /\ req \in [Runs -> Requests]
  /\ pc \in [Runs -> {"idle", "hashed"} \cup Writing \cup Ended]
  /\ digest \in [Runs -> Bytes \cup {NoBytes}]
  /\ step \in [Runs -> Nat]
  /\ latest \in [Ids -> Runs \cup {NoRun}]
  /\ inv \in [Checks -> Invocations]
  /\ cpc \in [Checks -> {"idle", "loaded", "stored", "accepted", "rejected"}]
  /\ loaded \in [Checks -> Runs \cup {NoRun}]
  /\ clean \in [Checks -> BOOLEAN]
  /\ \A r \in Runs :
       /\ step[r] <= LastStep(req[r]) + 1
       /\ pc[r] = "writing" => step[r] \in 1..LastStep(req[r])
       /\ pc[r] \in {"hashed", "done"} \cup Writing => digest[r] \in Bytes

\* Run r has completed the write of slot f.
Wrote(r, f) == \E n \in 1..(step[r] - 1) : SlotAt(req[r], n) = f

\* Whatever the store and the output directories hold was written by a run
\* that had its seed and passed every gate (sign.rs:31-109 before 128-170),
\* whichever run wrote over whose file and wherever runs were killed.
ApprovedOnly ==
  \A f \in Slots : fs[f] \in Runs =>
    /\ req[fs[f]].seed
    /\ PolicyOk(req[fs[f]])
    /\ Wrote(fs[f], f)

\* A stage receipt never outruns the record it vouches for: when a receipt
\* is in the store, complete or not, so are the release, its SBOM, its
\* provenance and its witness (sign.rs:130-133 before 164-168).
ReceiptLast ==
  \A i \in Ids, s \in Stages : fs[ReceiptSlot(i, s)] # "absent" =>
    \A n \in 1..4 : fs[StoreSlot(n, i)] # "absent"

\* An accepting check was right: the release it read was written by a run
\* that passed every gate and signed with the given key, and some run that
\* passed every gate completed the receipt of that stage of that release.
AcceptedSound ==
  \A c \in Checks : cpc[c] = "accepted" =>
    LET i == req[loaded[c]].id
    IN  /\ PolicyOk(req[loaded[c]]) /\ req[loaded[c]].seed
        /\ req[loaded[c]].key = inv[c].key
        /\ \E k \in Runs : /\ PolicyOk(req[k]) /\ req[k].id = i
                           /\ Wrote(k, ReceiptSlot(i, inv[c].stage))

\* Retrying repairs: when runs are not concurrent, a run that completes
\* leaves every store file of its release whole and its own, whatever
\* earlier runs of the release left half-written.
RetryRepairs ==
  \A i \in Ids : latest[i] \in Runs /\ pc[latest[i]] = "done" =>
    LET r == latest[i]
    IN  /\ \A n \in 1..4 : fs[StoreSlot(n, i)] = r
        /\ \A k \in 1..Len(req[r].stages) : fs[ReceiptSlot(i, req[r].stages[k])] = r

\* store.rs:1 calls the store content-addressed: what it keeps under a
\* digest, once copied, has that digest.  It does not hold: the artifact is
\* hashed (sign.rs:51) and later copied from its path (store.rs:44), and a
\* build that replaces it in between is stored under the old digest.
ContentAddressed == \A b \in Bytes : blob[b] \in Bytes => blob[b] = b

\* No false alarm: a check of the latest release, complete and at rest when
\* the check began and not signed again since, for a stage it was signed for
\* and under its key, is not rejected.
NoSpuriousReject ==
  \A c \in Checks :
    /\ clean[c]
    /\ loaded[c] \in Runs
    /\ req[loaded[c]].key = inv[c].key
    /\ \E n \in DOMAIN req[loaded[c]].stages : req[loaded[c]].stages[n] = inv[c].stage
    => cpc[c] # "rejected"

\* A check of a release at rest is answered, and accepted unless the release
\* is signed again meanwhile.
SettledIsAccepted ==
  \A c \in Checks :
    (/\ cpc[c] = "loaded" /\ clean[c]
     /\ req[loaded[c]].key = inv[c].key
     /\ \E n \in DOMAIN req[loaded[c]].stages : req[loaded[c]].stages[n] = inv[c].stage)
      ~> (cpc[c] = "accepted" \/ ~ clean[c])

\* The promise of ReleaseLedger, read off the control state of the runs:
\* approval and publication survive in the store after the run has died.
Approved == {<<req[r].id, req[r].key>> : r \in {k \in Runs : step[k] >= 1}}
Published == {p \in Ids \X Stages :
                \E r \in Runs : req[r].id = p[1] /\ Wrote(r, ReceiptSlot(p[1], p[2]))}
Answer(c) == IF cpc[c] \in {"accepted", "rejected"} THEN cpc[c] ELSE "pending"
Claim(c) == IF cpc[c] = "accepted"
            THEN {<<req[loaded[c]].id, inv[c].stage, inv[c].key>>} ELSE {}

Ledger == INSTANCE ReleaseLedger WITH
  approved <- Approved, published <- Published,
  answer <- [c \in Checks |-> Answer(c)], claim <- [c \in Checks |-> Claim(c)]

\* sign-release and verify-release implement ReleaseLedger.
LedgerSpec == Ledger!Spec
=============================================================================

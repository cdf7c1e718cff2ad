----------------------------- MODULE Governance -----------------------------
(***************************************************************************)
(* Phase 11 governance (crates/jeryu-phase11-core): every operation -- a   *)
(* tenant decision, an operations evaluation, an upgrade or rollback plan, *)
(* a replay verdict, a compliance export, a readiness report -- reads the  *)
(* clock, appends a receipt to an append-only ledger and hands out a       *)
(* document that names the receipt by its id, a digest of its fields.      *)
(*                                                                         *)
(* Either services call the operations in any order on one ledger, or the  *)
(* kernel runs them in its fixed order on a ledger of its own (readiness). *)
(* A text that a caller writes is known by the words the field separator   *)
(* cuts it into, and nothing is assumed of the digest.  Sorting of         *)
(* findings, remediation hints and the JSON forms are left out.            *)
(***************************************************************************)
EXTENDS Integers, Sequences, FiniteSets, SequencesExt

CONSTANTS
  Tenants, Actors,
  Principals,   \* the tenant and actor the other calls are made for
  Blank,        \* an actor, key or rollback text that is empty or blank
  PolicyInputs, \* tenant decisions services ask for
  SignalLists, Claims, Upgrades, LabelSets,  \* arguments of the other calls
  ClaimNames,   \* the claim ids services write
  Word,         \* texts without a separator
  Words,        \* the words of a text, as the separator cuts it
  Digest(_),    \* the 64-bit digest of a text, given as its words
  Texts,        \* names and instructions of migrations that are not blank
  Callers,      \* who drives the operations: "services", "kernel" or both
  MaxCalls,     \* bound: documents the services are handed
  MaxClock      \* bound: seconds that pass

Severities == <<"info", "warning", "degraded", "critical", "blocked">>
Severity == Range(Severities)
Rank(s) == CHOOSE n \in 1..5 : Severities[n] = s
FailsClosed(s) == s \in {"critical", "blocked"}
HealthState == {"healthy", "degraded", "failing", "blocked"}

FromSeverity(s) ==
  CASE s \in {"info", "warning"} -> "healthy"
    [] s = "degraded" -> "degraded"
    [] s = "critical" -> "failing"
    [] s = "blocked" -> "blocked"

\* Whether mutating operations may continue.
MutationGate(state) == state \in {"healthy", "degraded"}

Roles == {"viewer", "operator", "auditor", "admin", "break_glass"}
TenantActions == {"read_evidence", "export_compliance", "plan_upgrade",
                  "apply_upgrade", "plan_rollback", "update_quota", "read_replay"}

\* resource: the tenant that owns what is acted on.  usage and quota stand
\* for the four counters and their limits, which are compared alike.
PolicyInput == [tenant : Tenants, resource : Tenants, actor : Actors, role : Roles,
                action : TenantActions, usage : Nat, quota : Nat, ticket : BOOLEAN]

\* A service signal is the set of thresholds it exceeds, a claim the set of
\* requirements it misses.
Breaches == {"latency", "errors", "queue", "heartbeat"}
Faults == {"field_missing", "duration_zero", "speedup", "false_hits",
           "ir_hash_format", "artifact_digest_format"}

\* keyed: it has an idempotency key.  undo: its rollback instruction.
Migration == [name : Texts, keyed : BOOLEAN, undo : Texts \cup {Blank}]
Upgrade == [noop : BOOLEAN, migrations : Seq(Migration)]

KernelUpgrade ==
  [noop |-> FALSE,
   migrations |-> <<[name |-> "audit-ledger-index", keyed |-> TRUE, undo |-> "drop index"],
                    [name |-> "tenant-quota-ledger", keyed |-> TRUE, undo |-> "archive"],
                    [name |-> "replay-receipt-catalog", keyed |-> TRUE, undo |-> "drop catalog"]>>]

\* The labels the default controls require, control by control.
Required == <<"rbac_decision", "tenant_policy", "upgrade_plan", "rollback_plan",
              "ops_plan", "ops_report", "replay_verdict", "tenant_policy">>
Labels == Range(Required)

Subjects == TenantActions \cup ClaimNames \cup
  {"ops-evaluation", "phase11-upgrade", "phase11-rollback", "bench_phase11_fixture",
   "phase11-compliance-export", "phase11-readiness"}

ASSUME InputsAssumption ==
  /\ PolicyInputs \subseteq PolicyInput
  /\ Words \in [Actors \cup Subjects -> Seq(Word)]
  /\ \A t, u \in Actors \cup Subjects : Words[t] = Words[u] => t = u
  /\ Principals \subseteq [tenant : Tenants, actor : Actors]
  /\ \A ss \in SignalLists : ss \in Seq(SUBSET Breaches)
  /\ Claims \subseteq SUBSET Faults
  /\ \A u \in Upgrades : u \in Upgrade
  /\ \A n \in DOMAIN KernelUpgrade.migrations :
       {KernelUpgrade.migrations[n].name, KernelUpgrade.migrations[n].undo} \subseteq Texts
  /\ "hold rollout" \in Texts
  /\ LabelSets \subseteq SUBSET Labels
  /\ Callers \subseteq {"services", "kernel"}
  /\ MaxCalls \in Nat /\ MaxClock \in Nat

Kinds == {"tenant_decision", "operation", "upgrade_plan", "rollback_plan",
          "replay_verification", "compliance_export", "readiness"}

Evidence == Roles \cup HealthState \cup Labels \cup {"allow", "versions", "target", "digest"}

Receipt == [tenant : Tenants, kind : Kinds, actor : Actors, subject : Subjects,
            evidence : SUBSET Evidence, at : Nat]

DenialCodes == <<"actor_missing", "cross_tenant_denied", "quota_exceeded",
                 "break_glass_ticket_missing", "role_denied">>

\* The codes of findings; a missing label is one of its own.
Codes == Breaches \cup Faults \cup Labels \cup Range(DenialCodes) \cup
  {"tenant.allowed", "signals_missing", "ops.healthy", "idempotency_missing",
   "rollback_missing", "noop_upgrade", "migrations_missing", "lifecycle.valid",
   "replay.verified", "compliance.complete", "phase11.ready", "readiness_receipt"}

Finding == [code : Codes, severity : Severity]
Report == [state : HealthState, findings : Seq(Finding)]

-----------------------------------------------------------------------------
(* Reports.                                                                *)

NoFindings == [state |-> "healthy", findings |-> <<>>]

Worst(findings) ==
  IF findings = <<>> THEN "info"
  ELSE CHOOSE s \in Severity :
         /\ \E n \in DOMAIN findings : findings[n].severity = s
         /\ \A n \in DOMAIN findings : Rank(findings[n].severity) <= Rank(s)

\* Mutant: the state is that of the finding pushed last.
PushLast(report, f) ==
  [state |-> FromSeverity(f.severity), findings |-> Append(report.findings, f)]

Push(report, f) ==
  [state |-> IF Rank(f.severity) > Rank(Worst(report.findings))
             THEN FromSeverity(f.severity) ELSE report.state,
   findings |-> Append(report.findings, f)]

ReportOf(findings) == FoldLeft(Push, NoFindings, findings)

\* A report without findings gets one that says so.
OrElse(findings, code) ==
  IF findings = <<>> THEN <<[code |-> code, severity |-> "info"]>> ELSE findings

\* The checks made of a signal and of a claim, in program order.
SignalChecks == <<[code |-> "latency", severity |-> "degraded"],
                  [code |-> "errors", severity |-> "critical"],
                  [code |-> "queue", severity |-> "degraded"],
                  [code |-> "heartbeat", severity |-> "blocked"]>>

ClaimChecks == <<[code |-> "field_missing", severity |-> "blocked"],
                 [code |-> "duration_zero", severity |-> "blocked"],
                 [code |-> "speedup", severity |-> "critical"],
                 [code |-> "false_hits", severity |-> "blocked"],
                 [code |-> "ir_hash_format", severity |-> "blocked"],
                 [code |-> "artifact_digest_format", severity |-> "blocked"]>>

Failed(checks, codes) ==
  FlattenSeq([n \in DOMAIN checks |-> IF checks[n].code \in codes THEN <<checks[n]>> ELSE <<>>])

OpsFindings(signals) ==
  IF signals = <<>> THEN <<[code |-> "signals_missing", severity |-> "blocked"]>>
  ELSE OrElse(FlattenSeq([n \in DOMAIN signals |-> Failed(SignalChecks, signals[n])]),
              "ops.healthy")

MigrationFindings(m) ==
  (IF m.keyed THEN <<>> ELSE <<[code |-> "idempotency_missing", severity |-> "blocked"]>>)
    \o (IF m.undo # Blank THEN <<>> ELSE <<[code |-> "rollback_missing", severity |-> "blocked"]>>)

\* The rings of a plan made by plan_upgrade are always the ordered ones.
UpgradeFindings(u) ==
  OrElse((IF u.noop THEN <<[code |-> "noop_upgrade", severity |-> "warning"]>> ELSE <<>>)
           \o (IF u.migrations = <<>>
               THEN <<[code |-> "migrations_missing", severity |-> "blocked"]>> ELSE <<>>)
           \o FlattenSeq([n \in DOMAIN u.migrations |-> MigrationFindings(u.migrations[n])]),
         "lifecycle.valid")

\* One finding per required label that no evidence record has.
BundleFindings(labels) ==
  OrElse(Failed([n \in DOMAIN Required |-> [code |-> Required[n], severity |-> "blocked"]],
                Labels \ labels), "compliance.complete")

\* Mutant: the rollback runs in the order of the upgrade.
RollbackForward(u) ==
  IF u.migrations = <<>> THEN <<"hold rollout">>
  ELSE [n \in DOMAIN u.migrations |-> u.migrations[n].undo]

RollbackSteps(u) ==
  IF u.migrations = <<>> THEN <<"hold rollout">>
  ELSE [n \in DOMAIN u.migrations |-> u.migrations[Len(u.migrations) + 1 - n].undo]

-----------------------------------------------------------------------------
(* Tenant policy.                                                          *)

Permitted(role) ==
  CASE role = "viewer" -> {"read_evidence", "read_replay"}
    [] role = "auditor" -> {"read_evidence", "export_compliance", "read_replay"}
    [] role = "operator" -> {"read_evidence", "plan_upgrade", "plan_rollback", "read_replay"}
    [] role = "admin" -> TenantActions \ {"apply_upgrade"}
    [] role = "break_glass" -> TenantActions

\* Mutant: isolation is not asked of the roles that see everything.
DeniedByBroad(in) ==
  {n \in 1..5 :
     CASE n = 1 -> in.actor = Blank
       [] n = 2 -> in.resource # in.tenant /\ in.role \notin {"admin", "break_glass"}
       [] n = 3 -> in.usage > in.quota
       [] n = 4 -> in.role = "break_glass" /\ ~ in.ticket
       [] n = 5 -> in.action \notin Permitted(in.role)}

\* The gates the input fails; the first of them gives the answer.
DeniedBy(in) ==
  {n \in 1..5 :
     CASE n = 1 -> in.actor = Blank
       [] n = 2 -> in.resource # in.tenant
       [] n = 3 -> in.usage > in.quota
       [] n = 4 -> in.role = "break_glass" /\ ~ in.ticket
       [] n = 5 -> in.action \notin Permitted(in.role)}

Denial(in) == DenialCodes[CHOOSE n \in DeniedBy(in) : \A k \in DeniedBy(in) : n <= k]

-----------------------------------------------------------------------------
VARIABLES
  clock,   \* seconds since the epoch, as the system has it
  caller,  \* who drives the operations
  as,      \* whom the kernel's run is for
  step,    \* the kernel's next call
  ledger,  \* receipts, in order
  docs     \* history: the documents handed out

vars == <<clock, caller, as, step, ledger, docs>>

\* A denied decision has no receipt.
NoReceipt == [kind |-> "none"]
NoPlan == [noop |-> FALSE, migrations |-> <<>>]

\* receipt: the one that was appended; the document carries its id.
Document == [kind : Kinds, tenant : Tenants, actor : Actors, at : Nat,
             receipt : Receipt \cup {NoReceipt}, report : Report, plan : Upgrade,
             steps : Seq(Texts \cup {Blank}),
             cites : SUBSET (Labels \X (Receipt \cup {NoReceipt}))]

Init ==
  /\ clock = 0
  /\ caller \in Callers
  /\ as \in Principals
  /\ caller = "services" => as = CHOOSE p \in Principals : TRUE
  /\ step = 0
  /\ ledger = <<>>
  /\ docs = {}

\* The clock may be set to any time, before the epoch too.
Tick ==
  /\ \E t \in -1..MaxClock : t # clock /\ clock' = t
  /\ UNCHANGED <<caller, as, step, ledger, docs>>

\* Mutant: a time before the epoch is stamped as it is.
NowSigned == clock

Now == IF clock < 0 THEN 0 ELSE clock

NewReceipt(p, kind, subject, evidence) ==
  [tenant |-> p.tenant, kind |-> kind, actor |-> p.actor, subject |-> subject,
   evidence |-> evidence, at |-> Now]

\* The fields joined by the separator, none of them escaped.
Canonical(r) ==
  <<r.tenant, r.kind>> \o Words[r.actor] \o Words[r.subject] \o <<r.evidence, r.at>>

\* Mutant: the digest leaves out the second.
IdTimeless(r) == Digest(Canonical([r EXCEPT !.at = 0]))

Id(r) == Digest(Canonical(r))

\* The first receipt with that id.
Find(id) ==
  LET hits == {n \in DOMAIN ledger : Id(ledger[n]) = id}
  IN  IF hits = {} THEN NoReceipt
      ELSE ledger[CHOOSE n \in hits : \A k \in hits : n <= k]

\* Every receipt has evidence and names its actor.
Validate == \A n \in DOMAIN ledger : ledger[n].evidence # {} /\ ledger[n].actor # Blank

Doc(r, receipt, report) ==
  [kind |-> r.kind, tenant |-> r.tenant, actor |-> r.actor, at |-> r.at, receipt |-> receipt,
   report |-> report, plan |-> NoPlan, steps |-> <<>>, cites |-> {}]

\* Append the receipt, hand out the document.
Issue(r, doc) ==
  /\ ledger' = Append(ledger, r)
  /\ docs' = docs \cup {doc}

-----------------------------------------------------------------------------
(* The operations.                                                         *)

Allow(in) ==
  LET r == NewReceipt(in, "tenant_decision", in.action, {in.role, "allow"})
  IN  /\ DeniedBy(in) = {}
      /\ Issue(r, Doc(r, r, ReportOf(<<[code |-> "tenant.allowed", severity |-> "info"]>>)))

\* A denial leaves no receipt.
Deny(in) ==
  LET r == NewReceipt(in, "tenant_decision", in.action, {})
  IN  /\ DeniedBy(in) # {}
      /\ docs' = docs \cup
           {Doc(r, NoReceipt, ReportOf(<<[code |-> Denial(in), severity |-> "blocked"]>>))}
      /\ UNCHANGED ledger

Decide(in) == Allow(in) \/ Deny(in)

\* Mutant: the receipt is written before the signals are looked at.
EvaluateEarly(p, signals) ==
  LET r == NewReceipt(p, "operation", "ops-evaluation", {NoFindings.state})
  IN  Issue(r, Doc(r, r, ReportOf(OpsFindings(signals))))

Evaluate(p, signals) ==
  LET report == ReportOf(OpsFindings(signals))
      r == NewReceipt(p, "operation", "ops-evaluation", {report.state})
  IN  Issue(r, Doc(r, r, report))

PlanUpgrade(p, u) ==
  LET r == NewReceipt(p, "upgrade_plan", "phase11-upgrade", {"versions"})
  IN  Issue(r, [Doc(r, r, ReportOf(UpgradeFindings(u))) EXCEPT !.plan = u])

PlanRollback(p, u) ==
  LET r == NewReceipt(p, "rollback_plan", "phase11-rollback", {"target"})
  IN  Issue(r, [Doc(r, r, NoFindings) EXCEPT !.plan = u, !.steps = RollbackSteps(u)])

VerifyClaim(p, name, faults) ==
  LET report == ReportOf(OrElse(Failed(ClaimChecks, faults), "replay.verified"))
      r == NewReceipt(p, "replay_verification", name, {"digest", report.state})
  IN  Issue(r, Doc(r, r, report))

Export(p, cites) ==
  LET labels == {c[1] : c \in cites}
      r == NewReceipt(p, "compliance_export", "phase11-compliance-export", labels)
  IN  Issue(r, [Doc(r, r, ReportOf(BundleFindings(labels))) EXCEPT !.cites = cites])

-----------------------------------------------------------------------------
(* The kernel.                                                             *)

KernelInput == [tenant |-> as.tenant, resource |-> as.tenant, actor |-> as.actor,
                role |-> "auditor", action |-> "export_compliance",
                usage |-> 0, quota |-> 1, ticket |-> FALSE]

\* The document of that kind of the kernel's run.
Its(kind) == CHOOSE d \in docs : d.kind = kind

KindOf(label) ==
  CASE label \in {"rbac_decision", "tenant_policy"} -> "tenant_decision"
    [] label = "upgrade_plan" -> "upgrade_plan"
    [] label = "rollback_plan" -> "rollback_plan"
    [] label \in {"ops_plan", "ops_report"} -> "operation"
    [] label = "replay_verdict" -> "replay_verification"

\* A denied decision is cited too, by its finding code, as evidence.
KernelCites == {<<l, Its(KindOf(l)).receipt>> : l \in Labels}

\* Mutant: the tenant decision is not merged into the whole.
KernelFindingsSansTenant ==
  Its("operation").report.findings \o Its("compliance_export").report.findings
    \o Its("upgrade_plan").report.findings \o Its("replay_verification").report.findings

KernelFindings ==
  Its("tenant_decision").report.findings \o Its("operation").report.findings
    \o Its("compliance_export").report.findings \o Its("upgrade_plan").report.findings
    \o Its("replay_verification").report.findings

\* Ready when nothing worse than info was found.
Conclude ==
  LET merged == KernelFindings
      found == IF \A n \in DOMAIN merged : merged[n].severity = "info"
               THEN Append(merged, [code |-> "phase11.ready", severity |-> "info"])
               ELSE merged
      r == NewReceipt(as, "readiness", "phase11-readiness",
                      {ReportOf(found).state})
  IN  Issue(r, Doc(r, r, Push(ReportOf(found),
                                  [code |-> "readiness_receipt", severity |-> "info"])))

KernelStep ==
  /\ caller = "kernel"
  /\ step' = step + 1
  /\ UNCHANGED <<clock, caller, as>>
  /\ \/ step = 0 /\ Decide(KernelInput)
     \/ step = 1 /\ Evaluate(as, <<{}, {}, {}>>)
     \/ step = 2 /\ PlanUpgrade(as, KernelUpgrade)
     \/ step = 3 /\ PlanRollback(as, Its("upgrade_plan").plan)
     \/ step = 4 /\ VerifyClaim(as, "bench_phase11_fixture", {})
     \/ step = 5 /\ Export(as, KernelCites)
     \/ step = 6 /\ Conclude

\* Services make the calls in any order, for any tenant and actor.
ServiceCall ==
  /\ caller = "services"
  /\ Len(ledger) < MaxCalls /\ Cardinality(docs) < MaxCalls
  /\ UNCHANGED <<clock, caller, as, step>>
  /\ \/ \E in \in PolicyInputs : Decide(in)
     \/ \E p \in Principals :
          \/ \E signals \in SignalLists : Evaluate(p, signals)
          \/ \E u \in Upgrades : PlanUpgrade(p, u)
          \/ \E d \in docs : d.kind = "upgrade_plan" /\ PlanRollback(p, d.plan)
          \/ \E name \in ClaimNames, faults \in Claims : VerifyClaim(p, name, faults)
          \/ \E d \in docs, labels \in LabelSets : Export(p, {<<l, d.receipt>> : l \in labels})

Next == Tick \/ ServiceCall \/ KernelStep

Spec == Init /\ [][Next]_vars

-----------------------------------------------------------------------------
(* Properties.                                                             *)

\* Every variable has its type; whatever the clock shows, receipts are
\* stamped with a natural number of seconds (json.rs:5-11).
TypeOK ==
  /\ clock \in Int
  /\ caller \in Callers
  /\ as \in Principals
  /\ step \in 0..7
  /\ ledger \in Seq(Receipt)
  /\ docs \subseteq Document

\* r and s can be told apart by their ids if they differ: no text in them has
\* a separator, and their digests do not collide.
Separable(r, s) ==
  /\ \A t \in {r.actor, r.subject, s.actor, s.subject} : Len(Words[t]) = 1
  /\ Digest(Canonical(r)) = Digest(Canonical(s)) => Canonical(r) = Canonical(s)

\* The ledger accounts for what was handed out: a denied decision has no
\* receipt; every other document has one in the ledger, of its tenant, kind,
\* actor and second and recording its state, its id finds a receipt, and that
\* is its own unless ids cannot tell the two apart (audit.rs:47-78, 111-125,
\* tenant.rs:135-188).  Every receipt belongs to a document.
LedgerAccounts ==
  /\ \A d \in docs :
       IF d.kind = "tenant_decision" /\ d.report.state = "blocked" THEN d.receipt = NoReceipt
       ELSE LET s == d.receipt
                r == Find(Id(s))
            IN  /\ \E n \in DOMAIN ledger : ledger[n] = s
                /\ s.tenant = d.tenant /\ s.kind = d.kind /\ s.actor = d.actor /\ s.at = d.at
                /\ s.kind \in {"operation", "replay_verification", "readiness"} =>
                     d.report.state \in s.evidence
                /\ r # NoReceipt
                /\ Separable(r, s) => r = s
  /\ \A n \in DOMAIN ledger : \E d \in docs : d.receipt = ledger[n]

\* However the findings were pushed, a report's state is that of its worst
\* one, so the mutation gate is open exactly while nothing fails closed
\* (report.rs:82-102, severity.rs:26-55, ops.rs:237-239).
StateIsWorst ==
  \A d \in docs :
    /\ d.report.state = FromSeverity(Worst(d.report.findings))
    /\ MutationGate(d.report.state) <=>
         \A n \in DOMAIN d.report.findings : ~ FailsClosed(d.report.findings[n].severity)

Ready(d) == \E n \in DOMAIN d.report.findings : d.report.findings[n].code = "phase11.ready"

\* What is called ready holds up: the export was allowed, the ledger
\* validates, and each label the controls require is backed by a receipt of
\* the right kind, tenant and actor (kernel.rs:42-178).
ReadySound ==
  \A d \in docs : d.kind = "readiness" /\ Ready(d) =>
    /\ Its("tenant_decision").receipt # NoReceipt
    /\ Validate
    /\ \A l \in Labels : \E c \in Its("compliance_export").cites :
         /\ c[1] = l
         /\ \E n \in DOMAIN ledger : ledger[n] = c[2]
         /\ c[2].kind = KindOf(l) /\ c[2].tenant = d.tenant /\ c[2].actor = d.actor

\* What is left of the migrations when a rollback step has run: a step takes
\* back the migration made last, if it is that one's, and a blank one takes
\* back nothing.
TakenBack(made, s) ==
  IF made # <<>> /\ s # Blank /\ made[Len(made)].undo = s
  THEN SubSeq(made, 1, Len(made) - 1) ELSE made

\* A rollback plan takes back the migrations of the upgrade it was made from,
\* newest first, and stops short only at one that is not reversible; no
\* report on such an upgrade opens the mutation gate (lifecycle.rs:34-37,
\* 87-102, 190-218, ops.rs:237-239).
RollbackUndoes ==
  \A d \in docs : d.kind = "rollback_plan" =>
    LET left == FoldLeft(TakenBack, d.plan.migrations, d.steps)
    IN  left # <<>> =>
          /\ left[Len(left)].undo = Blank
          /\ \A e \in docs : e.kind = "upgrade_plan" /\ e.plan = d.plan =>
               ~ MutationGate(e.report.state)
=============================================================================

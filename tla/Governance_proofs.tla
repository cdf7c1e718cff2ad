-------------------------- MODULE Governance_proofs --------------------------
(***************************************************************************)
(* Theorems about Governance, for whatever the services ask, however long  *)
(* the ledger and the lists of findings grow.                              *)
(***************************************************************************)
EXTENDS Governance, SequenceTheorems, WellFoundedInduction, TLAPS

-----------------------------------------------------------------------------
(* Induction over the numbers, stated of sets.                             *)

LEMMA Least ==
  ASSUME NEW T, T \subseteq Nat, T # {}
  PROVE  \E m \in T : \A n \in T : m <= n
<1>1. PICK R : R = {ss \in Nat \X Nat : ss[1] < ss[2]}
  OBVIOUS
<1>2. IsWellFoundedOn(R, Nat)
  BY <1>1, NatLessThanWellFounded DEF OpToRel
<1>3. PICK m \in T : \A n \in T : <<n, m>> \notin R
  BY <1>2, WFMin
<1>4. \A n \in T : ~ (n < m)
  BY <1>1, <1>3
<1> QED
  BY <1>4

LEMMA Ascends ==
  ASSUME NEW S, 0 \in S, \A n \in Nat : n \in S => n + 1 \in S
  PROVE  \A n \in Nat : n \in S
<1> SUFFICES ASSUME NEW n \in Nat, n \notin S PROVE FALSE
  OBVIOUS
<1>1. PICK m \in Nat \ S : \A k \in Nat \ S : m <= k
  <2>1. PICK T : T = Nat \ S
    OBVIOUS
  <2>2. \E x \in T : \A k \in T : x <= k
    BY <2>1, Least
  <2> QED
    BY <2>1, <2>2
<1>2. m # 0 /\ m - 1 \in Nat
  BY <1>1
<1>3. m - 1 \in S
  BY <1>1, <1>2
<1> QED
  BY <1>2, <1>3

LEMMA MaxIs ==
  ASSUME NEW k \in Nat, NEW s \in SUBSET (1..k), s # {}
  PROVE  Max(s) \in s /\ \A y \in s : y <= Max(s)
<1>1. PICK T : T = {k - x : x \in s}
  OBVIOUS
<1>2. T \subseteq Nat /\ T # {}
  <2>1. \A x \in s : x \in 1..k
    OBVIOUS
  <2>2. \A x \in 1..k : k - x \in Nat
    OBVIOUS
  <2> QED
    BY <1>1, <2>1, <2>2
<1>3. PICK m \in T : \A n \in T : m <= n
  BY <1>2, Least
<1>4. PICK x \in s : m = k - x
  BY <1>1, <1>3
<1>5. \A y \in s : x >= y
  BY <1>1, <1>3, <1>4
<1>6. Max(s) \in s /\ \A y \in s : Max(s) >= y
  BY <1>5, Zenon DEF Max
<1> QED
  BY <1>6

-----------------------------------------------------------------------------
(* What a fold over a sequence computes, step by step.                     *)

LEMMA PushTable ==
  ASSUME NEW seq, NEW n \in Nat
  PROVE  \E it : it = [s \in SUBSET (1..n) |->
                         IF s = {} THEN NoFindings ELSE Push(it[s \ {Max(s)}], seq[Max(s)])]
<1> DEFINE Is(it, k) == it = [s \in SUBSET (1..k) |->
                         IF s = {} THEN NoFindings ELSE Push(it[s \ {Max(s)}], seq[Max(s)])]
           S == {k \in Nat : \E it : Is(it, k)}
<1>1. 0 \in S
  <2>1. PICK it : it = [s \in SUBSET (1..0) |-> NoFindings]
    OBVIOUS
  <2>2. \A s \in SUBSET (1..0) : s = {}
    OBVIOUS
  <2>3. Is(it, 0)
    BY <2>1, <2>2
  <2> QED
    BY <2>3
<1>2. ASSUME NEW k \in Nat, k \in S PROVE k + 1 \in S
  <2>1. PICK it : Is(it, k)
    BY <1>2
  <2>2. PICK jt : jt = [s \in SUBSET (1..(k + 1)) |->
                          IF k + 1 \in s THEN Push(it[s \ {k + 1}], seq[k + 1]) ELSE it[s]]
    OBVIOUS
  <2>3. ASSUME NEW s \in SUBSET (1..(k + 1)), s # {}
        PROVE  jt[s] = Push(jt[s \ {Max(s)}], seq[Max(s)])
    <3>0. k + 1 \in Nat
      OBVIOUS
    <3>1. Max(s) \in s /\ \A y \in s : y <= Max(s)
      BY <2>3, <3>0, MaxIs
    <3>2. PICK x \in s : x = Max(s) /\ \A y \in s : y <= x
      BY <3>1
    <3>3. CASE k + 1 \in s
      <4>1. x = k + 1
        <5>1. x \in 1..(k + 1) /\ k + 1 <= x
          BY <3>2, <3>3
        <5> QED
          BY <5>1
      <4>2. s \ {k + 1} \in SUBSET (1..(k + 1)) /\ k + 1 \notin s \ {k + 1}
        OBVIOUS
      <4>3. jt[s \ {k + 1}] = it[s \ {k + 1}]
        BY <2>2, <4>2
      <4>4. jt[s] = Push(it[s \ {k + 1}], seq[k + 1])
        BY <2>2, <3>3
      <4> QED
        BY <3>2, <4>1, <4>3, <4>4
    <3>4. CASE k + 1 \notin s
      <4>1. s \in SUBSET (1..k)
        BY <3>4
      <4>2. s \ {x} \in SUBSET (1..k) /\ s \ {x} \in SUBSET (1..(k + 1))
            /\ k + 1 \notin s \ {x}
        BY <4>1, <3>4
      <4>3. jt[s \ {x}] = it[s \ {x}] /\ jt[s] = it[s]
        BY <2>2, <3>4, <4>2
      <4>4. it[s] = Push(it[s \ {x}], seq[x])
        BY <2>1, <2>3, <3>2, <4>1
      <4> QED
        BY <3>2, <4>3, <4>4
    <3> QED
      BY <3>3, <3>4
  <2>4. jt[{}] = NoFindings
    BY <2>1, <2>2
  <2>5. jt = [s \in SUBSET (1..(k + 1)) |-> jt[s]]
    BY <2>2
  <2>6. Is(jt, k + 1)
    BY <2>3, <2>4, <2>5
  <2>7. k + 1 \in Nat
    OBVIOUS
  <2> HIDE DEF Is
  <2> QED
    BY <2>6, <2>7
<1>3. n \in S
  <2> HIDE DEF S
  <2> QED
    BY <1>1, <1>2, Ascends
<1> QED
  BY <1>3

\* The states of a fold over seq from its base to its result.
LEMMA PushRuns ==
  ASSUME NEW seq \in Seq(Finding)
  PROVE  \E g : /\ g[0] = NoFindings
                /\ \A k \in 1..Len(seq) : g[k] = Push(g[k - 1], seq[k])
                /\ ReportOf(seq) = g[Len(seq)]
<1>1. Len(seq) \in Nat /\ DOMAIN seq = 1..Len(seq)
  OBVIOUS
<1>2. PICK n \in Nat : n = Len(seq) /\ DOMAIN seq = 1..n
  BY <1>1
<1>3. \E it : it = [s \in SUBSET (DOMAIN seq) |->
                      IF s = {} THEN NoFindings ELSE Push(it[s \ {Max(s)}], seq[Max(s)])]
  <2>1. \E it : it = [s \in SUBSET (1..n) |->
                      IF s = {} THEN NoFindings ELSE Push(it[s \ {Max(s)}], seq[Max(s)])]
    BY PushTable
  <2>2. DOMAIN seq = 1..n
    BY <1>2
  <2> QED
    BY <2>1, <2>2, Zenon
<1>4. PICK it : /\ it = [s \in SUBSET (DOMAIN seq) |->
                      IF s = {} THEN NoFindings ELSE Push(it[s \ {Max(s)}], seq[Max(s)])]
                /\ ReportOf(seq) = it[DOMAIN seq]
  BY <1>3 DEF ReportOf, FoldLeft, MapThenFoldSet, Max
<1>5. PICK g : g = [k \in 0..n |-> it[1..k]]
  OBVIOUS
<1>6. g[0] = NoFindings
  <2>1. 1..0 = {} /\ {} \in SUBSET (DOMAIN seq) /\ 0 \in 0..n
    OBVIOUS
  <2> QED
    BY <1>4, <1>5, <2>1
<1>7. ASSUME NEW k \in 1..n PROVE g[k] = Push(g[k - 1], seq[k])
  <2>1. k \in Nat /\ 1..k \in SUBSET (1..k) /\ 1..k # {} /\ k \in 1..k
    OBVIOUS
  <2>2. Max(1..k) \in 1..k /\ k <= Max(1..k)
    BY <2>1, MaxIs
  <2>3. Max(1..k) = k
    BY <2>2
  <2>4. (1..k) \ {k} = 1..(k - 1) /\ 1..k \in SUBSET (DOMAIN seq)
    BY <1>2
  <2>5. it[1..k] = Push(it[1..(k - 1)], seq[k])
    BY <1>4, <2>1, <2>3, <2>4
  <2>6. k \in 0..n /\ k - 1 \in 0..n
    OBVIOUS
  <2> QED
    BY <1>5, <2>5, <2>6
<1>8. ReportOf(seq) = g[n]
  BY <1>2, <1>4, <1>5
<1> QED
  BY <1>2, <1>6, <1>7, <1>8

-----------------------------------------------------------------------------
(* Severities and reports.                                                 *)

LEMMA Ranks ==
  /\ Severity = {"info", "warning", "degraded", "critical", "blocked"}
  /\ Rank("info") = 1 /\ Rank("warning") = 2 /\ Rank("degraded") = 3
  /\ Rank("critical") = 4 /\ Rank("blocked") = 5
<1>1. /\ DOMAIN Severities = 1..5
      /\ Severities[1] = "info" /\ Severities[2] = "warning" /\ Severities[3] = "degraded"
      /\ Severities[4] = "critical" /\ Severities[5] = "blocked"
  BY DEF Severities
<1>2. Severity = {Severities[n] : n \in 1..5}
  BY <1>1 DEF Severity, Range
<1>3. ASSUME NEW n \in 1..5 PROVE Rank(Severities[n]) = n
  <2>1. \A k \in 1..5 : Severities[k] = Severities[n] <=> k = n
    BY <1>1
  <2>2. Rank(Severities[n]) = CHOOSE k \in 1..5 : Severities[k] = Severities[n]
    BY DEF Rank
  <2>3. (CHOOSE k \in 1..5 : Severities[k] = Severities[n]) = n
    BY <2>1
  <2> QED
    BY <2>2, <2>3
<1>4. \A n \in 1..5 : n = 1 \/ n = 2 \/ n = 3 \/ n = 4 \/ n = 5
  OBVIOUS
<1>5. Severity = {"info", "warning", "degraded", "critical", "blocked"}
  BY <1>1, <1>2, <1>4
<1>6. /\ Rank(Severities[1]) = 1 /\ Rank(Severities[2]) = 2 /\ Rank(Severities[3]) = 3
      /\ Rank(Severities[4]) = 4 /\ Rank(Severities[5]) = 5
  BY <1>3
<1> QED
  BY <1>1, <1>5, <1>6

\* s is the severity of a worst finding.
WorstIs(findings, s) ==
  /\ s \in Severity
  /\ \E n \in DOMAIN findings : findings[n].severity = s
  /\ \A n \in DOMAIN findings : Rank(findings[n].severity) <= Rank(s)

LEMMA RankType ==
  ASSUME NEW s \in Severity PROVE Rank(s) \in 1..5 /\ (\A t \in Severity : Rank(s) = Rank(t) => s = t)
BY Ranks

LEMMA WorstOf ==
  ASSUME NEW findings \in Seq(Finding), NEW s, findings # <<>>, WorstIs(findings, s)
  PROVE  Worst(findings) = s
<1>1. WorstIs(findings, Worst(findings))
  <2>1. \E t \in Severity : /\ \E n \in DOMAIN findings : findings[n].severity = t
                            /\ \A n \in DOMAIN findings : Rank(findings[n].severity) <= Rank(t)
    BY DEF WorstIs
  <2> QED
    BY <2>1, Zenon DEF Worst, WorstIs
<1>2. PICK t : t = Worst(findings)
  OBVIOUS
<1>3. /\ s \in Severity /\ t \in Severity
      /\ \E n \in DOMAIN findings : findings[n].severity = s
      /\ \E n \in DOMAIN findings : findings[n].severity = t
      /\ \A n \in DOMAIN findings : Rank(findings[n].severity) <= Rank(s)
      /\ \A n \in DOMAIN findings : Rank(findings[n].severity) <= Rank(t)
  BY <1>1, <1>2 DEF WorstIs
<1>4. Rank(t) <= Rank(s) /\ Rank(s) <= Rank(t)
  BY <1>3
<1>5. Rank(s) \in 1..5 /\ Rank(t) \in 1..5
  BY <1>3, RankType
<1>6. Rank(s) = Rank(t)
  BY <1>4, <1>5
<1> QED
  BY <1>2, <1>3, <1>6, RankType

\* The report's state is that of the worst of its findings.
Judged(report) ==
  /\ report = [state |-> report.state, findings |-> report.findings]
  /\ report.findings \in Seq(Finding)
  /\ report.findings = <<>> => report.state = "healthy"
  /\ report.findings # <<>> =>
       \E s \in Severity : WorstIs(report.findings, s) /\ report.state = FromSeverity(s)

LEMMA PushJudged ==
  ASSUME NEW report, Judged(report), NEW f \in Finding
  PROVE  /\ Judged(Push(report, f))
         /\ Push(report, f).findings = Append(report.findings, f)
<1> DEFINE log == report.findings
           new == Append(log, f)
           p == Push(report, f)
<1>1. /\ new \in Seq(Finding) /\ Len(new) = Len(log) + 1 /\ Len(log) \in Nat
      /\ \A n \in 1..Len(log) : new[n] = log[n]
      /\ new[Len(log) + 1] = f
      /\ DOMAIN log = 1..Len(log)
  BY AppendProperties DEF Judged
<1>2. DOMAIN new = 1..(Len(log) + 1) /\ new # <<>>
  <2>1. PICK t : t = new
    OBVIOUS
  <2>2. t \in Seq(Finding) /\ Len(t) = Len(log) + 1 /\ Len(log) \in Nat
    BY <1>1, <2>1
  <2>3. DOMAIN t = 1..(Len(log) + 1) /\ t # <<>>
    BY <2>2
  <2> QED
    BY <2>1, <2>3
<1>3. /\ p.findings = new
      /\ p.state = IF Rank(f.severity) > Rank(Worst(log)) THEN FromSeverity(f.severity)
                   ELSE report.state
      /\ p = [state |-> p.state, findings |-> p.findings]
  BY DEF Push
<1>4. f.severity \in Severity
  BY DEF Finding
<1>5. CASE log = <<>>
  <2>1. Worst(log) = "info" /\ report.state = "healthy" /\ Len(log) = 0
    BY <1>5 DEF Worst, Judged
  <2>2. \A n \in DOMAIN new : new[n] = f
    BY <1>1, <1>2, <2>1
  <2>3. WorstIs(new, f.severity)
    BY <1>2, <1>4, <2>1, <2>2, RankType DEF WorstIs
  <2>4. p.state = FromSeverity(f.severity)
    BY <1>3, <1>4, <2>1, Ranks DEF FromSeverity
  <2> QED
    BY <1>1, <1>2, <1>3, <1>4, <2>3, <2>4 DEF Judged
<1>6. CASE log # <<>>
  <2>1. PICK s \in Severity : WorstIs(log, s) /\ report.state = FromSeverity(s)
    BY <1>6 DEF Judged
  <2>2. Worst(log) = s
    BY <1>6, <2>1, WorstOf DEF Judged
  <2>3. Rank(s) \in 1..5 /\ Rank(f.severity) \in 1..5
    BY <1>4, <2>1, RankType DEF WorstIs
  <2>4. PICK t : t = IF Rank(f.severity) > Rank(s) THEN f.severity ELSE s
    OBVIOUS
  <2>5. p.state = FromSeverity(t)
    BY <1>3, <2>1, <2>2, <2>4
  <2>6. WorstIs(new, t)
    <3>1. t \in Severity /\ Rank(s) <= Rank(t) /\ Rank(f.severity) <= Rank(t)
      BY <1>4, <2>1, <2>3, <2>4 DEF WorstIs
    <3>2. \E n \in DOMAIN new : new[n].severity = t
      <4>1. CASE t = f.severity
        BY <1>1, <1>2, <4>1
      <4>2. CASE t = s
        <5>1. PICK n \in 1..Len(log) : log[n].severity = s
          BY <1>1, <2>1 DEF WorstIs
        <5> QED
          BY <1>1, <1>2, <4>2, <5>1
      <4> QED
        BY <2>4, <4>1, <4>2
    <3>3. ASSUME NEW n \in DOMAIN new PROVE Rank(new[n].severity) <= Rank(t)
      <4>1. CASE n = Len(log) + 1
        BY <1>1, <3>1, <4>1
      <4>2. CASE n \in 1..Len(log)
        <5>1. new[n] = log[n] /\ Rank(log[n].severity) <= Rank(s)
          BY <1>1, <2>1, <4>2 DEF WorstIs
        <5>2. Rank(log[n].severity) \in 1..5
          <6>1. log[n] \in Finding
            BY <1>1, <4>2 DEF Judged
          <6> QED
            BY <6>1, RankType DEF Finding
        <5> QED
          BY <2>3, <3>1, <5>1, <5>2, RankType
      <4> QED
        BY <1>1, <1>2, <4>1, <4>2
    <3> QED
      BY <3>1, <3>2, <3>3 DEF WorstIs
  <2> QED
    BY <1>1, <1>2, <1>3, <2>5, <2>6 DEF Judged, WorstIs
<1> QED
  BY <1>3, <1>5, <1>6

\* A report of findings keeps them all, in order, and its state is that of
\* the worst.
LEMMA ReportIs ==
  ASSUME NEW seq \in Seq(Finding)
  PROVE  ReportOf(seq).findings = seq /\ Judged(ReportOf(seq))
<1>1. PICK g : /\ g[0] = NoFindings
               /\ \A k \in 1..Len(seq) : g[k] = Push(g[k - 1], seq[k])
               /\ ReportOf(seq) = g[Len(seq)]
  BY PushRuns
<1>2. PICK n \in Nat : n = Len(seq)
  OBVIOUS
<1> DEFINE S == {k \in Nat : k <= n => Judged(g[k]) /\ g[k].findings = SubSeq(seq, 1, k)}
<1>3. 0 \in S
  <2>1. /\ NoFindings.findings = <<>> /\ NoFindings.state = "healthy" /\ <<>> \in Seq(Finding)
        /\ NoFindings = [state |-> NoFindings.state, findings |-> NoFindings.findings]
    BY DEF NoFindings
  <2>2. SubSeq(seq, 1, 0) = <<>>
    BY SubSeqEmpty
  <2> QED
    BY <1>1, <2>1, <2>2 DEF Judged
<1>4. ASSUME NEW k \in Nat, k \in S PROVE k + 1 \in S
  <2>1. SUFFICES ASSUME k + 1 <= n
                 PROVE  Judged(g[k + 1]) /\ g[k + 1].findings = SubSeq(seq, 1, k + 1)
    OBVIOUS
  <2>2. Judged(g[k]) /\ g[k].findings = SubSeq(seq, 1, k)
    BY <1>4, <2>1
  <2>3. k + 1 \in 1..Len(seq) /\ k + 1 - 1 = k
    BY <1>2, <2>1
  <2>4. g[k + 1] = Push(g[k], seq[k + 1])
    <3>1. PICK j \in 1..Len(seq) : j = k + 1 /\ j - 1 = k
      BY <2>3
    <3> QED
      BY <1>1, <3>1
  <2>5. seq[k + 1] \in Finding
    BY <2>3, ElementOfSeq
  <2>6. Judged(g[k + 1]) /\ g[k + 1].findings = Append(SubSeq(seq, 1, k), seq[k + 1])
    BY <2>2, <2>4, <2>5, PushJudged
  <2>7. Append(SubSeq(seq, 1, k), seq[k + 1]) = SubSeq(seq, 1, k + 1)
    <3>1. \A i \in 1..(k + 1) : seq[i] \in Finding
      BY <1>2, <2>1, ElementOfSeq
    <3>2. PICK u : u = SubSeq(seq, 1, k)
      OBVIOUS
    <3>3. PICK v : v = SubSeq(seq, 1, k + 1)
      OBVIOUS
    <3>4. /\ u \in Seq(Finding) /\ Len(u) = k
          /\ \A i \in 1..k : u[i] = seq[i]
      <4>1. \A i \in 1..k : seq[i] \in Finding
        BY <3>1
      <4>2. /\ u \in Seq(Finding) /\ Len(u) = IF 1 <= k THEN k - 1 + 1 ELSE 0
            /\ \A i \in 1..(k - 1 + 1) : u[i] = seq[1 + i - 1]
        BY <3>2, <4>1, SubSeqProperties
      <4> QED
        BY <4>2
    <3>5. /\ v \in Seq(Finding) /\ Len(v) = k + 1
          /\ \A i \in 1..(k + 1) : v[i] = seq[i]
      <4>1. /\ v \in Seq(Finding) /\ Len(v) = IF 1 <= k + 1 THEN k + 1 - 1 + 1 ELSE 0
            /\ \A i \in 1..(k + 1 - 1 + 1) : v[i] = seq[1 + i - 1]
        BY <3>1, <3>3, SubSeqProperties
      <4> QED
        BY <4>1
    <3>6. PICK w : w = Append(u, seq[k + 1])
      OBVIOUS
    <3>7. /\ w \in Seq(Finding) /\ Len(w) = k + 1
          /\ \A i \in 1..k : w[i] = u[i]
          /\ w[k + 1] = seq[k + 1]
      BY <2>5, <3>4, <3>6, AppendProperties
    <3>8. \A i \in 1..(k + 1) : w[i] = v[i]
      BY <3>4, <3>5, <3>7
    <3>9. w = v
      BY <3>5, <3>7, <3>8, SeqEqual
    <3> QED
      BY <3>2, <3>3, <3>6, <3>9
  <2> QED
    BY <2>6, <2>7
<1>5. n \in S
  <2> HIDE DEF S
  <2> QED
    BY <1>3, <1>4, Ascends
<1>6. SubSeq(seq, 1, n) = seq
  BY <1>2, SubSeqFull
<1> QED
  BY <1>1, <1>2, <1>5, <1>6

\* A report that is judged has the state of its worst finding, and closes
\* the mutation gate exactly when something fails closed.
LEMMA JudgedIs ==
  ASSUME NEW report, Judged(report)
  PROVE  /\ report.state = FromSeverity(Worst(report.findings))
         /\ report \in Report
         /\ MutationGate(report.state) <=>
              \A n \in DOMAIN report.findings : ~ FailsClosed(report.findings[n].severity)
<1>1. CASE report.findings = <<>>
  <2>1. report.state = "healthy" /\ Worst(report.findings) = "info"
    BY <1>1 DEF Judged, Worst
  <2>2. report \in Report
    BY <2>1 DEF Judged, HealthState, Report
  <2>3. DOMAIN report.findings = {}
    BY <1>1
  <2> QED
    BY <2>1, <2>2, <2>3 DEF FromSeverity, MutationGate
<1>2. CASE report.findings # <<>>
  <2>1. PICK s \in Severity : WorstIs(report.findings, s) /\ report.state = FromSeverity(s)
    BY <1>2 DEF Judged
  <2>2. Worst(report.findings) = s
    BY <1>2, <2>1, WorstOf DEF Judged
  <2>3. s \in {"info", "warning", "degraded", "critical", "blocked"}
    BY <2>1, Ranks DEF WorstIs
  <2>4. ASSUME NEW n \in DOMAIN report.findings, FailsClosed(report.findings[n].severity)
        PROVE  FailsClosed(s)
    <3>1. Rank(report.findings[n].severity) <= Rank(s)
      BY <2>1 DEF WorstIs
    <3> QED
      BY <2>3, <2>4, <3>1, Ranks DEF FailsClosed
  <2>5. PICK n \in DOMAIN report.findings : report.findings[n].severity = s
    BY <2>1 DEF WorstIs
  <2>6. MutationGate(report.state) <=> ~ FailsClosed(s)
    BY <2>1, <2>3 DEF MutationGate, FromSeverity, FailsClosed
  <2> QED
    BY <2>1, <2>2, <2>3, <2>4, <2>5, <2>6 DEF FromSeverity, HealthState, Report, Judged
<1> QED
  BY <1>1, <1>2

-----------------------------------------------------------------------------
(* The findings of the operations.                                         *)

\* x is an element of the sequence s.
Within(x, s) == \E n \in DOMAIN s : s[n] = x

LEMMA WithinConcat ==
  ASSUME NEW S, NEW a \in Seq(S), NEW b \in Seq(S), NEW x, Within(x, a) \/ Within(x, b)
  PROVE  Within(x, a \o b)
<1>1. PICK c : c = a \o b
  OBVIOUS
<1>2. PICK j \in Nat, k \in Nat : j = Len(a) /\ k = Len(b)
  OBVIOUS
<1>3. /\ c \in Seq(S) /\ Len(c) = j + k
      /\ \A i \in 1..j : c[i] = a[i]
      /\ \A i \in 1..k : c[i + j] = b[i]
  BY <1>1, <1>2, ConcatProperties
<1>4. DOMAIN a = 1..j /\ DOMAIN b = 1..k /\ DOMAIN c = 1..(j + k)
  BY <1>2, <1>3
<1>5. CASE Within(x, a)
  <2>1. PICK i \in 1..j : a[i] = x
    BY <1>4, <1>5 DEF Within
  <2>2. i \in 1..(j + k) /\ c[i] = x
    BY <1>3, <2>1
  <2> QED
    BY <1>1, <1>4, <2>2 DEF Within
<1>6. CASE Within(x, b)
  <2>1. PICK i \in 1..k : b[i] = x
    BY <1>4, <1>6 DEF Within
  <2>2. i + j \in 1..(j + k) /\ c[i + j] = x
    BY <1>3, <2>1
  <2> QED
    BY <1>1, <1>4, <2>2 DEF Within
<1> QED
  BY <1>5, <1>6

\* What is flattened has the elements of every part.
LEMMA Flattens ==
  ASSUME NEW S, NEW seqs \in Seq(Seq(S))
  PROVE  /\ FlattenSeq(seqs) \in Seq(S)
         /\ \A i \in DOMAIN seqs : \A x : Within(x, seqs[i]) => Within(x, FlattenSeq(seqs))
<1>1. PICK n \in Nat : n = Len(seqs)
  OBVIOUS
<1>e. \A i \in 1..n : seqs[i] \in Seq(S)
  BY <1>1
<1>2. CASE n = 0
  <2>1. seqs = <<>>
    BY <1>1, <1>2, EmptySeq
  <2>2. Len(seqs) = 0
    BY <1>1, <1>2
  <2>3. FlattenSeq(seqs) = seqs
    BY <2>2, Zenon DEF FlattenSeq
  <2>4. DOMAIN seqs = {}
    BY <2>1
  <2> QED
    BY <2>1, <2>3, <2>4, EmptySeq
<1>3. CASE n # 0
  <2> DEFINE Is(fl, k) == fl = [i \in 1..k |-> IF i = 1 THEN seqs[i] ELSE fl[i - 1] \o seqs[i]]
             E == {k \in Nat : \E fl : Is(fl, k)}
  <2>1. 0 \in E
    <3>1. PICK fl : fl = [i \in 1..0 |-> seqs[i]]
      OBVIOUS
    <3>2. Is(fl, 0)
      BY <3>1
    <3> QED
      BY <3>2
  <2>2. ASSUME NEW k \in Nat, k \in E PROVE k + 1 \in E
    <3>1. PICK fl : Is(fl, k)
      BY <2>2
    <3>2. PICK gl : gl = [i \in 1..(k + 1) |->
                            IF i = k + 1 THEN (IF i = 1 THEN seqs[i] ELSE fl[k] \o seqs[i])
                            ELSE fl[i]]
      OBVIOUS
    <3>3. ASSUME NEW i \in 1..(k + 1)
          PROVE  gl[i] = IF i = 1 THEN seqs[i] ELSE gl[i - 1] \o seqs[i]
      <4>1. CASE i = k + 1
        <5>1. i # 1 => k \in 1..(k + 1) /\ k # k + 1 /\ i - 1 = k
          BY <4>1
        <5>2. i # 1 => gl[i - 1] = fl[k]
          BY <3>2, <5>1
        <5> QED
          BY <3>2, <4>1, <5>2
      <4>2. CASE i # k + 1
        <5>1. i \in 1..k /\ i - 1 # k + 1
          BY <4>2
        <5>2. fl[i] = IF i = 1 THEN seqs[i] ELSE fl[i - 1] \o seqs[i]
          BY <3>1, <5>1
        <5>3. gl[i] = fl[i]
          BY <3>2, <4>2
        <5>4. i # 1 => gl[i - 1] = fl[i - 1]
          <6>1. i # 1 => i - 1 \in 1..(k + 1)
            BY <5>1
          <6> QED
            BY <3>2, <5>1, <6>1
        <5> QED
          BY <5>2, <5>3, <5>4
      <4> QED
        BY <4>1, <4>2
    <3>4. gl = [i \in 1..(k + 1) |-> gl[i]]
      BY <3>2
    <3>5. Is(gl, k + 1)
      BY <3>3, <3>4
    <3>6. k + 1 \in Nat
      OBVIOUS
    <3> HIDE DEF Is
    <3> QED
      BY <3>5, <3>6
  <2>3. n \in E
    <3> HIDE DEF E
    <3> QED
      BY <2>1, <2>2, Ascends
  <2>4. PICK fl : /\ fl = [i \in 1..Len(seqs) |->
                             IF i = 1 THEN seqs[i] ELSE fl[i - 1] \o seqs[i]]
                  /\ FlattenSeq(seqs) = fl[Len(seqs)]
    <3>1. \E fl : fl = [i \in 1..Len(seqs) |->
                          IF i = 1 THEN seqs[i] ELSE fl[i - 1] \o seqs[i]]
      BY <1>1, <2>3
    <3>2. Len(seqs) # 0
      BY <1>1, <1>3
    <3> QED
      BY <3>1, <3>2 DEF FlattenSeq
  <2>5. \A i \in 1..n : fl[i] = IF i = 1 THEN seqs[i] ELSE fl[i - 1] \o seqs[i]
    BY <1>1, <2>4
  <2> DEFINE T == {k \in Nat : k \in 1..n =>
                     /\ fl[k] \in Seq(S)
                     /\ \A i \in 1..k : \A x : Within(x, seqs[i]) => Within(x, fl[k])}
  <2>6. 0 \in T
    OBVIOUS
  <2>7. ASSUME NEW k \in Nat, k \in T PROVE k + 1 \in T
    <3>1. SUFFICES ASSUME k + 1 \in 1..n
                   PROVE  /\ fl[k + 1] \in Seq(S)
                          /\ \A i \in 1..(k + 1) : \A x :
                               Within(x, seqs[i]) => Within(x, fl[k + 1])
      OBVIOUS
    <3>2. PICK j \in 1..n : j = k + 1 /\ (k # 0 => k \in 1..n) /\ j - 1 = k
      BY <3>1
    <3>3. fl[j] = IF j = 1 THEN seqs[j] ELSE fl[k] \o seqs[j]
      BY <2>5, <3>2
    <3>4. j # 1 => /\ fl[k] \in Seq(S)
                   /\ \A i \in 1..k : \A x : Within(x, seqs[i]) => Within(x, fl[k])
      BY <2>7, <3>2
    <3>5. seqs[j] \in Seq(S)
      BY <1>e
    <3>6. fl[j] \in Seq(S)
      BY <3>2, <3>3, <3>4, <3>5, ConcatProperties
    <3>7. ASSUME NEW i \in 1..j, NEW x, Within(x, seqs[i]) PROVE Within(x, fl[j])
      <4>1. CASE j = 1
        <5>1. i = j
          BY <4>1
        <5> QED
          BY <3>3, <3>7, <4>1, <5>1
      <4>2. CASE j # 1
        <5>1. Within(x, fl[k]) \/ Within(x, seqs[j])
          <6>1. i = j \/ i \in 1..k
            BY <3>2
          <6> QED
            BY <3>4, <3>7, <4>2, <6>1
        <5>2. Within(x, fl[k] \o seqs[j])
          BY <3>4, <3>5, <4>2, <5>1, WithinConcat
        <5> QED
          BY <3>3, <4>2, <5>2
      <4> QED
        BY <4>1, <4>2
    <3> QED
      BY <3>2, <3>6, <3>7
  <2>8. n \in T
    <3> HIDE DEF T
    <3> QED
      BY <2>6, <2>7, Ascends
  <2>9. n \in 1..n
    BY <1>3
  <2>10. DOMAIN seqs = 1..n
    BY <1>1
  <2>11. fl[n] = FlattenSeq(seqs)
    BY <1>1, <2>4
  <2>12. /\ fl[n] \in Seq(S)
         /\ \A i \in 1..n : \A x : Within(x, seqs[i]) => Within(x, fl[n])
    BY <2>8, <2>9
  <2> QED
    BY <2>10, <2>11, <2>12
<1> QED
  BY <1>2, <1>3

\* The findings of every operation but the kernel's conclusion.
Plain == {f \in Finding : f.code # "phase11.ready"}

LEMMA PlainFindings ==
  ASSUME NEW seq \in Seq(Plain) PROVE seq \in Seq(Finding)
BY SeqMonotonic DEF Plain

Names == Codes \ {"phase11.ready"}

LEMMA LabelsAre ==
  Labels = {"rbac_decision", "tenant_policy", "upgrade_plan", "rollback_plan", "ops_plan",
            "ops_report", "replay_verdict"}
<1>1. /\ DOMAIN Required = 1..8
      /\ Required[1] = "rbac_decision" /\ Required[2] = "tenant_policy"
      /\ Required[3] = "upgrade_plan" /\ Required[4] = "rollback_plan"
      /\ Required[5] = "ops_plan" /\ Required[6] = "ops_report"
      /\ Required[7] = "replay_verdict" /\ Required[8] = "tenant_policy"
  BY DEF Required
<1>2. Labels = {Required[n] : n \in 1..8}
  BY <1>1 DEF Labels, Range
<1>3. 1..8 = {1, 2, 3, 4, 5, 6, 7, 8}
  OBVIOUS
<1> QED
  BY <1>1, <1>2, <1>3

LEMMA DenialsAre ==
  /\ DOMAIN DenialCodes = 1..5
  /\ \A n \in 1..5 : DenialCodes[n] \in Names
<1>1. /\ DOMAIN DenialCodes = 1..5
      /\ DenialCodes[1] = "actor_missing" /\ DenialCodes[2] = "cross_tenant_denied"
      /\ DenialCodes[3] = "quota_exceeded" /\ DenialCodes[4] = "break_glass_ticket_missing"
      /\ DenialCodes[5] = "role_denied"
  BY DEF DenialCodes
<1>2. ASSUME NEW n \in 1..5 PROVE DenialCodes[n] # "phase11.ready"
  <2>1. n \in {1, 2, 3, 4, 5}
    OBVIOUS
  <2> QED
    BY <1>1, <2>1
<1>3. \A n \in 1..5 : DenialCodes[n] \in Range(DenialCodes)
  BY <1>1 DEF Range
<1> QED
  BY <1>1, <1>2, <1>3 DEF Names, Codes

LEMMA PlainOne ==
  ASSUME NEW code \in Names, NEW severity \in Severity
  PROVE  /\ [code |-> code, severity |-> severity] \in Plain
         /\ <<[code |-> code, severity |-> severity]>> \in Seq(Plain)
<1>1. [code |-> code, severity |-> severity] \in Plain
  BY DEF Names, Plain, Finding
<1> QED
  BY <1>1

LEMMA Plains ==
  /\ "info" \in Severity /\ "warning" \in Severity /\ "degraded" \in Severity
  /\ "critical" \in Severity /\ "blocked" \in Severity
  /\ Labels \subseteq Names
  /\ {"latency", "errors", "queue", "heartbeat", "field_missing", "duration_zero",
      "speedup", "false_hits", "ir_hash_format", "artifact_digest_format"} \subseteq Names
  /\ {"signals_missing", "idempotency_missing", "rollback_missing", "noop_upgrade",
      "migrations_missing", "ops.healthy", "lifecycle.valid", "compliance.complete",
      "replay.verified", "tenant.allowed"} \subseteq Names
BY Ranks, LabelsAre DEF Names, Codes, Breaches, Faults

LEMMA FailedType ==
  ASSUME NEW checks \in Seq(Plain), NEW codes PROVE Failed(checks, codes) \in Seq(Plain)
<1>1. PICK t : t = [n \in DOMAIN checks |->
                      IF checks[n].code \in codes THEN <<checks[n]>> ELSE <<>>]
  OBVIOUS
<1>2. DOMAIN checks = 1..Len(checks) /\ Len(checks) \in Nat
  OBVIOUS
<1>3. \A n \in DOMAIN checks : checks[n] \in Plain
  OBVIOUS
<1>4. \A n \in DOMAIN checks : t[n] \in Seq(Plain)
  BY <1>1, <1>3
<1>5. t \in Seq(Seq(Plain))
  BY <1>1, <1>2, <1>4
<1> QED
  BY <1>1, <1>5, Flattens DEF Failed

LEMMA OrElseType ==
  ASSUME NEW seq \in Seq(Plain), NEW code \in Names
  PROVE  OrElse(seq, code) \in Seq(Plain)
BY PlainOne, Plains DEF OrElse

LEMMA Checks == SignalChecks \in Seq(Plain) /\ ClaimChecks \in Seq(Plain)
<1>1. /\ [code |-> "latency", severity |-> "degraded"] \in Plain
      /\ [code |-> "errors", severity |-> "critical"] \in Plain
      /\ [code |-> "queue", severity |-> "degraded"] \in Plain
      /\ [code |-> "heartbeat", severity |-> "blocked"] \in Plain
  BY Plains, PlainOne
<1>2. /\ [code |-> "field_missing", severity |-> "blocked"] \in Plain
      /\ [code |-> "duration_zero", severity |-> "blocked"] \in Plain
      /\ [code |-> "speedup", severity |-> "critical"] \in Plain
      /\ [code |-> "false_hits", severity |-> "blocked"] \in Plain
      /\ [code |-> "ir_hash_format", severity |-> "blocked"] \in Plain
      /\ [code |-> "artifact_digest_format", severity |-> "blocked"] \in Plain
  BY Plains, PlainOne
<1> QED
  BY <1>1, <1>2 DEF SignalChecks, ClaimChecks

LEMMA OpsType ==
  ASSUME NEW T, NEW signals \in Seq(T) PROVE OpsFindings(signals) \in Seq(Plain)
<1>1. CASE signals = <<>>
  <2>1. <<[code |-> "signals_missing", severity |-> "blocked"]>> \in Seq(Plain)
    BY Plains, PlainOne
  <2> QED
    BY <1>1, <2>1 DEF OpsFindings
<1>2. CASE signals # <<>>
  <2>1. PICK t : t = [n \in DOMAIN signals |-> Failed(SignalChecks, signals[n])]
    OBVIOUS
  <2>2. \A n \in DOMAIN signals : t[n] \in Seq(Plain)
    BY <2>1, Checks, FailedType
  <2>3. DOMAIN signals = 1..Len(signals) /\ Len(signals) \in Nat
    OBVIOUS
  <2>4. t \in Seq(Seq(Plain))
    BY <2>1, <2>2, <2>3
  <2>5. FlattenSeq(t) \in Seq(Plain)
    BY <2>4, Flattens
  <2>6. OpsFindings(signals) = OrElse(FlattenSeq(t), "ops.healthy")
    BY <1>2, <2>1 DEF OpsFindings
  <2>7. "ops.healthy" \in Names
    BY Plains
  <2> QED
    BY <2>5, <2>6, <2>7, OrElseType
<1> QED
  BY <1>1, <1>2

Irreversible == [code |-> "rollback_missing", severity |-> "blocked"]

\* The findings on an upgrade, one of them for a migration without a rollback.
LEMMA UpgradeType ==
  ASSUME NEW u \in Upgrade
  PROVE  /\ UpgradeFindings(u) \in Seq(Plain)
         /\ \A n \in DOMAIN u.migrations : u.migrations[n].undo = Blank =>
              Within(Irreversible, UpgradeFindings(u))
<1>1. u.migrations \in Seq(Migration)
  BY DEF Upgrade
<1>2. /\ <<[code |-> "idempotency_missing", severity |-> "blocked"]>> \in Seq(Plain)
      /\ <<[code |-> "rollback_missing", severity |-> "blocked"]>> \in Seq(Plain)
      /\ <<[code |-> "noop_upgrade", severity |-> "warning"]>> \in Seq(Plain)
      /\ <<[code |-> "migrations_missing", severity |-> "blocked"]>> \in Seq(Plain)
      /\ <<>> \in Seq(Plain)
  BY Plains, PlainOne
<1>3. \A m : MigrationFindings(m) \in Seq(Plain)
  BY <1>2, ConcatProperties DEF MigrationFindings
<1>4. PICK t : t = [n \in DOMAIN u.migrations |-> MigrationFindings(u.migrations[n])]
  OBVIOUS
<1>5. DOMAIN u.migrations = 1..Len(u.migrations) /\ Len(u.migrations) \in Nat
  BY <1>1
<1>6. t \in Seq(Seq(Plain))
  BY <1>3, <1>4, <1>5
<1>7. FlattenSeq(t) \in Seq(Plain)
  BY <1>6, Flattens
<1>8. PICK a \in Seq(Plain) : a =
        IF u.noop THEN <<[code |-> "noop_upgrade", severity |-> "warning"]>> ELSE <<>>
  BY <1>2
<1>9. PICK b \in Seq(Plain) : b =
        IF u.migrations = <<>> THEN <<[code |-> "migrations_missing", severity |-> "blocked"]>>
        ELSE <<>>
  BY <1>2
<1>10. a \o b \o FlattenSeq(t) \in Seq(Plain)
  BY <1>7, ConcatProperties
<1>11. UpgradeFindings(u) = OrElse(a \o b \o FlattenSeq(t), "lifecycle.valid")
  BY <1>4, <1>8, <1>9 DEF UpgradeFindings
<1>12. "lifecycle.valid" \in Names
  BY Plains
<1>13. ASSUME NEW n \in DOMAIN u.migrations, u.migrations[n].undo = Blank
       PROVE  Within(Irreversible, UpgradeFindings(u))
  <2>1. PICK x : x = u.migrations[n]
    OBVIOUS
  <2>2. PICK v \in Seq(Plain) : v = IF x.keyed THEN <<>>
          ELSE <<[code |-> "idempotency_missing", severity |-> "blocked"]>>
    BY <1>2
  <2>3. PICK f \in Plain : f = Irreversible
    BY Plains, PlainOne DEF Irreversible
  <2>4. <<f>> \in Seq(Plain) /\ Within(f, <<f>>)
    <3>1. 1 \in DOMAIN <<f>> /\ <<f>>[1] = f /\ <<f>> \in Seq(Plain)
      OBVIOUS
    <3> QED
      BY <3>1 DEF Within
  <2>5. t[n] = v \o <<f>>
    BY <1>4, <1>13, <2>1, <2>2, <2>3 DEF MigrationFindings, Irreversible
  <2>6. Within(f, t[n])
    BY <2>2, <2>4, <2>5, WithinConcat
  <2>7. Within(f, FlattenSeq(t))
    BY <1>4, <1>6, <2>6, Flattens
  <2>8. Within(f, a \o b \o FlattenSeq(t))
    <3>1. a \o b \in Seq(Plain)
      BY ConcatProperties
    <3> QED
      BY <1>7, <2>7, <3>1, WithinConcat
  <2>9. a \o b \o FlattenSeq(t) # <<>>
    <3>1. PICK q \in Seq(Plain) : q = a \o b \o FlattenSeq(t)
      BY <1>10
    <3>2. PICK k \in DOMAIN q : q[k] = f
      BY <2>8, <3>1 DEF Within
    <3>3. q # <<>>
      BY <3>2
    <3> QED
      BY <3>1, <3>3
  <2>10. UpgradeFindings(u) = a \o b \o FlattenSeq(t)
    BY <1>11, <2>9, Zenon DEF OrElse
  <2> QED
    BY <2>3, <2>8, <2>10
<1> QED
  BY <1>10, <1>11, <1>12, <1>13, OrElseType

LEMMA BundleType == ASSUME NEW labels PROVE BundleFindings(labels) \in Seq(Plain)
<1>1. PICK t : t = [n \in DOMAIN Required |-> [code |-> Required[n], severity |-> "blocked"]]
  OBVIOUS
<1>2. DOMAIN Required = 1..8
  BY DEF Required
<1>3. \A n \in DOMAIN Required : Required[n] \in Names
  BY Plains DEF Labels, Range
<1>4. \A n \in DOMAIN Required : t[n] \in Plain
  BY <1>1, <1>3, Plains, PlainOne
<1>5. t \in Seq(Plain)
  BY <1>1, <1>2, <1>4
<1>6. Failed(t, Labels \ labels) \in Seq(Plain)
  BY <1>5, FailedType
<1>7. "compliance.complete" \in Names
  BY Plains
<1>8. BundleFindings(labels) = OrElse(Failed(t, Labels \ labels), "compliance.complete")
  BY <1>1 DEF BundleFindings
<1> QED
  BY <1>6, <1>7, <1>8, OrElseType

-----------------------------------------------------------------------------
(* Rolling back.                                                           *)

Table(it, base, seq, D) ==
  it = [s \in SUBSET D |-> IF s = {} THEN base ELSE TakenBack(it[s \ {Max(s)}], seq[Max(s)])]

LEMMA BackTable ==
  ASSUME NEW base, NEW seq, NEW n \in Nat
  PROVE  \E it : Table(it, base, seq, 1..n)
<1> DEFINE Is(it, k) == it = [s \in SUBSET (1..k) |->
                         IF s = {} THEN base ELSE TakenBack(it[s \ {Max(s)}], seq[Max(s)])]
           S == {k \in Nat : \E it : Is(it, k)}
<1>1. 0 \in S
  <2>1. PICK it : it = [s \in SUBSET (1..0) |-> base]
    OBVIOUS
  <2>2. \A s \in SUBSET (1..0) : s = {}
    OBVIOUS
  <2>3. Is(it, 0)
    BY <2>1, <2>2
  <2> QED
    BY <2>3
<1>2. ASSUME NEW k \in Nat, k \in S PROVE k + 1 \in S
  <2>1. PICK it : Is(it, k)
    BY <1>2
  <2>2. PICK jt : jt = [s \in SUBSET (1..(k + 1)) |->
                          IF k + 1 \in s THEN TakenBack(it[s \ {k + 1}], seq[k + 1]) ELSE it[s]]
    OBVIOUS
  <2>3. ASSUME NEW s \in SUBSET (1..(k + 1)), s # {}
        PROVE  jt[s] = TakenBack(jt[s \ {Max(s)}], seq[Max(s)])
    <3>0. k + 1 \in Nat
      OBVIOUS
    <3>1. Max(s) \in s /\ \A y \in s : y <= Max(s)
      BY <2>3, <3>0, MaxIs
    <3>2. PICK x \in s : x = Max(s) /\ \A y \in s : y <= x
      BY <3>1
    <3>3. CASE k + 1 \in s
      <4>1. x = k + 1
        <5>1. x \in 1..(k + 1) /\ k + 1 <= x
          BY <3>2, <3>3
        <5> QED
          BY <5>1
      <4>2. s \ {k + 1} \in SUBSET (1..(k + 1)) /\ k + 1 \notin s \ {k + 1}
        OBVIOUS
      <4>3. jt[s \ {k + 1}] = it[s \ {k + 1}]
        BY <2>2, <4>2
      <4>4. jt[s] = TakenBack(it[s \ {k + 1}], seq[k + 1])
        BY <2>2, <3>3
      <4> QED
        BY <3>2, <4>1, <4>3, <4>4
    <3>4. CASE k + 1 \notin s
      <4>1. s \in SUBSET (1..k)
        BY <3>4
      <4>2. s \ {x} \in SUBSET (1..k) /\ s \ {x} \in SUBSET (1..(k + 1))
            /\ k + 1 \notin s \ {x}
        BY <4>1, <3>4
      <4>3. jt[s \ {x}] = it[s \ {x}] /\ jt[s] = it[s]
        BY <2>2, <3>4, <4>2
      <4>4. it[s] = TakenBack(it[s \ {x}], seq[x])
        BY <2>1, <2>3, <3>2, <4>1
      <4> QED
        BY <3>2, <4>3, <4>4
    <3> QED
      BY <3>3, <3>4
  <2>4. jt[{}] = base
    BY <2>1, <2>2
  <2>5. jt = [s \in SUBSET (1..(k + 1)) |-> jt[s]]
    BY <2>2
  <2>6. Is(jt, k + 1)
    BY <2>3, <2>4, <2>5
  <2>7. k + 1 \in Nat
    OBVIOUS
  <2> HIDE DEF Is
  <2> QED
    BY <2>6, <2>7
<1>3. n \in S
  <2> HIDE DEF S
  <2> QED
    BY <1>1, <1>2, Ascends
<1> QED
  BY <1>3 DEF Table

\* g lists what is left of base after each step of seq.
BackRun(g, base, seq) ==
  /\ g[0] = base
  /\ \A k \in 1..Len(seq) : g[k] = TakenBack(g[k - 1], seq[k])
  /\ FoldLeft(TakenBack, base, seq) = g[Len(seq)]

LEMMA BackRuns ==
  ASSUME NEW base, NEW U, NEW seq \in Seq(U)
  PROVE  \E g : BackRun(g, base, seq)
<1>1. Len(seq) \in Nat /\ DOMAIN seq = 1..Len(seq)
  OBVIOUS
<1>2. PICK n \in Nat : n = Len(seq) /\ DOMAIN seq = 1..n
  BY <1>1
<1>3. \E it : Table(it, base, seq, DOMAIN seq)
  <2>1. \E it : Table(it, base, seq, 1..n)
    BY BackTable
  <2> QED
    BY <1>2, <2>1, Zenon
<1>4. PICK it : /\ it = [s \in SUBSET (DOMAIN seq) |->
                      IF s = {} THEN base ELSE TakenBack(it[s \ {Max(s)}], seq[Max(s)])]
                /\ FoldLeft(TakenBack, base, seq) = it[DOMAIN seq]
  <2>1. \E it : it = [s \in SUBSET (DOMAIN seq) |->
                      IF s = {} THEN base ELSE TakenBack(it[s \ {Max(s)}], seq[Max(s)])]
    BY <1>3 DEF Table
  <2> QED
    BY <2>1 DEF FoldLeft, MapThenFoldSet, Max
<1>5. PICK g : g = [k \in 0..n |-> it[1..k]]
  OBVIOUS
<1>6. g[0] = base
  <2>1. 1..0 = {} /\ {} \in SUBSET (DOMAIN seq) /\ 0 \in 0..n
    OBVIOUS
  <2> QED
    BY <1>4, <1>5, <2>1
<1>7. ASSUME NEW k \in 1..n PROVE g[k] = TakenBack(g[k - 1], seq[k])
  <2>1. k \in Nat /\ 1..k \in SUBSET (1..k) /\ 1..k # {} /\ k \in 1..k
    OBVIOUS
  <2>2. Max(1..k) \in 1..k /\ k <= Max(1..k)
    BY <2>1, MaxIs
  <2>3. Max(1..k) = k
    BY <2>2
  <2>4. (1..k) \ {k} = 1..(k - 1) /\ 1..k \in SUBSET (DOMAIN seq)
    BY <1>2
  <2>5. it[1..k] = TakenBack(it[1..(k - 1)], seq[k])
    BY <1>4, <2>1, <2>3, <2>4
  <2>6. k \in 0..n /\ k - 1 \in 0..n
    OBVIOUS
  <2> QED
    BY <1>5, <2>5, <2>6
<1>8. FoldLeft(TakenBack, base, seq) = g[n]
  BY <1>2, <1>4, <1>5
<1> QED
  BY <1>2, <1>6, <1>7, <1>8 DEF BackRun

\* Of m, the migrations up to one that is not reversible are left.
Stuck(left, m) ==
  \E l \in 1..Len(m) : left = SubSeq(m, 1, l) /\ m[l].undo = Blank

LEMMA StuckIs ==
  ASSUME NEW m \in Seq(Migration), NEW left, Stuck(left, m)
  PROVE  /\ left # <<>> /\ left[Len(left)].undo = Blank
         /\ \E n \in DOMAIN m : m[n].undo = Blank
<1>1. PICK l \in 1..Len(m) : left = SubSeq(m, 1, l) /\ m[l].undo = Blank
  BY DEF Stuck
<1>2. \A i \in 1..l : m[i] \in Migration
  BY <1>1, ElementOfSeq
<1>3. /\ left \in Seq(Migration) /\ Len(left) = IF 1 <= l THEN l - 1 + 1 ELSE 0
      /\ \A i \in 1..(l - 1 + 1) : left[i] = m[1 + i - 1]
  BY <1>1, <1>2, SubSeqProperties
<1>4. Len(left) = l /\ l \in 1..l /\ \A i \in 1..l : left[i] = m[i]
  BY <1>1, <1>3
<1>5. left # <<>> /\ left[l] = m[l]
  BY <1>1, <1>3, <1>4
<1>6. l \in DOMAIN m
  BY <1>1
<1> QED
  BY <1>1, <1>4, <1>5, <1>6

\* The steps of a rollback take back the migrations one by one, until one is
\* not reversible.
LEMMA Undone ==
  ASSUME NEW u \in Upgrade
  PROVE  /\ RollbackSteps(u) \in Seq(Texts \cup {Blank})
         /\ \E left : /\ left = FoldLeft(TakenBack, u.migrations, RollbackSteps(u))
                      /\ left = <<>> \/ Stuck(left, u.migrations)
<1> DEFINE U == Texts \cup {Blank}
<1>1. PICK m \in Seq(Migration) : m = u.migrations
  BY DEF Upgrade
<1>2. PICK seq : seq = RollbackSteps(u)
  OBVIOUS
<1>3. CASE m = <<>>
  <2>1. seq = <<"hold rollout">> /\ "hold rollout" \in U
    BY <1>1, <1>2, <1>3, InputsAssumption DEF RollbackSteps
  <2>2. seq \in Seq(U) /\ Len(seq) = 1
    <3>1. PICK x \in U : seq = <<x>>
      BY <2>1
    <3> HIDE DEF U
    <3> QED
      BY <3>1
  <2>3. PICK g : /\ g[0] = m
                 /\ \A k \in 1..Len(seq) : g[k] = TakenBack(g[k - 1], seq[k])
                 /\ FoldLeft(TakenBack, m, seq) = g[Len(seq)]
    <3>1. \E g : BackRun(g, m, seq)
      <4> HIDE DEF U
      <4> QED
        BY <2>2, BackRuns
    <3> QED
      BY <3>1, Zenon DEF BackRun
  <2>4. g[1] = TakenBack(<<>>, seq[1])
    <3>1. 1 \in 1..Len(seq) /\ 1 - 1 = 0
      BY <2>2
    <3> QED
      BY <1>3, <2>3, <3>1
  <2>5. g[1] = <<>>
    BY <2>4 DEF TakenBack
  <2> QED
    BY <1>1, <1>2, <2>2, <2>3, <2>5
<1>4. CASE m # <<>>
  <2>1. PICK n \in Nat : n = Len(m) /\ DOMAIN m = 1..n
    OBVIOUS
  <2>2. seq = [k \in 1..n |-> m[n + 1 - k].undo]
    BY <1>1, <1>2, <1>4, <2>1 DEF RollbackSteps
  <2>3. \A k \in 1..n : n + 1 - k \in 1..n
    OBVIOUS
  <2>4. \A k \in 1..n : m[k] \in Migration
    BY <2>1, ElementOfSeq
  <2>5. \A k \in 1..n : m[n + 1 - k].undo \in U
    BY <2>3, <2>4 DEF Migration
  <2>6. seq \in Seq(U) /\ Len(seq) = n
    BY <2>2, <2>5
  <2>7. PICK g : /\ g[0] = m
                 /\ \A k \in 1..n : g[k] = TakenBack(g[k - 1], seq[k])
                 /\ FoldLeft(TakenBack, m, seq) = g[n]
    <3>1. \E g : BackRun(g, m, seq)
      <4> HIDE DEF U
      <4> QED
        BY <2>6, BackRuns
    <3> QED
      BY <2>6, <3>1, Zenon DEF BackRun
  <2> DEFINE S == {k \in Nat : k <= n => g[k] = SubSeq(m, 1, n - k) \/ Stuck(g[k], m)}
  <2>8. 0 \in S
    <3>1. n - 0 = n /\ SubSeq(m, 1, n) = m
      BY <2>1, SubSeqFull
    <3> QED
      BY <2>7, <3>1
  <2>9. ASSUME NEW k \in Nat, k \in S PROVE k + 1 \in S
    <3>1. SUFFICES ASSUME k + 1 <= n
                   PROVE  g[k + 1] = SubSeq(m, 1, n - (k + 1)) \/ Stuck(g[k + 1], m)
      OBVIOUS
    <3>2. PICK l \in Nat : l = n - k - 1 /\ n - k = l + 1 /\ n - (k + 1) = l /\ l + 1 \in 1..n
      BY <3>1
    <3>3. PICK j \in 1..n : j = k + 1 /\ j - 1 = k /\ n + 1 - j = l + 1
      BY <3>1, <3>2
    <3>4. PICK a : a = SubSeq(m, 1, l + 1)
      OBVIOUS
    <3>5. /\ a \in Seq(Migration) /\ Len(a) = l + 1
          /\ \A i \in 1..(l + 1) : a[i] = m[i]
      <4>1. \A i \in 1..(l + 1) : m[i] \in Migration
        BY <2>4, <3>2
      <4>2. /\ a \in Seq(Migration) /\ Len(a) = IF 1 <= l + 1 THEN l + 1 - 1 + 1 ELSE 0
            /\ \A i \in 1..(l + 1 - 1 + 1) : a[i] = m[1 + i - 1]
        BY <3>4, <4>1, SubSeqProperties
      <4> QED
        BY <4>2
    <3>6. g[j] = TakenBack(g[k], seq[j])
      <4>1. g[j] = TakenBack(g[j - 1], seq[j])
        BY <2>7
      <4> QED
        BY <3>3, <4>1
    <3>s. CASE Stuck(g[k], m)
      <4>1. PICK h : h = g[k]
        OBVIOUS
      <4>2. h # <<>> /\ h[Len(h)].undo = Blank
        BY <3>s, <4>1, StuckIs
      <4>3. g[j] = h
        BY <3>6, <4>1, <4>2 DEF TakenBack
      <4> QED
        BY <3>s, <3>3, <4>1, <4>3
    <3>a. CASE g[k] = a /\ seq[j] = Blank
      <4>1. g[j] = a
        BY <3>6, <3>a DEF TakenBack
      <4>2. m[l + 1].undo = Blank
        BY <2>2, <3>3, <3>a
      <4>3. Stuck(a, m)
        BY <2>1, <3>2, <3>4, <4>2 DEF Stuck
      <4> QED
        BY <3>3, <4>1, <4>3
    <3>b. g[k] = a \/ Stuck(g[k], m)
      <4>1. k <= n /\ (g[k] = SubSeq(m, 1, n - k) \/ Stuck(g[k], m))
        BY <2>9, <3>1
      <4> QED
        BY <3>2, <3>4, <4>1
    <3>c. SUFFICES ASSUME g[k] = a, seq[j] # Blank
                   PROVE  g[k + 1] = SubSeq(m, 1, n - (k + 1))
      BY <3>s, <3>a, <3>b
    <3>7. a # <<>> /\ a[l + 1].undo = seq[j]
      <4>1. seq[j] = m[l + 1].undo
        BY <2>2, <3>3
      <4> QED
        BY <3>5, <4>1
    <3>8. g[j] = SubSeq(a, 1, l)
      <4>1. Len(a) - 1 = l
        BY <3>5
      <4> QED
        BY <3>5, <3>6, <3>7, <3>c, <4>1 DEF TakenBack
    <3>9. SubSeq(a, 1, l) = SubSeq(m, 1, l)
      <4>1. PICK b : b = SubSeq(a, 1, l)
        OBVIOUS
      <4>2. PICK c : c = SubSeq(m, 1, l)
        OBVIOUS
      <4>3. \A i \in 1..l : a[i] \in Migration /\ m[i] \in Migration /\ a[i] = m[i]
        BY <2>4, <3>2, <3>5
      <4>4. /\ b \in Seq(Migration) /\ Len(b) = l
            /\ \A i \in 1..l : b[i] = a[i]
        <5>1. /\ b \in Seq(Migration) /\ Len(b) = IF 1 <= l THEN l - 1 + 1 ELSE 0
              /\ \A i \in 1..(l - 1 + 1) : b[i] = a[1 + i - 1]
          BY <4>1, <4>3, SubSeqProperties
        <5> QED
          BY <5>1
      <4>5. /\ c \in Seq(Migration) /\ Len(c) = l
            /\ \A i \in 1..l : c[i] = m[i]
        <5>1. /\ c \in Seq(Migration) /\ Len(c) = IF 1 <= l THEN l - 1 + 1 ELSE 0
              /\ \A i \in 1..(l - 1 + 1) : c[i] = m[1 + i - 1]
          BY <4>2, <4>3, SubSeqProperties
        <5> QED
          BY <5>1
      <4>6. b = c
        BY <4>3, <4>4, <4>5, SeqEqual
      <4> QED
        BY <4>1, <4>2, <4>6
    <3> QED
      BY <3>2, <3>3, <3>8, <3>9
  <2>10. n \in S
    <3> HIDE DEF S
    <3> QED
      BY <2>8, <2>9, Ascends
  <2>11. n - n = 0 /\ SubSeq(m, 1, 0) = <<>>
    BY SubSeqEmpty
  <2>12. g[n] = <<>> \/ Stuck(g[n], m)
    <3>1. n <= n
      OBVIOUS
    <3>2. g[n] = SubSeq(m, 1, n - n) \/ Stuck(g[n], m)
      BY <2>10, <3>1
    <3> QED
      BY <2>11, <3>2
  <2> QED
    BY <1>1, <1>2, <2>6, <2>7, <2>12
<1> QED
  BY <1>3, <1>4

-----------------------------------------------------------------------------
(* The documents the operations hand out.                                  *)

Denied(kind, report) == kind = "tenant_decision" /\ report.state = "blocked"

\* What is true of a document, whoever asked for it.
Handed(d) ==
  /\ d \in Document
  /\ Judged(d.report)
  /\ d.kind = "rollback_plan" => d.steps = RollbackSteps(d.plan)
  /\ d.kind # "readiness" => d.report.findings \in Seq(Plain)
  /\ d.kind = "upgrade_plan" => d.report = ReportOf(UpgradeFindings(d.plan))
  /\ IF d.receipt = NoReceipt THEN Denied(d.kind, d.report)
     ELSE /\ ~ Denied(d.kind, d.report)
          /\ d.receipt.tenant = d.tenant /\ d.receipt.kind = d.kind
          /\ d.receipt.actor = d.actor /\ d.receipt.at = d.at
          /\ d.kind \in {"operation", "replay_verification", "readiness"} =>
               d.report.state \in d.receipt.evidence

\* The step hands out d, with a receipt unless it is a denial.
Hands(d) ==
  /\ Handed(d)
  /\ docs' = docs \cup {d}
  /\ ledger' = IF d.receipt = NoReceipt THEN ledger ELSE Append(ledger, d.receipt)

Full(r, id, report, u, s, c) ==
  [kind |-> r.kind, tenant |-> r.tenant, actor |-> r.actor, at |-> r.at, receipt |-> id,
   report |-> report, plan |-> u, steps |-> s, cites |-> c]

LEMMA NoReceiptIs == \A r \in Receipt : r # NoReceipt
BY DEF Receipt, NoReceipt, Kinds

LEMMA FullHanded ==
  ASSUME NEW r \in Receipt, NEW id \in {r, NoReceipt}, NEW report, Judged(report),
         NEW u \in Upgrade, NEW s \in Seq(Texts \cup {Blank}),
         NEW c \in SUBSET (Labels \X (Receipt \cup {NoReceipt})),
         r.kind = "rollback_plan" => s = RollbackSteps(u),
         r.kind # "readiness" => report.findings \in Seq(Plain),
         r.kind = "upgrade_plan" => report = ReportOf(UpgradeFindings(u)),
         id = NoReceipt <=> Denied(r.kind, report),
         r.kind \in {"operation", "replay_verification", "readiness"} =>
           report.state \in r.evidence
  PROVE  Handed(Full(r, id, report, u, s, c))
<1>1. PICK d : d = Full(r, id, report, u, s, c)
  OBVIOUS
<1>2. /\ d.kind = r.kind /\ d.tenant = r.tenant /\ d.actor = r.actor /\ d.at = r.at
      /\ d.receipt = id /\ d.report = report /\ d.plan = u /\ d.steps = s /\ d.cites = c
  BY <1>1 DEF Full
<1>3. report \in Report
  BY JudgedIs
<1>4. d \in Document
  BY <1>1, <1>3 DEF Full, Document, Receipt
<1>5. id # NoReceipt => id = r
  OBVIOUS
<1> QED
  BY <1>1, <1>2, <1>4, <1>5 DEF Handed, Denied

LEMMA Empties ==
  NoPlan \in Upgrade /\ <<>> \in Seq(Texts \cup {Blank}) /\ KernelUpgrade \in Upgrade
<1>1. NoPlan \in Upgrade
  BY DEF NoPlan, Upgrade
<1>2. KernelUpgrade \in Upgrade
  <2>1. PICK m : m = KernelUpgrade.migrations
    OBVIOUS
  <2>2. /\ DOMAIN m = 1..3 /\ KernelUpgrade.noop = FALSE
        /\ \A n \in 1..3 : m[n] = [name |-> m[n].name, keyed |-> TRUE, undo |-> m[n].undo]
        /\ Len(m) = 3
    <3>0. m = <<[name |-> "audit-ledger-index", keyed |-> TRUE, undo |-> "drop index"],
                [name |-> "tenant-quota-ledger", keyed |-> TRUE, undo |-> "archive"],
                [name |-> "replay-receipt-catalog", keyed |-> TRUE, undo |-> "drop catalog"]>>
      BY <2>1 DEF KernelUpgrade
    <3>1. /\ m[1] = [name |-> "audit-ledger-index", keyed |-> TRUE, undo |-> "drop index"]
          /\ m[2] = [name |-> "tenant-quota-ledger", keyed |-> TRUE, undo |-> "archive"]
          /\ m[3] = [name |-> "replay-receipt-catalog", keyed |-> TRUE, undo |-> "drop catalog"]
          /\ DOMAIN m = 1..3 /\ Len(m) = 3
      <4>1. PICK a : a = [name |-> "audit-ledger-index", keyed |-> TRUE, undo |-> "drop index"]
        OBVIOUS
      <4>2. PICK b : b = [name |-> "tenant-quota-ledger", keyed |-> TRUE, undo |-> "archive"]
        OBVIOUS
      <4>3. PICK c : c = [name |-> "replay-receipt-catalog", keyed |-> TRUE,
                          undo |-> "drop catalog"]
        OBVIOUS
      <4>4. m = <<a, b, c>>
        BY <3>0, <4>1, <4>2, <4>3
      <4>5. m[1] = a /\ m[2] = b /\ m[3] = c /\ DOMAIN m = 1..3 /\ Len(m) = 3
        BY <4>4
      <4> QED
        BY <4>1, <4>2, <4>3, <4>5
    <3>2. ASSUME NEW n \in 1..3
          PROVE  m[n] = [name |-> m[n].name, keyed |-> TRUE, undo |-> m[n].undo]
      <4>1. n = 1 \/ n = 2 \/ n = 3
        OBVIOUS
      <4>2. PICK x, y : m[n] = [name |-> x, keyed |-> TRUE, undo |-> y]
        <5>1. CASE n = 1
          BY <3>1, <5>1
        <5>2. CASE n = 2
          BY <3>1, <5>2
        <5>3. CASE n = 3
          BY <3>1, <5>3
        <5> QED
          BY <4>1, <5>1, <5>2, <5>3
      <4>3. m[n].name = x /\ m[n].undo = y
        BY <4>2
      <4> QED
        BY <4>2, <4>3
    <3>3. KernelUpgrade.noop = FALSE
      BY DEF KernelUpgrade
    <3> QED
      BY <3>1, <3>2, <3>3
  <2>3. \A n \in 1..3 : m[n].name \in Texts /\ m[n].undo \in Texts
    BY <2>1, <2>2, InputsAssumption
  <2>4. ASSUME NEW n \in 1..3 PROVE m[n] \in Migration
    <3>1. PICK x, y : x = m[n].name /\ y = m[n].undo
      OBVIOUS
    <3>2. m[n] = [name |-> x, keyed |-> TRUE, undo |-> y] /\ x \in Texts /\ y \in Texts
      BY <2>2, <2>3, <3>1
    <3> QED
      BY <3>2 DEF Migration
  <2>5. m = <<m[1], m[2], m[3]>>
    BY <2>1 DEF KernelUpgrade
  <2>6. m \in Seq(Migration)
    <3>1. PICK a, b, c : a = m[1] /\ b = m[2] /\ c = m[3]
      OBVIOUS
    <3>2. a \in Migration /\ b \in Migration /\ c \in Migration
      BY <2>4, <3>1
    <3>3. m = <<a, b, c>>
      BY <2>5, <3>1
    <3> QED
      BY <3>2, <3>3
  <2>7. KernelUpgrade = [noop |-> FALSE, migrations |-> m]
    BY <2>1 DEF KernelUpgrade
  <2> QED
    BY <2>6, <2>7 DEF Upgrade
<1> QED
  BY <1>1, <1>2, EmptySeq

LEMMA NewReceiptType ==
  ASSUME Now \in Nat, NEW p, p.tenant \in Tenants, p.actor \in Actors,
         NEW kind \in Kinds, NEW subject \in Subjects, NEW evidence \in SUBSET Evidence
  PROVE  /\ NewReceipt(p, kind, subject, evidence) \in Receipt
         /\ NewReceipt(p, kind, subject, evidence).tenant = p.tenant
         /\ NewReceipt(p, kind, subject, evidence).actor = p.actor
         /\ NewReceipt(p, kind, subject, evidence).kind = kind
         /\ NewReceipt(p, kind, subject, evidence).evidence = evidence
         /\ NewReceipt(p, kind, subject, evidence).at = Now
BY DEF NewReceipt, Receipt

\* The step hands out d, of that kind, to p.
For(d, p, kind) ==
  /\ Hands(d)
  /\ d.kind = kind /\ d.tenant = p.tenant /\ d.actor = p.actor
  /\ d.receipt # NoReceipt => d.receipt.evidence # {}

\* Who calls, and when.
Caller(p) == Now \in Nat /\ p.tenant \in Tenants /\ p.actor \in Actors

\* What a document of that kind may hold, and its receipt as evidence.
Holds(kind, evidence, report, u, s, c) ==
  /\ kind \in Kinds
  /\ evidence \in SUBSET Evidence /\ evidence # {}
  /\ Judged(report)
  /\ u \in Upgrade /\ s \in Seq(Texts \cup {Blank})
  /\ c \in SUBSET (Labels \X (Receipt \cup {NoReceipt}))
  /\ kind = "rollback_plan" => s = RollbackSteps(u)
  /\ kind # "readiness" => report.findings \in Seq(Plain)
  /\ kind = "upgrade_plan" => report = ReportOf(UpgradeFindings(u))
  /\ ~ Denied(kind, report)
  /\ kind \in {"operation", "replay_verification", "readiness"} => report.state \in evidence

LEMMA Issued ==
  ASSUME NEW p, Caller(p), NEW kind, NEW subject \in Subjects, NEW evidence,
         NEW report, NEW u, NEW s, NEW c, Holds(kind, evidence, report, u, s, c),
         NEW r, r = NewReceipt(p, kind, subject, evidence),
         NEW d, d = Full(r, r, report, u, s, c),
         ledger' = Append(ledger, r), docs' = docs \cup {d}
  PROVE  For(d, p, kind) /\ d.receipt = r /\ d.receipt # NoReceipt
<1>1. /\ r \in Receipt /\ r.tenant = p.tenant /\ r.actor = p.actor /\ r.kind = kind
      /\ r.evidence = evidence /\ r.at = Now
  BY NewReceiptType DEF Caller, Holds
<1>2. r # NoReceipt
  BY <1>1, NoReceiptIs
<1>3. Handed(Full(r, r, report, u, s, c))
  BY <1>1, <1>2, FullHanded DEF Holds
<1>4. /\ d.kind = r.kind /\ d.tenant = r.tenant /\ d.actor = r.actor /\ d.at = r.at
      /\ d.receipt = r
  BY DEF Full
<1> QED
  BY <1>1, <1>2, <1>3, <1>4 DEF For, Hands, Holds

LEMMA States == HealthState \subseteq Evidence
BY DEF Evidence

LEMMA PlainReport ==
  ASSUME NEW seq \in Seq(Plain)
  PROVE  /\ Judged(ReportOf(seq)) /\ ReportOf(seq).findings = seq
         /\ ReportOf(seq).findings \in Seq(Plain) /\ ReportOf(seq).state \in Evidence
<1>1. seq \in Seq(Finding)
  BY PlainFindings
<1>2. Judged(ReportOf(seq)) /\ ReportOf(seq).findings = seq
  BY <1>1, ReportIs
<1>3. ReportOf(seq).state \in HealthState
  BY <1>2, JudgedIs DEF Report
<1> QED
  BY <1>2, <1>3, States

LEMMA OneFinding ==
  ASSUME NEW code \in Names, NEW s \in Severity
  PROVE  ReportOf(<<[code |-> code, severity |-> s]>>).state = FromSeverity(s)
<1>1. PICK f \in Plain : f = [code |-> code, severity |-> s]
  BY PlainOne
<1>2. <<f>> \in Seq(Plain) /\ f.severity = s
  BY <1>1
<1>3. PICK report : report = ReportOf(<<f>>)
  OBVIOUS
<1>4. Judged(report) /\ report.findings = <<f>>
  BY <1>2, <1>3, PlainReport
<1>5. DOMAIN report.findings = {1} /\ report.findings[1] = f /\ report.findings # <<>>
  BY <1>4
<1>6. PICK t \in Severity : WorstIs(report.findings, t) /\ report.state = FromSeverity(t)
  BY <1>4, <1>5 DEF Judged
<1>7. t = s
  BY <1>2, <1>5, <1>6 DEF WorstIs
<1> QED
  BY <1>1, <1>3, <1>6, <1>7

LEMMA DocPlain ==
  ASSUME NEW r, NEW id, NEW report
  PROVE  Doc(r, id, report) = Full(r, id, report, NoPlan, <<>>, {})
BY DEF Doc, Full

LEMMA DocPlan ==
  ASSUME NEW r, NEW id, NEW report, NEW u
  PROVE  [Doc(r, id, report) EXCEPT !.plan = u] = Full(r, id, report, u, <<>>, {})
<1>1. PICK k, t, a, m : k = r.kind /\ t = r.tenant /\ a = r.actor /\ m = r.at
  OBVIOUS
<1>2. PICK e, z : e = <<>> /\ z = {}
  OBVIOUS
<1>3. Doc(r, id, report) =
        [kind |-> k, tenant |-> t, actor |-> a, at |-> m, receipt |-> id, report |-> report,
         plan |-> NoPlan, steps |-> e, cites |-> z]
  BY <1>1, <1>2 DEF Doc
<1>4. \A v, w, x : Full(r, id, report, v, w, x) =
        [kind |-> k, tenant |-> t, actor |-> a, at |-> m, receipt |-> id, report |-> report,
         plan |-> v, steps |-> w, cites |-> x]
  BY <1>1 DEF Full
<1>5. [Doc(r, id, report) EXCEPT !.plan = u] = Full(r, id, report, u, e, z)
  BY <1>3, <1>4
<1> QED
  BY <1>2, <1>5, Zenon

LEMMA DocSteps ==
  ASSUME NEW r, NEW id, NEW report, NEW u, NEW s
  PROVE  [Doc(r, id, report) EXCEPT !.plan = u, !.steps = s] = Full(r, id, report, u, s, {})
<1>1. PICK d : d = Doc(r, id, report)
  OBVIOUS
<1>2. [d EXCEPT !.plan = u, !.steps = s] = [[d EXCEPT !.plan = u] EXCEPT !.steps = s]
  OBVIOUS
<1>3. [d EXCEPT !.plan = u] = Full(r, id, report, u, <<>>, {})
  BY <1>1, DocPlan, Zenon
<1>4. [Full(r, id, report, u, <<>>, {}) EXCEPT !.steps = s] = Full(r, id, report, u, s, {})
  <2>1. PICK k, t, a, m, e, z :
          k = r.kind /\ t = r.tenant /\ a = r.actor /\ m = r.at /\ e = <<>> /\ z = {}
    OBVIOUS
  <2>2. \A w : Full(r, id, report, u, w, z) =
          [kind |-> k, tenant |-> t, actor |-> a, at |-> m, receipt |-> id, report |-> report,
           plan |-> u, steps |-> w, cites |-> z]
    BY <2>1 DEF Full
  <2>3. [Full(r, id, report, u, e, z) EXCEPT !.steps = s] = Full(r, id, report, u, s, z)
    BY <2>2
  <2> QED
    BY <2>1, <2>3, Zenon
<1> QED
  BY <1>1, <1>2, <1>3, <1>4, Zenon

LEMMA DocCites ==
  ASSUME NEW r, NEW id, NEW report, NEW c
  PROVE  [Doc(r, id, report) EXCEPT !.cites = c] = Full(r, id, report, NoPlan, <<>>, c)
<1>1. PICK k, t, a, m : k = r.kind /\ t = r.tenant /\ a = r.actor /\ m = r.at
  OBVIOUS
<1>2. PICK e, z : e = <<>> /\ z = {}
  OBVIOUS
<1>3. Doc(r, id, report) =
        [kind |-> k, tenant |-> t, actor |-> a, at |-> m, receipt |-> id, report |-> report,
         plan |-> NoPlan, steps |-> e, cites |-> z]
  BY <1>1, <1>2 DEF Doc
<1>4. \A v, w, x : Full(r, id, report, v, w, x) =
        [kind |-> k, tenant |-> t, actor |-> a, at |-> m, receipt |-> id, report |-> report,
         plan |-> v, steps |-> w, cites |-> x]
  BY <1>1 DEF Full
<1>5. [Doc(r, id, report) EXCEPT !.cites = c] = Full(r, id, report, NoPlan, e, c)
  BY <1>3, <1>4
<1> QED
  BY <1>2, <1>5, Zenon

LEMMA EvaluateHands ==
  ASSUME NEW p, Caller(p), NEW T, NEW signals \in Seq(T), Evaluate(p, signals)
  PROVE  \E d : For(d, p, "operation") /\ d.receipt # NoReceipt
<1>1. PICK report : report = ReportOf(OpsFindings(signals))
  OBVIOUS
<1>2. Judged(report) /\ report.findings \in Seq(Plain) /\ report.state \in Evidence
  BY <1>1, OpsType, PlainReport
<1>3. "operation" \in Kinds /\ "ops-evaluation" \in Subjects
  BY DEF Kinds, Subjects
<1>4. PICK e \in SUBSET Evidence : e = {report.state} /\ e # {} /\ report.state \in e
  BY <1>2
<1>5. PICK s \in Seq(Texts \cup {Blank}), c \in SUBSET (Labels \X (Receipt \cup {NoReceipt})) :
        s = <<>> /\ c = {}
  BY Empties
<1>6. PICK r : r = NewReceipt(p, "operation", "ops-evaluation", e)
  OBVIOUS
<1>7. PICK d : d = Doc(r, r, report)
  OBVIOUS
<1>8. ledger' = Append(ledger, r) /\ docs' = docs \cup {d}
  BY <1>1, <1>4, <1>6, <1>7, Zenon DEF Evaluate, Issue
<1>9. d = Full(r, r, report, NoPlan, s, c)
  BY <1>5, <1>7, DocPlain, Zenon
<1>10. Holds("operation", e, report, NoPlan, s, c)
  BY <1>2, <1>3, <1>4, <1>5, Empties DEF Holds, Denied
<1>11. For(d, p, "operation") /\ d.receipt # NoReceipt
  BY <1>3, <1>6, <1>8, <1>9, <1>10, Issued
<1> QED
  BY <1>11

LEMMA PlanUpgradeHands ==
  ASSUME NEW p, Caller(p), NEW u \in Upgrade, PlanUpgrade(p, u)
  PROVE  \E d : For(d, p, "upgrade_plan") /\ d.receipt # NoReceipt
<1>1. PICK report : report = ReportOf(UpgradeFindings(u))
  OBVIOUS
<1>2. Judged(report) /\ report.findings \in Seq(Plain)
  BY <1>1, UpgradeType, PlainReport
<1>3. "upgrade_plan" \in Kinds /\ "phase11-upgrade" \in Subjects
  BY DEF Kinds, Subjects
<1>4. PICK e \in SUBSET Evidence : e = {"versions"} /\ e # {}
  <2>1. "versions" \in Evidence
    BY DEF Evidence
  <2> QED
    BY <1>2, <2>1
<1>5. PICK s \in Seq(Texts \cup {Blank}), c \in SUBSET (Labels \X (Receipt \cup {NoReceipt})) :
        s = <<>> /\ c = {}
  BY Empties
<1>6. PICK r : r = NewReceipt(p, "upgrade_plan", "phase11-upgrade", e)
  OBVIOUS
<1>7. PICK d : d = [Doc(r, r, report) EXCEPT !.plan = u]
  OBVIOUS
<1>8. ledger' = Append(ledger, r) /\ docs' = docs \cup {d}
  BY <1>1, <1>4, <1>6, <1>7, Zenon DEF PlanUpgrade, Issue
<1>9. d = Full(r, r, report, u, s, c)
  BY <1>5, <1>7, DocPlan, Zenon
<1>10. Holds("upgrade_plan", e, report, u, s, c)
  BY <1>1, <1>2, <1>3, <1>4, <1>5, Empties DEF Holds, Denied
<1>11. For(d, p, "upgrade_plan") /\ d.receipt # NoReceipt
  BY <1>3, <1>6, <1>8, <1>9, <1>10, Issued
<1> QED
  BY <1>11

LEMMA PlanRollbackHands ==
  ASSUME NEW p, Caller(p), NEW u \in Upgrade, PlanRollback(p, u)
  PROVE  \E d : For(d, p, "rollback_plan") /\ d.receipt # NoReceipt
<1>1. PICK report : report = NoFindings
  OBVIOUS
<1>2. Judged(report) /\ report.findings \in Seq(Plain)
  BY <1>1 DEF NoFindings, Judged
<1>3. "rollback_plan" \in Kinds /\ "phase11-rollback" \in Subjects
  BY DEF Kinds, Subjects
<1>4. PICK e \in SUBSET Evidence : e = {"target"} /\ e # {}
  <2>1. "target" \in Evidence
    BY DEF Evidence
  <2> QED
    BY <1>2, <2>1
<1>5. PICK s \in Seq(Texts \cup {Blank}), c \in SUBSET (Labels \X (Receipt \cup {NoReceipt})) :
        s = RollbackSteps(u) /\ c = {}
  BY Undone
<1>6. PICK r : r = NewReceipt(p, "rollback_plan", "phase11-rollback", e)
  OBVIOUS
<1>7. PICK d : d = [Doc(r, r, report) EXCEPT !.plan = u, !.steps = RollbackSteps(u)]
  OBVIOUS
<1>8. ledger' = Append(ledger, r) /\ docs' = docs \cup {d}
  BY <1>1, <1>4, <1>6, <1>7, Zenon DEF PlanRollback, Issue
<1>9. d = Full(r, r, report, u, s, c)
  BY <1>5, <1>7, DocSteps, Zenon
<1>10. Holds("rollback_plan", e, report, u, s, c)
  BY <1>2, <1>3, <1>4, <1>5, Empties DEF Holds, Denied
<1>11. For(d, p, "rollback_plan") /\ d.receipt # NoReceipt
  BY <1>3, <1>6, <1>8, <1>9, <1>10, Issued
<1> QED
  BY <1>11

LEMMA VerifyClaimHands ==
  ASSUME NEW p, Caller(p), NEW name \in Subjects, NEW faults, VerifyClaim(p, name, faults)
  PROVE  \E d : For(d, p, "replay_verification") /\ d.receipt # NoReceipt
<1>1. PICK report : report = ReportOf(OrElse(Failed(ClaimChecks, faults), "replay.verified"))
  OBVIOUS
<1>2. Judged(report) /\ report.findings \in Seq(Plain) /\ report.state \in Evidence
  <2>1. OrElse(Failed(ClaimChecks, faults), "replay.verified") \in Seq(Plain)
    BY Checks, FailedType, Plains, OrElseType
  <2> QED
    BY <1>1, <2>1, PlainReport
<1>3. "replay_verification" \in Kinds
  BY DEF Kinds
<1>4. PICK e \in SUBSET Evidence : e = {"digest", report.state} /\ e # {} /\ report.state \in e
  <2>1. "digest" \in Evidence
    BY DEF Evidence
  <2> QED
    BY <1>2, <2>1
<1>5. PICK s \in Seq(Texts \cup {Blank}), c \in SUBSET (Labels \X (Receipt \cup {NoReceipt})) :
        s = <<>> /\ c = {}
  BY Empties
<1>6. PICK r : r = NewReceipt(p, "replay_verification", name, e)
  OBVIOUS
<1>7. PICK d : d = Doc(r, r, report)
  OBVIOUS
<1>8. ledger' = Append(ledger, r) /\ docs' = docs \cup {d}
  BY <1>1, <1>4, <1>6, <1>7, Zenon DEF VerifyClaim, Issue
<1>9. d = Full(r, r, report, NoPlan, s, c)
  BY <1>5, <1>7, DocPlain, Zenon
<1>10. Holds("replay_verification", e, report, NoPlan, s, c)
  BY <1>2, <1>3, <1>4, <1>5, Empties DEF Holds, Denied
<1>11. For(d, p, "replay_verification") /\ d.receipt # NoReceipt
  BY <1>3, <1>6, <1>8, <1>9, <1>10, Issued
<1> QED
  BY <1>11

LEMMA ExportHands ==
  ASSUME NEW p, Caller(p), NEW cites \in SUBSET (Labels \X (Receipt \cup {NoReceipt})),
         Export(p, cites)
  PROVE  \E d : /\ Handed(d) /\ docs' = docs \cup {d} /\ d.receipt # NoReceipt
                /\ ledger' = Append(ledger, d.receipt)
                /\ d.kind = "compliance_export" /\ d.tenant = p.tenant /\ d.actor = p.actor
                /\ d.cites = cites /\ d.receipt.evidence = {x[1] : x \in cites}
<1>1. PICK labels : labels = {x[1] : x \in cites}
  OBVIOUS
<1>2. PICK report : report = ReportOf(BundleFindings(labels))
  OBVIOUS
<1>3. Judged(report) /\ report.findings \in Seq(Plain)
  BY <1>2, BundleType, PlainReport
<1>4. PICK r : r = NewReceipt(p, "compliance_export", "phase11-compliance-export", labels)
  OBVIOUS
<1>6. "compliance_export" \in Kinds /\ "phase11-compliance-export" \in Subjects
  BY DEF Kinds, Subjects
<1>7. labels \in SUBSET Evidence
  <2>1. \A x \in cites : x[1] \in Labels
    OBVIOUS
  <2> QED
    BY <1>1, <2>1 DEF Evidence
<1>8. /\ r \in Receipt /\ r.tenant = p.tenant /\ r.actor = p.actor
      /\ r.kind = "compliance_export" /\ r.evidence = labels /\ r.at = Now
  BY <1>4, <1>6, <1>7, NewReceiptType DEF Caller
<1>9. r # NoReceipt
  BY <1>8, NoReceiptIs
<1>10. PICK d : d = [Doc(r, r, report) EXCEPT !.cites = cites]
  OBVIOUS
<1>5. d = Full(r, r, report, NoPlan, <<>>, cites)
  <2>1. [Doc(r, r, report) EXCEPT !.cites = cites] = Full(r, r, report, NoPlan, <<>>, cites)
    BY DocCites
  <2> QED
    BY <1>10, <2>1, Zenon
<1>11. Handed(d)
  BY <1>3, <1>5, <1>8, <1>9, Empties, FullHanded DEF Denied
<1>12. /\ d.kind = r.kind /\ d.tenant = r.tenant /\ d.actor = r.actor /\ d.at = r.at
       /\ d.receipt = r /\ d.cites = cites
  BY <1>5 DEF Full
<1>13. docs' = docs \cup {d} /\ ledger' = Append(ledger, r)
  BY <1>1, <1>2, <1>4, <1>10, Zenon DEF Export, Issue
<1> QED
  BY <1>1, <1>8, <1>9, <1>11, <1>12, <1>13

LEMMA AllowHands ==
  ASSUME NEW in, Caller(in), in.role \in Roles, in.action \in TenantActions, Allow(in)
  PROVE  \E d : For(d, in, "tenant_decision") /\ d.receipt # NoReceipt /\ in.actor # Blank
<1>1. PICK report : report = ReportOf(<<[code |-> "tenant.allowed", severity |-> "info"]>>)
  OBVIOUS
<1>2. Judged(report) /\ report.findings \in Seq(Plain)
  <2>1. <<[code |-> "tenant.allowed", severity |-> "info"]>> \in Seq(Plain)
    BY Plains, PlainOne
  <2> QED
    BY <1>1, <2>1, PlainReport
<1>a. report.state = "healthy"
  <2>1. "tenant.allowed" \in Names /\ "info" \in Severity
    BY Plains
  <2> QED
    BY <1>1, <2>1, OneFinding DEF FromSeverity
<1>3. "tenant_decision" \in Kinds /\ in.action \in Subjects
  BY DEF Kinds, Subjects
<1>4. PICK e \in SUBSET Evidence : e = {in.role, "allow"} /\ e # {}
  BY DEF Evidence
<1>5. PICK s \in Seq(Texts \cup {Blank}), c \in SUBSET (Labels \X (Receipt \cup {NoReceipt})) :
        s = <<>> /\ c = {}
  BY Empties
<1>6. PICK r : r = NewReceipt(in, "tenant_decision", in.action, e)
  OBVIOUS
<1>7. PICK d : d = Doc(r, r, report)
  OBVIOUS
<1>8. ledger' = Append(ledger, r) /\ docs' = docs \cup {d}
  BY <1>1, <1>4, <1>6, <1>7, Zenon DEF Allow, Issue
<1>9. d = Full(r, r, report, NoPlan, s, c)
  BY <1>5, <1>7, DocPlain, Zenon
<1>10. Holds("tenant_decision", e, report, NoPlan, s, c)
  BY <1>a, <1>2, <1>3, <1>4, <1>5, Empties DEF Holds, Denied
<1>11. For(d, in, "tenant_decision") /\ d.receipt # NoReceipt
  BY <1>3, <1>6, <1>8, <1>9, <1>10, Issued
<1>12. in.actor # Blank
  <2>1. 1 \in 1..5 /\ (in.actor = Blank => 1 \in DeniedBy(in))
    BY DEF DeniedBy
  <2> QED
    BY <2>1 DEF Allow
<1> QED
  BY <1>11, <1>12

LEMMA DenialIs ==
  ASSUME NEW in, DeniedBy(in) # {} PROVE Denial(in) \in Names
<1>1. DeniedBy(in) \subseteq 1..5
  BY DEF DeniedBy
<1>2. PICK T : T = DeniedBy(in)
  OBVIOUS
<1>3. T \subseteq Nat /\ T # {}
  BY <1>1, <1>2
<1>4. \E m \in T : \A n \in T : m <= n
  BY <1>3, Least
<1>5. PICK m \in T : m = CHOOSE n \in T : \A k \in T : n <= k
  BY <1>4, Zenon
<1>6. Denial(in) = DenialCodes[m]
  BY <1>2, <1>5, Zenon DEF Denial
<1> QED
  BY <1>1, <1>2, <1>6, DenialsAre

LEMMA DenyHands ==
  ASSUME NEW in, Caller(in), in.action \in TenantActions, Deny(in)
  PROVE  \E d : /\ For(d, in, "tenant_decision") /\ d.receipt = NoReceipt
                /\ \E n \in DOMAIN d.report.findings : d.report.findings[n].severity = "blocked"
<1>1. PICK f : f = [code |-> Denial(in), severity |-> "blocked"]
  OBVIOUS
<1>2. f \in Plain /\ f.severity = "blocked"
  <2>1. Denial(in) \in Names
    BY DenialIs DEF Deny
  <2> QED
    BY <1>1, <2>1, Plains, PlainOne
<1>3. PICK report : report = ReportOf(<<f>>)
  OBVIOUS
<1>4. Judged(report) /\ report.findings \in Seq(Plain) /\ report.findings = <<f>>
  <2>1. <<f>> \in Seq(Plain)
    BY <1>2
  <2> QED
    BY <1>3, <2>1, PlainReport
<1>5. PICK r : r = NewReceipt(in, "tenant_decision", in.action, {})
  OBVIOUS
<1>6. /\ r \in Receipt /\ r.tenant = in.tenant /\ r.actor = in.actor
      /\ r.kind = "tenant_decision" /\ r.at = Now
  <2>1. "tenant_decision" \in Kinds /\ in.action \in Subjects
    BY DEF Kinds, Subjects
  <2>2. {} \in SUBSET Evidence
    OBVIOUS
  <2> QED
    BY <1>5, <2>1, <2>2, NewReceiptType DEF Caller
<1>7. PICK s \in Seq(Texts \cup {Blank}), c \in SUBSET (Labels \X (Receipt \cup {NoReceipt})) :
        s = <<>> /\ c = {}
  BY Empties
<1>8. PICK d : d = Doc(r, NoReceipt, report)
  OBVIOUS
<1>9. d = Full(r, NoReceipt, report, NoPlan, s, c)
  BY <1>7, <1>8, DocPlain, Zenon
<1>a. report.state = "blocked"
  <2>1. Denial(in) \in Names /\ "blocked" \in Severity
    BY DenialIs, Plains DEF Deny
  <2>2. FromSeverity("blocked") = "blocked"
    BY DEF FromSeverity
  <2> QED
    BY <1>1, <1>3, <2>1, <2>2, OneFinding
<1>10. Handed(d)
  BY <1>4, <1>6, <1>9, <1>a, Empties, FullHanded DEF Denied
<1>11. /\ d.kind = "tenant_decision" /\ d.tenant = in.tenant /\ d.actor = in.actor
       /\ d.receipt = NoReceipt /\ d.report = report
  BY <1>6, <1>9 DEF Full
<1>12. docs' = docs \cup {d} /\ ledger' = ledger
  BY <1>1, <1>3, <1>5, <1>8, Zenon DEF Deny
<1>13. For(d, in, "tenant_decision")
  BY <1>10, <1>11, <1>12 DEF For, Hands
<1>14. \E n \in DOMAIN <<f>> : <<f>>[n].severity = "blocked"
  BY <1>2
<1> QED
  BY <1>4, <1>11, <1>13, <1>14

\* The readiness report says ready only if everything merged was info.
LEMMA ConcludeHands ==
  ASSUME NEW p, Caller(p), NEW merged \in Seq(Plain), NEW found, NEW r,
         found = IF \A n \in DOMAIN merged : merged[n].severity = "info"
                 THEN Append(merged, [code |-> "phase11.ready", severity |-> "info"])
                 ELSE merged,
         r = NewReceipt(p, "readiness", "phase11-readiness", {ReportOf(found).state}),
         Issue(r, Doc(r, r, Push(ReportOf(found),
                                 [code |-> "readiness_receipt", severity |-> "info"])))
  PROVE  \E d : /\ For(d, p, "readiness") /\ d.receipt # NoReceipt
                /\ Ready(d) => \A n \in DOMAIN merged : merged[n].severity = "info"
<1> DEFINE Info == \A n \in DOMAIN merged : merged[n].severity = "info"
           ready == [code |-> "phase11.ready", severity |-> "info"]
           said == [code |-> "readiness_receipt", severity |-> "info"]
<1>2. ready \in Finding /\ said \in Finding /\ said.code # "phase11.ready"
  BY Plains DEF Finding, Codes
<1>3. found = IF Info THEN Append(merged, ready) ELSE merged
  OBVIOUS
<1>4. found \in Seq(Finding)
  <2>1. merged \in Seq(Finding)
    BY PlainFindings
  <2> HIDE DEF ready, Info
  <2> QED
    BY <1>2, <1>3, <2>1, AppendProperties
<1>5. PICK base : base = ReportOf(found)
  OBVIOUS
<1>6. Judged(base) /\ base.findings = found
  BY <1>4, <1>5, ReportIs
<1>7. PICK report : report = Push(base, said)
  OBVIOUS
<1>8. Judged(report) /\ report.findings = Append(found, said)
  BY <1>2, <1>6, <1>7, PushJudged
<1>9. report.state = base.state /\ base.state \in Evidence
  <2>1. Worst(found) \in Severity
    <3>1. CASE found = <<>>
      BY <3>1, Ranks DEF Worst
    <3>2. CASE found # <<>>
      <4>1. PICK w : WorstIs(found, w)
        BY <1>6, <3>2 DEF Judged
      <4> QED
        BY <1>4, <3>2, <4>1, WorstOf DEF WorstIs
    <3> QED
      BY <3>1, <3>2
  <2>2. Rank("info") = 1 /\ Rank(Worst(found)) \in 1..5
    BY <2>1, Ranks, RankType
  <2>3. report.state = base.state
    BY <1>6, <1>7, <2>2 DEF Push
  <2>4. base.state \in HealthState
    BY <1>6, JudgedIs DEF Report
  <2> QED
    BY <2>3, <2>4, States
<1>10. "readiness" \in Kinds /\ "phase11-readiness" \in Subjects
  BY DEF Kinds, Subjects
<1>11. PICK e \in SUBSET Evidence : e = {base.state} /\ e # {} /\ report.state \in e
  BY <1>9
<1>12. PICK s \in Seq(Texts \cup {Blank}), c \in SUBSET (Labels \X (Receipt \cup {NoReceipt})) :
        s = <<>> /\ c = {}
  BY Empties
<1>13. r = NewReceipt(p, "readiness", "phase11-readiness", e)
  BY <1>5, <1>11
<1>14. PICK d : d = Doc(r, r, report)
  OBVIOUS
<1>15. ledger' = Append(ledger, r) /\ docs' = docs \cup {d}
  BY <1>5, <1>7, <1>14, Zenon DEF Issue
<1>16. d = Full(r, r, report, NoPlan, s, c)
  BY <1>12, <1>14, DocPlain, Zenon
<1>17. Holds("readiness", e, report, NoPlan, s, c)
  BY <1>8, <1>10, <1>11, <1>12, Empties DEF Holds, Denied
<1>18. For(d, p, "readiness") /\ d.receipt # NoReceipt
  BY <1>10, <1>13, <1>15, <1>16, <1>17, Issued
<1>19. d.report = report
  BY <1>16 DEF Full
<1>20. Ready(d) => Info
  <2>1. SUFFICES ASSUME ~ Info, NEW n \in DOMAIN report.findings
                 PROVE  report.findings[n].code # "phase11.ready"
    BY <1>19 DEF Ready
  <2>2. found = merged
    BY <1>3, <2>1
  <2>3. PICK q : q = report.findings
    OBVIOUS
  <2>4. PICK l \in Nat : l = Len(merged)
    OBVIOUS
  <2>5. /\ q \in Seq(Finding) /\ Len(q) = l + 1 /\ q[l + 1] = said
        /\ \A i \in 1..l : q[i] = merged[i]
    <3> HIDE DEF said
    <3> QED
      BY <1>2, <1>4, <1>8, <2>2, <2>3, <2>4, AppendProperties
  <2>6. n \in 1..(l + 1)
    BY <2>1, <2>3, <2>5
  <2>7. CASE n = l + 1
    BY <1>2, <2>3, <2>5, <2>7
  <2>8. CASE n \in 1..l
    <3>1. merged[n] \in Plain
      BY <2>4, <2>8, ElementOfSeq
    <3> QED
      BY <2>3, <2>5, <2>8, <3>1 DEF Plain
  <2> QED
    BY <2>6, <2>7, <2>8
<1> QED
  BY <1>18, <1>20

-----------------------------------------------------------------------------
(* The inductive invariant.                                                *)

\* Every document's receipt is in the ledger, and every receipt is a
\* document's.
AccountedIn(D, L) ==
  /\ \A d \in D : Handed(d) /\ (d.receipt # NoReceipt => \E n \in DOMAIN L : L[n] = d.receipt)
  /\ \A n \in DOMAIN L : \E d \in D : d.receipt = L[n]

\* The call of the kernel's run that makes the document of that kind.
Stage(kind) ==
  CASE kind = "tenant_decision" -> 0
    [] kind = "operation" -> 1
    [] kind = "upgrade_plan" -> 2
    [] kind = "rollback_plan" -> 3
    [] kind = "replay_verification" -> 4
    [] kind = "compliance_export" -> 5
    [] kind = "readiness" -> 6

Blocking(d) == \E n \in DOMAIN d.report.findings : d.report.findings[n].severity = "blocked"

\* The kernel's run for who has made its first n calls: one document each,
\* for that principal.  A denial blocks, an allowed decision names its actor,
\* the export cites the run's own documents, and readiness follows a decision
\* that was allowed.
RunOf(D, who, n) ==
  /\ \A d \in D : /\ Stage(d.kind) < n /\ d.tenant = who.tenant /\ d.actor = who.actor
                  /\ d.receipt # NoReceipt => d.receipt.evidence # {}
  /\ \A d, e \in D : d.kind = e.kind => d = e
  /\ \A k \in Kinds : Stage(k) < n => \E d \in D : d.kind = k
  /\ \A d \in D : d.kind = "tenant_decision" =>
                    IF d.receipt = NoReceipt THEN Blocking(d) ELSE who.actor # Blank
  /\ \A d \in D : d.kind = "compliance_export" =>
       \A l \in Labels : \E e \in D : e.kind = KindOf(l) /\ <<l, e.receipt>> \in d.cites
  /\ \A d \in D : d.kind = "readiness" /\ Ready(d) =>
       \E e \in D : e.kind = "tenant_decision" /\ e.receipt # NoReceipt

IInv ==
  /\ TypeOK
  /\ AccountedIn(docs, ledger)
  /\ caller # "kernel" => \A d \in docs : d.kind # "readiness"
  /\ caller = "kernel" => RunOf(docs, as, step)

LEMMA StageIs ==
  /\ Kinds = {"tenant_decision", "operation", "upgrade_plan", "rollback_plan",
              "replay_verification", "compliance_export", "readiness"}
  /\ Stage("tenant_decision") = 0 /\ Stage("operation") = 1 /\ Stage("upgrade_plan") = 2
  /\ Stage("rollback_plan") = 3 /\ Stage("replay_verification") = 4
  /\ Stage("compliance_export") = 5 /\ Stage("readiness") = 6
<1>1. Kinds = {"tenant_decision", "operation", "upgrade_plan", "rollback_plan",
               "replay_verification", "compliance_export", "readiness"}
  BY DEF Kinds
<1>2. Stage("tenant_decision") = 0 /\ Stage("operation") = 1
  BY DEF Stage
<1>3. Stage("upgrade_plan") = 2 /\ Stage("rollback_plan") = 3
  BY DEF Stage
<1>4. Stage("replay_verification") = 4 /\ Stage("compliance_export") = 5 /\ Stage("readiness") = 6
  BY DEF Stage
<1> QED
  BY <1>1, <1>2, <1>3, <1>4

LEMMA StageType == \A k \in Kinds : Stage(k) \in 0..6 /\ \A j \in Kinds : Stage(j) = Stage(k) => j = k
BY StageIs

\* The next call adds its document.
LEMMA RunGrows ==
  ASSUME NEW D, \A e \in D : e.kind \in Kinds, NEW who, NEW n \in Nat, RunOf(D, who, n),
         NEW d, d.kind \in Kinds, Stage(d.kind) = n,
         d.tenant = who.tenant, d.actor = who.actor, d.receipt # NoReceipt => d.receipt.evidence # {},
         d.kind = "tenant_decision" => IF d.receipt = NoReceipt THEN Blocking(d) ELSE who.actor # Blank,
         d.kind = "compliance_export" =>
           \A l \in Labels : \E e \in D : e.kind = KindOf(l) /\ <<l, e.receipt>> \in d.cites,
         d.kind = "readiness" /\ Ready(d) =>
           \E e \in D : e.kind = "tenant_decision" /\ e.receipt # NoReceipt
  PROVE  RunOf(D \cup {d}, who, n + 1)
<1>1. PICK E : E = D \cup {d}
  OBVIOUS
<1>2. \A e \in D : Stage(e.kind) < n /\ e.kind # d.kind /\ Stage(e.kind) \in 0..6
  BY StageType DEF RunOf
<1>3. \A x \in E : /\ Stage(x.kind) < n + 1 /\ x.tenant = who.tenant /\ x.actor = who.actor
                   /\ x.receipt # NoReceipt => x.receipt.evidence # {}
  BY <1>1, <1>2 DEF RunOf
<1>4. \A x, y \in E : x.kind = y.kind => x = y
  BY <1>1, <1>2 DEF RunOf
<1>5. \A k \in Kinds : Stage(k) < n + 1 => \E x \in E : x.kind = k
  <2>1. ASSUME NEW k \in Kinds, Stage(k) < n + 1 PROVE \E x \in E : x.kind = k
    <3>1. Stage(k) < n \/ Stage(k) = n
      BY <2>1, StageType
    <3>2. CASE Stage(k) < n
      BY <1>1, <3>2 DEF RunOf
    <3>3. CASE Stage(k) = n
      BY <1>1, <3>3, StageType
    <3> QED
      BY <3>1, <3>2, <3>3
  <2> QED
    BY <2>1
<1>6. \A x \in E : x.kind = "tenant_decision" =>
                     IF x.receipt = NoReceipt THEN Blocking(x) ELSE who.actor # Blank
  BY <1>1 DEF RunOf
<1>7. \A x \in E : x.kind = "compliance_export" =>
        \A l \in Labels : \E e \in E : e.kind = KindOf(l) /\ <<l, e.receipt>> \in x.cites
  BY <1>1 DEF RunOf
<1>8. \A x \in E : x.kind = "readiness" /\ Ready(x) =>
        \E e \in E : e.kind = "tenant_decision" /\ e.receipt # NoReceipt
  BY <1>1 DEF RunOf
<1>9. RunOf(E, who, n + 1)
  BY <1>3, <1>4, <1>5, <1>6, <1>7, <1>8, Zenon DEF RunOf
<1> QED
  BY <1>1, <1>9

\* A document handed out keeps the books balanced.
LEMMA Grows ==
  ASSUME TypeOK, AccountedIn(docs, ledger), NEW d, Hands(d),
         UNCHANGED <<clock, caller, as>>, step' \in 0..7
  PROVE  TypeOK' /\ AccountedIn(docs, ledger)'
<1>1. Handed(d) /\ d \in Document /\ docs' = docs \cup {d}
  BY DEF Hands, Handed
<1>2. ledger \in Seq(Receipt)
  BY DEF TypeOK
<1>3. docs' \subseteq Document
  BY <1>1 DEF TypeOK
<1>4. CASE d.receipt = NoReceipt
  <2>1. ledger' = ledger
    BY <1>4 DEF Hands
  <2>2. TypeOK'
    BY <1>3, <2>1 DEF TypeOK
  <2>3. AccountedIn(docs', ledger')
    BY <1>1, <1>4, <2>1 DEF AccountedIn
  <2> QED
    BY <2>2, <2>3
<1>5. CASE d.receipt # NoReceipt
  <2>1. PICK r : r = d.receipt
    OBVIOUS
  <2>2. r \in Receipt /\ ledger' = Append(ledger, r)
    BY <1>1, <1>5, <2>1 DEF Document, Hands
  <2>3. PICK l \in Nat : l = Len(ledger) /\ DOMAIN ledger = 1..l
    BY <1>2
  <2>4. PICK L : L = ledger'
    OBVIOUS
  <2>5. /\ L \in Seq(Receipt) /\ Len(L) = l + 1 /\ L[l + 1] = r
        /\ \A i \in 1..l : L[i] = ledger[i]
    BY <1>2, <2>2, <2>3, <2>4, AppendProperties
  <2>6. DOMAIN L = 1..(l + 1)
    BY <2>5
  <2>8. TypeOK'
    BY <1>3, <2>4, <2>5 DEF TypeOK
  <2>9. \A e \in docs' : Handed(e) /\ (e.receipt # NoReceipt => \E n \in DOMAIN L : L[n] = e.receipt)
    <3>1. l + 1 \in DOMAIN L /\ L[l + 1] = d.receipt
      BY <2>1, <2>5, <2>6
    <3>2. ASSUME NEW e \in docs, e.receipt # NoReceipt PROVE \E n \in DOMAIN L : L[n] = e.receipt
      <4>1. PICK n \in DOMAIN ledger : ledger[n] = e.receipt
        BY <3>2 DEF AccountedIn
      <4>2. n \in 1..l /\ n \in 1..(l + 1)
        BY <2>3
      <4> QED
        BY <2>5, <2>6, <4>1, <4>2
    <3> QED
      BY <1>1, <3>1, <3>2 DEF AccountedIn
  <2>10. \A n \in DOMAIN L : \E e \in docs' : e.receipt = L[n]
    <3>1. SUFFICES ASSUME NEW n \in 1..(l + 1) PROVE \E e \in docs' : e.receipt = L[n]
      BY <2>6
    <3>2. CASE n = l + 1
      BY <1>1, <2>1, <2>5, <3>2
    <3>3. CASE n \in 1..l
      BY <1>1, <2>3, <2>5, <3>3 DEF AccountedIn
    <3> QED
      BY <3>2, <3>3
  <2>11. AccountedIn(docs', ledger')
    BY <2>4, <2>9, <2>10 DEF AccountedIn
  <2> QED
    BY <2>8, <2>11
<1> QED
  BY <1>4, <1>5

LEMMA CallerIs ==
  ASSUME TypeOK, NEW p \in Principals PROVE Caller(p)
<1>1. p.tenant \in Tenants /\ p.actor \in Actors
  BY InputsAssumption
<1>2. Now \in Nat
  BY DEF TypeOK, Now
<1> QED
  BY <1>1, <1>2 DEF Caller

LEMMA ItsIs ==
  ASSUME IInv, caller = "kernel", NEW k \in Kinds, Stage(k) < step
  PROVE  Its(k) \in docs /\ Its(k).kind = k
<1>1. \E d \in docs : d.kind = k
  BY DEF IInv, RunOf
<1> QED
  BY <1>1, Zenon DEF Its

LEMMA KindsOf == \A l \in Labels : KindOf(l) \in Kinds /\ Stage(KindOf(l)) < 5
<1>1. /\ KindOf("rbac_decision") = "tenant_decision"
      /\ KindOf("tenant_policy") = "tenant_decision"
      /\ KindOf("upgrade_plan") = "upgrade_plan" /\ KindOf("rollback_plan") = "rollback_plan"
      /\ KindOf("ops_plan") = "operation" /\ KindOf("ops_report") = "operation"
      /\ KindOf("replay_verdict") = "replay_verification"
  BY DEF KindOf
<1> QED
  BY <1>1, LabelsAre, StageIs

LEMMA Prefix ==
  ASSUME NEW a \in Seq(Plain), NEW b \in Seq(Plain)
  PROVE  /\ a \o b \in Seq(Plain)
         /\ \A n \in DOMAIN a : n \in DOMAIN (a \o b) /\ (a \o b)[n] = a[n]
<1>1. PICK c : c = a \o b
  OBVIOUS
<1>2. PICK j \in Nat, k \in Nat : j = Len(a) /\ k = Len(b)
  OBVIOUS
<1>3. c \in Seq(Plain) /\ Len(c) = j + k /\ \A i \in 1..j : c[i] = a[i]
  BY <1>1, <1>2, ConcatProperties
<1>4. DOMAIN a = 1..j /\ DOMAIN c = 1..(j + k)
  BY <1>2, <1>3
<1>5. \A n \in 1..j : n \in 1..(j + k)
  OBVIOUS
<1> QED
  BY <1>1, <1>3, <1>4, <1>5

\* What the kernel merges: nothing of it says ready, and all of the tenant
\* decision's findings are in it.
LEMMA Merged ==
  ASSUME IInv, caller = "kernel", step = 6
  PROVE  /\ KernelFindings \in Seq(Plain)
         /\ \A n \in DOMAIN Its("tenant_decision").report.findings :
              /\ n \in DOMAIN KernelFindings
              /\ KernelFindings[n] = Its("tenant_decision").report.findings[n]
<1>1. ASSUME NEW k \in Kinds, Stage(k) < 6 PROVE Its(k).report.findings \in Seq(Plain)
  <2>1. Its(k) \in docs /\ Its(k).kind = k /\ k # "readiness"
    BY <1>1, ItsIs, StageIs
  <2> QED
    BY <2>1 DEF IInv, AccountedIn, Handed
<1>2. PICK a \in Seq(Plain) : a = Its("tenant_decision").report.findings
  BY <1>1, StageIs
<1>3. PICK b \in Seq(Plain) : b = Its("operation").report.findings
  BY <1>1, StageIs
<1>4. PICK c \in Seq(Plain) : c = Its("compliance_export").report.findings
  BY <1>1, StageIs
<1>5. PICK d \in Seq(Plain) : d = Its("upgrade_plan").report.findings
  BY <1>1, StageIs
<1>6. PICK e \in Seq(Plain) : e = Its("replay_verification").report.findings
  BY <1>1, StageIs
<1>7. KernelFindings = a \o b \o c \o d \o e
  BY <1>2, <1>3, <1>4, <1>5, <1>6, Zenon DEF KernelFindings
<1>8. PICK ab \in Seq(Plain) : ab = a \o b /\ \A n \in DOMAIN a : n \in DOMAIN ab /\ ab[n] = a[n]
  BY Prefix
<1>9. PICK abc \in Seq(Plain) :
        abc = ab \o c /\ \A n \in DOMAIN ab : n \in DOMAIN abc /\ abc[n] = ab[n]
  BY Prefix
<1>10. PICK abcd \in Seq(Plain) :
         abcd = abc \o d /\ \A n \in DOMAIN abc : n \in DOMAIN abcd /\ abcd[n] = abc[n]
  BY Prefix
<1>11. PICK abcde \in Seq(Plain) :
         abcde = abcd \o e /\ \A n \in DOMAIN abcd : n \in DOMAIN abcde /\ abcde[n] = abcd[n]
  BY Prefix
<1>12. KernelFindings = abcde
  BY <1>7, <1>8, <1>9, <1>10, <1>11, Zenon
<1>13. \A n \in DOMAIN a : n \in DOMAIN abcde /\ abcde[n] = a[n]
  BY <1>8, <1>9, <1>10, <1>11
<1> QED
  BY <1>2, <1>12, <1>13, Zenon

LEMMA CitesIs ==
  ASSUME IInv, caller = "kernel", step = 5
  PROVE  /\ KernelCites \in SUBSET (Labels \X (Receipt \cup {NoReceipt}))
         /\ {x[1] : x \in KernelCites} # {}
         /\ \A l \in Labels : \E e \in docs : e.kind = KindOf(l) /\ <<l, e.receipt>> \in KernelCites
<1>1. ASSUME NEW l \in Labels
      PROVE  /\ Its(KindOf(l)) \in docs /\ Its(KindOf(l)).kind = KindOf(l)
             /\ Its(KindOf(l)).receipt \in Receipt \cup {NoReceipt}
             /\ <<l, Its(KindOf(l)).receipt>> \in KernelCites
  <2>1. Its(KindOf(l)) \in docs /\ Its(KindOf(l)).kind = KindOf(l)
    BY KindsOf, ItsIs
  <2>2. Its(KindOf(l)) \in Document
    BY <2>1 DEF IInv, TypeOK
  <2>3. <<l, Its(KindOf(l)).receipt>> \in KernelCites
    BY DEF KernelCites
  <2> QED
    BY <2>1, <2>2, <2>3 DEF Document
<1>2. KernelCites \subseteq Labels \X (Receipt \cup {NoReceipt})
  BY <1>1 DEF KernelCites
<1>3. {x[1] : x \in KernelCites} # {}
  <2>1. PICK l : l \in Labels
    BY LabelsAre
  <2>2. PICK x \in KernelCites : TRUE
    BY <1>1, <2>1
  <2> QED
    BY <2>2
<1> QED
  BY <1>1, <1>2, <1>3

LEMMA KernelAdds ==
  ASSUME IInv, caller = "kernel", UNCHANGED <<clock, caller, as>>, step' = step + 1,
         NEW p, p = as, NEW k \in Kinds, Stage(k) = step, NEW d, For(d, p, k),
         k = "tenant_decision" => IF d.receipt = NoReceipt THEN Blocking(d) ELSE p.actor # Blank,
         k = "compliance_export" =>
           \A l \in Labels : \E e \in docs : e.kind = KindOf(l) /\ <<l, e.receipt>> \in d.cites,
         k = "readiness" /\ Ready(d) =>
           \E e \in docs : e.kind = "tenant_decision" /\ e.receipt # NoReceipt
  PROVE  IInv'
<1>1. PICK n : n = step
  OBVIOUS
<1>2. n \in 0..6 /\ n \in Nat
  BY <1>1, StageType
<1>3. step' \in 0..7 /\ step' = n + 1
  BY <1>1, <1>2
<1>4. Hands(d) /\ docs' = docs \cup {d} /\ caller' = "kernel" /\ as' = p
  BY DEF For, Hands
<1>5. TypeOK' /\ AccountedIn(docs, ledger)'
  BY <1>3, <1>4, Grows DEF IInv
<1>6. PICK D : D = docs
  OBVIOUS
<1>7. RunOf(D, p, n)
  BY <1>1, <1>6 DEF IInv
<1>8. \A e \in D : e.kind \in Kinds
  BY <1>6 DEF IInv, TypeOK, Document
<1>9. RunOf(D \cup {d}, p, n + 1)
  <2>1. /\ d.kind = k /\ d.tenant = p.tenant /\ d.actor = p.actor
        /\ d.receipt # NoReceipt => d.receipt.evidence # {}
    BY DEF For
  <2>2. Stage(d.kind) = n
    BY <1>1, <2>1
  <2> QED
    BY <1>2, <1>6, <1>7, <1>8, <2>1, <2>2, RunGrows
<1>10. RunOf(docs', as', step')
  BY <1>3, <1>4, <1>6, <1>9, Zenon
<1> QED
  BY <1>4, <1>5, <1>10 DEF IInv

LEMMA KernelKeeps ==
  ASSUME IInv, KernelStep PROVE IInv'
<1>1. /\ caller = "kernel" /\ step' = step + 1 /\ UNCHANGED <<clock, caller, as>> /\ TypeOK
  BY DEF KernelStep, IInv
<1>2. PICK p : p = as
  OBVIOUS
<1>3. Caller(p)
  BY <1>1, <1>2, CallerIs DEF TypeOK
<1>4. CASE step = 0 /\ Decide(KernelInput)
  <2>1. PICK in : in = KernelInput
    OBVIOUS
  <2>2. /\ in.tenant = p.tenant /\ in.actor = p.actor /\ in.role = "auditor"
        /\ in.action = "export_compliance"
    BY <1>2, <2>1 DEF KernelInput
  <2>3. Caller(in) /\ in.role \in Roles /\ in.action \in TenantActions
    BY <1>3, <2>2 DEF Caller, Roles, TenantActions
  <2>4. Decide(in)
    BY <1>4, <2>1
  <2>5. PICK d : /\ For(d, in, "tenant_decision")
                 /\ IF d.receipt = NoReceipt THEN Blocking(d) ELSE in.actor # Blank
    BY <2>3, <2>4, AllowHands, DenyHands DEF Decide, Blocking
  <2>6. For(d, p, "tenant_decision")
    BY <2>2, <2>5 DEF For
  <2> QED
    BY <1>1, <1>2, <1>4, <2>2, <2>5, <2>6, StageIs, KernelAdds
<1>5. CASE step = 1 /\ Evaluate(as, <<{}, {}, {}>>)
  <2>1. Evaluate(p, <<{}, {}, {}>>)
    BY <1>2, <1>5
  <2>2. PICK signals \in Seq({{}}) : signals = <<{}, {}, {}>>
    <3>1. <<{}, {}, {}>> \in Seq({{}})
      OBVIOUS
    <3> QED
      BY <3>1
  <2>3. PICK d : For(d, p, "operation")
    BY <1>3, <2>1, <2>2, EvaluateHands
  <2> QED
    BY <1>1, <1>2, <1>5, <2>3, StageIs, KernelAdds
<1>6. CASE step = 2 /\ PlanUpgrade(as, KernelUpgrade)
  <2>1. PICK d : For(d, p, "upgrade_plan")
    BY <1>2, <1>3, <1>6, Empties, PlanUpgradeHands
  <2> QED
    BY <1>1, <1>2, <1>6, <2>1, StageIs, KernelAdds
<1>7. CASE step = 3 /\ PlanRollback(as, Its("upgrade_plan").plan)
  <2>1. PICK u : u = Its("upgrade_plan").plan
    OBVIOUS
  <2>2. u \in Upgrade
    <3>1. Its("upgrade_plan") \in docs
      BY <1>1, <1>7, StageIs, ItsIs
    <3> QED
      BY <1>1, <2>1, <3>1 DEF TypeOK, Document
  <2>3. PlanRollback(p, u)
    BY <1>2, <1>7, <2>1
  <2>4. PICK d : For(d, p, "rollback_plan")
    BY <1>3, <2>2, <2>3, PlanRollbackHands
  <2> QED
    BY <1>1, <1>2, <1>7, <2>4, StageIs, KernelAdds
<1>8. CASE step = 4 /\ VerifyClaim(as, "bench_phase11_fixture", {})
  <2>1. PICK d : For(d, p, "replay_verification")
    <3>1. "bench_phase11_fixture" \in Subjects
      BY DEF Subjects
    <3> QED
      BY <1>2, <1>3, <1>8, <3>1, VerifyClaimHands
  <2> QED
    BY <1>1, <1>2, <1>8, <2>1, StageIs, KernelAdds
<1>9. CASE step = 5 /\ Export(as, KernelCites)
  <2>1. PICK c : c = KernelCites
    OBVIOUS
  <2>2. /\ c \in SUBSET (Labels \X (Receipt \cup {NoReceipt}))
        /\ {x[1] : x \in c} # {}
        /\ \A l \in Labels : \E e \in docs : e.kind = KindOf(l) /\ <<l, e.receipt>> \in c
    BY <1>1, <1>9, <2>1, CitesIs
  <2>3. Export(p, c)
    BY <1>2, <1>9, <2>1
  <2>4. PICK d : /\ Handed(d) /\ docs' = docs \cup {d} /\ d.receipt # NoReceipt
                 /\ ledger' = Append(ledger, d.receipt)
                 /\ d.kind = "compliance_export" /\ d.tenant = p.tenant /\ d.actor = p.actor
                 /\ d.cites = c /\ d.receipt.evidence = {x[1] : x \in c}
    BY <1>3, <2>2, <2>3, ExportHands
  <2>5. For(d, p, "compliance_export")
    BY <2>2, <2>4 DEF For, Hands
  <2> QED
    BY <1>1, <1>2, <1>9, <2>2, <2>4, <2>5, StageIs, KernelAdds
<1>10. CASE step = 6 /\ Conclude
  <2>1. PICK merged \in Seq(Plain) :
          /\ merged = KernelFindings
          /\ \A n \in DOMAIN Its("tenant_decision").report.findings :
               /\ n \in DOMAIN merged
               /\ merged[n] = Its("tenant_decision").report.findings[n]
    BY <1>1, <1>10, Merged
  <2>2. PICK found : found = IF \A n \in DOMAIN merged : merged[n].severity = "info"
                             THEN Append(merged, [code |-> "phase11.ready", severity |-> "info"])
                             ELSE merged
    OBVIOUS
  <2>3. PICK r : r = NewReceipt(p, "readiness", "phase11-readiness", {ReportOf(found).state})
    OBVIOUS
  <2>4. Issue(r, Doc(r, r, Push(ReportOf(found),
                                [code |-> "readiness_receipt", severity |-> "info"])))
    BY <1>2, <1>10, <2>1, <2>2, <2>3, Zenon DEF Conclude
  <2>5. PICK d : /\ For(d, p, "readiness")
                 /\ Ready(d) => \A n \in DOMAIN merged : merged[n].severity = "info"
    BY <1>3, <2>2, <2>3, <2>4, ConcludeHands
  <2>6. ASSUME Ready(d) PROVE \E e \in docs : e.kind = "tenant_decision" /\ e.receipt # NoReceipt
    <3>1. PICK e \in docs : e = Its("tenant_decision") /\ e.kind = "tenant_decision"
      BY <1>1, <1>10, StageIs, ItsIs
    <3>2. ~ Blocking(e)
      BY <2>1, <2>5, <2>6, <3>1 DEF Blocking
    <3>3. e.receipt # NoReceipt
      BY <1>1, <3>1, <3>2 DEF IInv, RunOf
    <3> QED
      BY <3>1, <3>3
  <2> QED
    BY <1>1, <1>2, <1>10, <2>5, <2>6, StageIs, KernelAdds
<1> QED
  BY <1>4, <1>5, <1>6, <1>7, <1>8, <1>9, <1>10 DEF KernelStep

LEMMA ServiceKeeps ==
  ASSUME IInv, ServiceCall PROVE IInv'
<1>1. caller = "services" /\ UNCHANGED <<clock, caller, as, step>> /\ TypeOK
  BY DEF ServiceCall, IInv
<1>2. ASSUME NEW p, NEW k, k # "readiness", NEW d, For(d, p, k) PROVE IInv'
  <2>1. Hands(d) /\ docs' = docs \cup {d} /\ d.kind # "readiness"
    BY <1>2 DEF For, Hands
  <2>2. step' \in 0..7
    BY <1>1 DEF TypeOK
  <2>3. TypeOK' /\ AccountedIn(docs, ledger)'
    BY <1>1, <2>1, <2>2, Grows DEF IInv
  <2> QED
    BY <1>1, <2>1, <2>3 DEF IInv
<1>3. CASE \E in \in PolicyInputs : Decide(in)
  <2>1. PICK in \in PolicyInputs : Decide(in)
    BY <1>3
  <2>2. Caller(in) /\ in.role \in Roles /\ in.action \in TenantActions
    <3>1. Now \in Nat
      BY <1>1 DEF TypeOK, Now
    <3> QED
      BY <3>1, InputsAssumption DEF PolicyInput, Caller
  <2>3. PICK d : For(d, in, "tenant_decision")
    BY <2>1, <2>2, AllowHands, DenyHands DEF Decide
  <2> QED
    BY <1>2, <2>3
<1>4. ASSUME NEW p \in Principals, \E signals \in SignalLists : Evaluate(p, signals) PROVE IInv'
  <2>1. PICK signals \in Seq(SUBSET Breaches) : Evaluate(p, signals)
    BY <1>4, InputsAssumption
  <2>2. PICK d : For(d, p, "operation")
    BY <1>1, <2>1, CallerIs, EvaluateHands
  <2> QED
    BY <1>2, <2>2
<1>5. ASSUME NEW p \in Principals, \E u \in Upgrades : PlanUpgrade(p, u) PROVE IInv'
  <2>1. PICK u \in Upgrade : PlanUpgrade(p, u)
    BY <1>5, InputsAssumption
  <2>2. PICK d : For(d, p, "upgrade_plan")
    BY <1>1, <2>1, CallerIs, PlanUpgradeHands
  <2> QED
    BY <1>2, <2>2
<1>6. ASSUME NEW p \in Principals, NEW e \in docs, PlanRollback(p, e.plan) PROVE IInv'
  <2>1. PICK u \in Upgrade : u = e.plan
    BY <1>1 DEF TypeOK, Document
  <2>2. PlanRollback(p, u)
    BY <1>6, <2>1
  <2>3. PICK d : For(d, p, "rollback_plan")
    BY <1>1, <2>2, CallerIs, PlanRollbackHands
  <2> QED
    BY <1>2, <2>3
<1>7. ASSUME NEW p \in Principals,
             \E name \in ClaimNames, faults \in Claims : VerifyClaim(p, name, faults)
      PROVE  IInv'
  <2>1. PICK name \in Subjects, faults \in Claims : VerifyClaim(p, name, faults)
    BY <1>7 DEF Subjects
  <2>2. PICK d : For(d, p, "replay_verification")
    BY <1>1, <2>1, CallerIs, VerifyClaimHands
  <2> QED
    BY <1>2, <2>2
<1>8. ASSUME NEW p \in Principals, NEW e \in docs, NEW labels \in LabelSets,
             Export(p, {<<l, e.receipt>> : l \in labels})
      PROVE  IInv'
  <2>1. PICK c : c = {<<l, e.receipt>> : l \in labels}
    OBVIOUS
  <2>2. c \in SUBSET (Labels \X (Receipt \cup {NoReceipt}))
    <3>1. labels \subseteq Labels /\ e.receipt \in Receipt \cup {NoReceipt}
      BY <1>1, InputsAssumption DEF TypeOK, Document
    <3> QED
      BY <2>1, <3>1
  <2>3. Export(p, c)
    BY <1>8, <2>1
  <2>4. PICK d : /\ Handed(d) /\ docs' = docs \cup {d} /\ d.receipt # NoReceipt
                 /\ ledger' = Append(ledger, d.receipt) /\ d.kind = "compliance_export"
    BY <1>1, <2>2, <2>3, CallerIs, ExportHands
  <2>5. step' \in 0..7 /\ Hands(d)
    BY <1>1, <2>4 DEF TypeOK, Hands
  <2>6. TypeOK' /\ AccountedIn(docs, ledger)'
    BY <1>1, <2>5, Grows DEF IInv
  <2> QED
    BY <1>1, <2>4, <2>6 DEF IInv
<1> QED
  BY <1>3, <1>4, <1>5, <1>6, <1>7, <1>8 DEF ServiceCall

LEMMA Initially == Init => IInv
<1> SUFFICES ASSUME Init PROVE IInv
  OBVIOUS
<1>1. ledger = <<>> /\ docs = {} /\ step = 0 /\ clock = 0 /\ caller \in Callers /\ as \in Principals
  BY DEF Init
<1>2. ledger \in Seq(Receipt) /\ DOMAIN ledger = {}
  BY <1>1
<1>3. TypeOK
  <2>1. clock \in Int /\ step \in 0..7 /\ docs \subseteq Document
    BY <1>1
  <2> QED
    BY <1>1, <1>2, <2>1, Zenon DEF TypeOK
<1>4. AccountedIn(docs, ledger)
  BY <1>1, <1>2 DEF AccountedIn
<1>5. RunOf(docs, as, step)
  <2>1. \A k \in Kinds : ~ (Stage(k) < 0)
    BY StageType
  <2> QED
    BY <1>1, <2>1 DEF RunOf
<1> QED
  BY <1>1, <1>3, <1>4, <1>5 DEF IInv

LEMMA Keeps == IInv /\ [Next]_vars => IInv'
<1> SUFFICES ASSUME IInv, [Next]_vars PROVE IInv'
  OBVIOUS
<1>1. CASE Tick
  <2>1. /\ TypeOK /\ AccountedIn(docs, ledger) /\ clock' \in -1..MaxClock
        /\ UNCHANGED <<caller, as, step, ledger, docs>>
    BY <1>1 DEF Tick, IInv
  <2>4. clock' \in Int
    BY <2>1
  <2>5. TypeOK'
    BY <2>1, <2>4 DEF TypeOK
  <2> QED
    BY <2>1, <2>5 DEF IInv
<1>2. CASE ServiceCall
  BY <1>2, ServiceKeeps
<1>3. CASE KernelStep
  BY <1>3, KernelKeeps
<1>4. CASE UNCHANGED vars
  <2>1. UNCHANGED <<clock, caller, as, step, ledger, docs>>
    BY <1>4 DEF vars
  <2>2. TypeOK'
    BY <2>1 DEF IInv, TypeOK
  <2> QED
    BY <2>1, <2>2 DEF IInv
<1> QED
  BY <1>1, <1>2, <1>3, <1>4 DEF Next

LEMMA Inductive == Spec => []IInv
BY Initially, Keeps, PTL DEF Spec

-----------------------------------------------------------------------------
(* The theorems.                                                           *)

\* Whatever is asked, in any order, and however the clock is set: documents
\* and receipts keep their types (json.rs:5-11, audit.rs:47-78).
THEOREM GovernanceTypeCorrect == Spec => []TypeOK
<1>1. IInv => TypeOK
  BY DEF IInv
<1> QED
  BY <1>1, Inductive, PTL

\* A receipt in the ledger is found, or one before it with the same id.
LEMMA Found ==
  ASSUME TypeOK, NEW s, \E n \in DOMAIN ledger : ledger[n] = s
  PROVE  Find(Id(s)) \in Receipt /\ Id(Find(Id(s))) = Id(s)
<1>1. PICK T : T = {n \in DOMAIN ledger : Id(ledger[n]) = Id(s)}
  OBVIOUS
<1>2. DOMAIN ledger \subseteq Nat /\ \A n \in DOMAIN ledger : ledger[n] \in Receipt
  <2>1. ledger \in Seq(Receipt)
    BY DEF TypeOK
  <2> QED
    BY <2>1
<1>3. T \subseteq Nat /\ T # {} /\ \A n \in T : Id(ledger[n]) = Id(s) /\ ledger[n] \in Receipt
  BY <1>1, <1>2
<1>4. \E m \in T : \A n \in T : m <= n
  BY <1>3, Least
<1>5. PICK m \in T : m = CHOOSE n \in T : \A k \in T : n <= k
  BY <1>4, Zenon
<1>6. Find(Id(s)) = ledger[m]
  BY <1>1, <1>3, <1>5, Zenon DEF Find
<1> QED
  BY <1>3, <1>6

Sized(a, S, m) == a \in Seq(S) /\ m \in Nat /\ Len(a) = m

\* c is a, of length m, and then b, of length n.
Cats(c, S, a, b, m, n) ==
  /\ c \in Seq(S) /\ Len(c) = m + n
  /\ \A i \in 1..(m + n) : c[i] = IF i <= m THEN a[i] ELSE b[i - m]

LEMMA Cat ==
  ASSUME NEW S, NEW a, NEW b, NEW m, NEW n, Sized(a, S, m), Sized(b, S, n)
  PROVE  Cats(a \o b, S, a, b, m, n)
<1>1. a \in Seq(S) /\ b \in Seq(S) /\ Len(a) = m /\ Len(b) = n
  BY DEF Sized
<1>2. /\ a \o b \in Seq(S) /\ Len(a \o b) = Len(a) + Len(b)
      /\ \A i \in 1..(Len(a) + Len(b)) : (a \o b)[i] = IF i <= Len(a) THEN a[i] ELSE b[i - Len(a)]
  BY <1>1, ConcatProperties, Zenon
<1> QED
  BY <1>1, <1>2, Zenon DEF Cats

\* Six fields, the third and the fourth of one word.
Fields(j, t, k, x, y, e, m) ==
  j[1] = t /\ j[2] = k /\ j[3] = x /\ j[4] = y /\ j[5] = e /\ j[6] = m

Has1(q, S, u) == q \in Seq(S) /\ Len(q) = 1 /\ q[1] = u
Has2(q, S, u, v) == q \in Seq(S) /\ Len(q) = 2 /\ q[1] = u /\ q[2] = v

LEMMA Tuples ==
  ASSUME NEW S, NEW u \in S, NEW v \in S
  PROVE  Has1(<<u>>, S, u) /\ Has2(<<u, v>>, S, u, v)
<1>1. /\ <<u>> \in Seq(S) /\ Len(<<u>>) = 1 /\ <<u>>[1] = u
      /\ <<u, v>> \in Seq(S) /\ Len(<<u, v>>) = 2 /\ <<u, v>>[1] = u /\ <<u, v>>[2] = v
  OBVIOUS
<1> QED
  BY <1>1, Zenon DEF Has1, Has2

LEMMA Joins ==
  ASSUME NEW S, NEW t, NEW k, NEW x, NEW y, NEW e, NEW m, NEW a, NEW b, NEW c, NEW d,
         Has2(a, S, t, k), Has1(b, S, x), Has1(c, S, y), Has2(d, S, e, m)
  PROVE  Fields(a \o b \o c \o d, t, k, x, y, e, m)
<1>1. /\ a \in Seq(S) /\ Len(a) = 2 /\ a[1] = t /\ a[2] = k
      /\ b \in Seq(S) /\ Len(b) = 1 /\ b[1] = x
      /\ c \in Seq(S) /\ Len(c) = 1 /\ c[1] = y
      /\ d \in Seq(S) /\ Len(d) = 2 /\ d[1] = e /\ d[2] = m
  BY DEF Has1, Has2
<1>2. PICK f : f = a \o b /\ Cats(f, S, a, b, 2, 1)
  <2>1. Sized(a, S, 2) /\ Sized(b, S, 1)
    BY <1>1 DEF Sized
  <2> QED
    BY <2>1, Cat, Zenon
<1>3. f \in Seq(S) /\ Len(f) = 3 /\ f[1] = t /\ f[2] = k /\ f[3] = x
  BY <1>1, <1>2 DEF Cats
<1>4. PICK g : g = f \o c /\ Cats(g, S, f, c, 3, 1)
  <2>1. Sized(f, S, 3) /\ Sized(c, S, 1)
    BY <1>1, <1>3 DEF Sized
  <2> QED
    BY <2>1, Cat, Zenon
<1>5. g \in Seq(S) /\ Len(g) = 4 /\ g[1] = t /\ g[2] = k /\ g[3] = x /\ g[4] = y
  BY <1>1, <1>3, <1>4 DEF Cats
<1>6. PICK h : h = g \o d /\ Cats(h, S, g, d, 4, 2)
  <2>1. Sized(g, S, 4) /\ Sized(d, S, 2)
    BY <1>1, <1>5 DEF Sized
  <2> QED
    BY <2>1, Cat, Zenon
<1>7. h[1] = t /\ h[2] = k /\ h[3] = x /\ h[4] = y /\ h[5] = e /\ h[6] = m
  <2>1. h[1] = g[1] /\ h[2] = g[2] /\ h[3] = g[3] /\ h[4] = g[4]
    BY <1>6 DEF Cats
  <2>2. h[5] = d[1] /\ h[6] = d[2]
    BY <1>6 DEF Cats
  <2> QED
    BY <1>1, <1>5, <2>1, <2>2
<1>8. h = a \o b \o c \o d
  BY <1>2, <1>4, <1>6, Zenon
<1> QED
  BY <1>7, <1>8, Zenon DEF Fields

LEMMA Joined ==
  ASSUME NEW t, NEW k, NEW x, NEW y, NEW e, NEW m
  PROVE  Fields(<<t, k>> \o <<x>> \o <<y>> \o <<e, m>>, t, k, x, y, e, m)
<1>1. PICK S : S = {t, k, x, y, e, m}
  OBVIOUS
<1>2. /\ t \in S /\ k \in S /\ x \in S /\ y \in S /\ e \in S /\ m \in S
  BY <1>1
<1>3. Has2(<<t, k>>, S, t, k) /\ Has1(<<x>>, S, x) /\ Has1(<<y>>, S, y) /\ Has2(<<e, m>>, S, e, m)
  BY <1>2, Tuples, Zenon
<1> QED
  BY <1>3, Joins, Zenon

\* Of receipts without separators, the joined fields tell every field.
LEMMA Told ==
  ASSUME NEW r \in Receipt, NEW s \in Receipt, Separable(r, s), Id(r) = Id(s)
  PROVE  r = s
<1>1. Canonical(r) = Canonical(s)
  BY DEF Separable, Id
<1>2. /\ r.actor \in Actors \cup Subjects /\ r.subject \in Actors \cup Subjects
      /\ s.actor \in Actors \cup Subjects /\ s.subject \in Actors \cup Subjects
  BY DEF Receipt
<1>3. ASSUME NEW t \in {r.actor, r.subject, s.actor, s.subject}
      PROVE  \E x : Words[t] = <<x>>
  <2>1. PICK w : w = Words[t]
    OBVIOUS
  <2>2. w \in Seq(Word) /\ Len(w) = 1
    BY <1>2, <2>1, InputsAssumption DEF Separable
  <2>3. w = <<w[1]>>
    BY <2>2
  <2> QED
    BY <2>1, <2>3
<1>4. PICK a, b, c, d :
        Words[r.actor] = <<a>> /\ Words[r.subject] = <<b>>
        /\ Words[s.actor] = <<c>> /\ Words[s.subject] = <<d>>
  BY <1>3
<1>5. PICK j : j = Canonical(r)
  OBVIOUS
<1>6. /\ j[1] = r.tenant /\ j[2] = r.kind /\ j[3] = a /\ j[4] = b
      /\ j[5] = r.evidence /\ j[6] = r.at
  <2>1. j = <<r.tenant, r.kind>> \o <<a>> \o <<b>> \o <<r.evidence, r.at>>
    BY <1>4, <1>5, Zenon DEF Canonical
  <2>2. Fields(j, r.tenant, r.kind, a, b, r.evidence, r.at)
    BY <2>1, Joined, Zenon
  <2> QED
    BY <2>2 DEF Fields
<1>7. /\ j[1] = s.tenant /\ j[2] = s.kind /\ j[3] = c /\ j[4] = d
      /\ j[5] = s.evidence /\ j[6] = s.at
  <2>1. j = <<s.tenant, s.kind>> \o <<c>> \o <<d>> \o <<s.evidence, s.at>>
    BY <1>1, <1>4, <1>5, Zenon DEF Canonical
  <2>2. Fields(j, s.tenant, s.kind, c, d, s.evidence, s.at)
    BY <2>1, Joined, Zenon
  <2> QED
    BY <2>2 DEF Fields
<1>8. r.actor = s.actor /\ r.subject = s.subject
  <2>1. \A t, u \in Actors \cup Subjects : Words[t] = Words[u] => t = u
    BY InputsAssumption, Zenon
  <2>2. Words[r.actor] = Words[s.actor] /\ Words[r.subject] = Words[s.subject]
    BY <1>4, <1>6, <1>7, Zenon
  <2> QED
    BY <1>2, <2>1, <2>2, Zenon
<1>9. /\ r.tenant = s.tenant /\ r.kind = s.kind /\ r.evidence = s.evidence /\ r.at = s.at
  BY <1>6, <1>7
<1> QED
  BY <1>8, <1>9 DEF Receipt

\* However many documents, whatever the digest and the clock: all but denied
\* decisions have their receipt in the ledger, its id finds one, and it is
\* their own unless a text in the two has a separator or their digests
\* collide (audit.rs:47-78, 111-125, tenant.rs:135-188).
THEOREM LedgerAccountsHolds == Spec => []LedgerAccounts
<1>1. ASSUME IInv PROVE LedgerAccounts
  <2>1. TypeOK /\ AccountedIn(docs, ledger)
    BY <1>1 DEF IInv
  <2>2. ASSUME NEW d \in docs, ~ (d.kind = "tenant_decision" /\ d.report.state = "blocked"),
               NEW s, s = d.receipt
        PROVE  /\ \E n \in DOMAIN ledger : ledger[n] = s
               /\ s.tenant = d.tenant /\ s.kind = d.kind /\ s.actor = d.actor /\ s.at = d.at
               /\ s.kind \in {"operation", "replay_verification", "readiness"} =>
                    d.report.state \in s.evidence
               /\ Find(Id(s)) # NoReceipt
               /\ Separable(Find(Id(s)), s) => Find(Id(s)) = s
    <3>1. d.receipt # NoReceipt
      BY <2>1, <2>2 DEF AccountedIn, Handed, Denied
    <3>2. \E n \in DOMAIN ledger : ledger[n] = s
      BY <2>1, <2>2, <3>1 DEF AccountedIn
    <3>3. /\ s.tenant = d.tenant /\ s.kind = d.kind /\ s.actor = d.actor /\ s.at = d.at
          /\ s.kind \in {"operation", "replay_verification", "readiness"} =>
               d.report.state \in s.evidence
      BY <2>1, <2>2, <3>1 DEF AccountedIn, Handed
    <3>4. s \in Receipt
      BY <2>1, <2>2, <3>1 DEF TypeOK, Document
    <3>5. Find(Id(s)) \in Receipt /\ Id(Find(Id(s))) = Id(s)
      BY <2>1, <3>2, Found
    <3> QED
      BY <3>2, <3>3, <3>4, <3>5, NoReceiptIs, Told
  <2>3. ASSUME NEW d \in docs, d.kind = "tenant_decision", d.report.state = "blocked"
        PROVE  d.receipt = NoReceipt
    BY <2>1, <2>3 DEF AccountedIn, Handed, Denied
  <2>4. \A n \in DOMAIN ledger : \E d \in docs : d.receipt = ledger[n]
    BY <2>1 DEF AccountedIn
  <2> QED
    BY <2>2, <2>3, <2>4, Zenon DEF LedgerAccounts
<1> QED
  BY <1>1, Inductive, PTL

\* However many findings are pushed in whatever order, a report's state is
\* that of its worst one, and the mutation gate is open exactly while nothing
\* fails closed (report.rs:82-102, severity.rs:26-55, ops.rs:237-239).
THEOREM StateIsWorstHolds == Spec => []StateIsWorst
<1>1. IInv => StateIsWorst
  BY JudgedIs DEF IInv, AccountedIn, Handed, StateIsWorst
<1> QED
  BY <1>1, Inductive, PTL

\* A rollback plan takes back the migrations of its upgrade, newest first and
\* however many there are; it stops short only at one that is not reversible,
\* and no report on such an upgrade opens the mutation gate
\* (lifecycle.rs:34-37, 87-102, 190-218, ops.rs:237-239).
THEOREM RollbackUndoesHolds == Spec => []RollbackUndoes
<1>1. ASSUME IInv PROVE RollbackUndoes
  <2>1. ASSUME NEW d \in docs, d.kind = "rollback_plan",
               NEW left, left = FoldLeft(TakenBack, d.plan.migrations, d.steps), left # <<>>
        PROVE  /\ left[Len(left)].undo = Blank
               /\ \A e \in docs : e.kind = "upgrade_plan" /\ e.plan = d.plan =>
                    ~ MutationGate(e.report.state)
    <3>1. PICK u \in Upgrade : u = d.plan
      BY <1>1 DEF IInv, TypeOK, Document
    <3>2. PICK m \in Seq(Migration) : m = u.migrations
      BY DEF Upgrade
    <3>3. left = FoldLeft(TakenBack, u.migrations, RollbackSteps(u))
      <4>1. d.steps = RollbackSteps(u)
        BY <1>1, <2>1, <3>1 DEF IInv, AccountedIn, Handed
      <4> QED
        BY <2>1, <3>1, <4>1, Zenon
    <3>4. Stuck(left, m)
      <4>1. PICK l : /\ l = FoldLeft(TakenBack, u.migrations, RollbackSteps(u))
                     /\ l = <<>> \/ Stuck(l, u.migrations)
        BY Undone, Zenon
      <4>2. l = left
        BY <3>3, <4>1, Zenon
      <4> QED
        BY <2>1, <3>2, <4>1, <4>2
    <3>5. left[Len(left)].undo = Blank /\ \E n \in DOMAIN m : m[n].undo = Blank
      BY <3>4, StuckIs
    <3>6. Within(Irreversible, UpgradeFindings(u))
      BY <3>2, <3>5, UpgradeType
    <3>7. ASSUME NEW e \in docs, e.kind = "upgrade_plan", e.plan = d.plan
          PROVE  ~ MutationGate(e.report.state)
      <4>1. e.report = ReportOf(UpgradeFindings(u))
        BY <1>1, <3>1, <3>7 DEF IInv, AccountedIn, Handed
      <4>2. UpgradeFindings(u) \in Seq(Plain)
        BY UpgradeType
      <4>3. Judged(e.report) /\ e.report.findings = UpgradeFindings(u)
        BY <4>1, <4>2, PlainReport
      <4>4. PICK n \in DOMAIN e.report.findings : e.report.findings[n] = Irreversible
        BY <3>6, <4>3 DEF Within
      <4>5. FailsClosed(e.report.findings[n].severity)
        BY <4>4 DEF Irreversible, FailsClosed
      <4> QED
        BY <4>3, <4>5, JudgedIs
    <3> QED
      BY <3>5, <3>7
  <2> QED
    BY <2>1, Zenon DEF RollbackUndoes
<1> QED
  BY <1>1, Inductive, PTL

\* What the kernel calls ready holds up: its export was allowed, its ledger
\* validates, and each required label is backed by a receipt of the right
\* kind, tenant and actor (kernel.rs:42-178).
THEOREM ReadySoundHolds == Spec => []ReadySound
<1>1. ASSUME IInv PROVE ReadySound
  <2>1. SUFFICES ASSUME NEW d \in docs, d.kind = "readiness", Ready(d)
                 PROVE  /\ Its("tenant_decision").receipt # NoReceipt
                        /\ Validate
                        /\ \A l \in Labels : \E c \in Its("compliance_export").cites :
                             /\ c[1] = l
                             /\ \E n \in DOMAIN ledger : ledger[n] = c[2]
                             /\ c[2].kind = KindOf(l)
                             /\ c[2].tenant = d.tenant /\ c[2].actor = d.actor
    BY Zenon DEF ReadySound
  <2>2. caller = "kernel" /\ TypeOK /\ AccountedIn(docs, ledger) /\ RunOf(docs, as, step)
    BY <1>1, <2>1 DEF IInv
  <2>3. step = 7
    <3>1. Stage(d.kind) < step
      BY <2>2 DEF RunOf
    <3>2. Stage(d.kind) = 6
      BY <2>1, StageIs
    <3> QED
      BY <2>2, <3>1, <3>2 DEF TypeOK
  <2>4. PICK t \in docs : t = Its("tenant_decision") /\ t.kind = "tenant_decision"
    BY <1>1, <2>2, <2>3, StageIs, ItsIs
  <2>5. PICK c \in docs : c = Its("compliance_export") /\ c.kind = "compliance_export"
    BY <1>1, <2>2, <2>3, StageIs, ItsIs
  <2>6. t.receipt # NoReceipt
    BY <2>1, <2>2, <2>4 DEF RunOf
  <2>7. as.actor # Blank
    BY <2>2, <2>4, <2>6 DEF RunOf
  <2>8. Validate
    <3>1. ASSUME NEW n \in DOMAIN ledger
          PROVE  ledger[n].evidence # {} /\ ledger[n].actor # Blank
      <4>1. PICK e \in docs : e.receipt = ledger[n]
        BY <2>2 DEF AccountedIn
      <4>2. e.receipt # NoReceipt
        <5>1. ledger \in Seq(Receipt)
          BY <2>2 DEF TypeOK
        <5>2. ledger[n] \in Receipt
          BY <5>1
        <5> QED
          BY <4>1, <5>2, NoReceiptIs
      <4>3. e.receipt.evidence # {} /\ e.actor = as.actor
        BY <2>2, <4>2 DEF RunOf
      <4>4. e.receipt.actor = e.actor
        BY <2>2, <4>2 DEF AccountedIn, Handed
      <4> QED
        BY <2>7, <4>1, <4>3, <4>4
    <3> QED
      BY <3>1 DEF Validate
  <2>9. ASSUME NEW l \in Labels
        PROVE  \E x \in c.cites : /\ x[1] = l
                                  /\ \E n \in DOMAIN ledger : ledger[n] = x[2]
                                  /\ x[2].kind = KindOf(l)
                                  /\ x[2].tenant = d.tenant /\ x[2].actor = d.actor
    <3>1. PICK e \in docs : e.kind = KindOf(l) /\ <<l, e.receipt>> \in c.cites
      BY <2>2, <2>5 DEF RunOf
    <3>2. e.receipt # NoReceipt
      <4>1. CASE e.kind = "tenant_decision"
        BY <2>2, <2>4, <2>6, <4>1 DEF RunOf
      <4>2. CASE e.kind # "tenant_decision"
        BY <2>2, <4>2 DEF AccountedIn, Handed, Denied
      <4> QED
        BY <4>1, <4>2
    <3>3. /\ \E n \in DOMAIN ledger : ledger[n] = e.receipt
          /\ e.receipt.kind = e.kind /\ e.receipt.tenant = e.tenant
          /\ e.receipt.actor = e.actor
      BY <2>2, <3>2 DEF AccountedIn, Handed
    <3>4. e.tenant = d.tenant /\ e.actor = d.actor
      BY <2>1, <2>2 DEF RunOf
    <3>5. PICK x \in c.cites : x = <<l, e.receipt>>
      BY <3>1
    <3>6. x[1] = l /\ x[2] = e.receipt
      BY <3>5
    <3> QED
      BY <3>1, <3>2, <3>3, <3>4, <3>6
  <2> QED
    BY <2>4, <2>5, <2>6, <2>8, <2>9, Zenon
<1> QED
  BY <1>1, Inductive, PTL
=============================================================================

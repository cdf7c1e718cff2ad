--------------------------- MODULE WsVersion_proofs ---------------------------
(***************************************************************************)
(* Theorems about WsVersion, for whatever developers push, however long    *)
(* main grows, however high versions count, and wherever `apply` dies.     *)
(***************************************************************************)
EXTENDS WsVersion, SequenceTheorems, TLAPS

Busy == pc # "idle"

Skips == \E shown \in BOOLEAN : Skip(shown)

\* The ranges of the queue, each at least a commit, follow one another up to
\* the newest commit of main.
Queue(q, h) ==
  /\ \A n \in DOMAIN q : q[n].from < q[n].to /\ q[n].to <= h
  /\ \A n \in 1..(Len(q) - 1) : q[n].to = q[n + 1].from
  /\ q # <<>> => q[Len(q)].to = h

\* A run works on the first range, and on commits of main.
Queued ==
  /\ Queue(pending, Len(history))
  /\ Busy => pending # <<>> /\ decision.commits \subseteq 1..Len(history)

\* What a run has written so far is what it decided.
Staged ==
  /\ pc = "decided" => tree.version # Torn
  /\ pc \in {"written", "rolling", "rolled"} => tree.version = decision.to
  /\ pc = "rolling" => tree.changelog = Torn
  /\ pc = "rolled" => tree.changelog =
       <<[version |-> decision.to, commits |-> Bullets(decision.commits)]>> \o decision.sections

TInv == TypeOK /\ Queued /\ Staged

\* What a step may be.
LEMMA Kinds ==
  ASSUME [Next]_vars
  PROVE  \/ \E n \in 1..MaxPush : \E cs \in [1..n -> Changes] : Push(cs)
         \/ Skips
         \/ \E tool \in Tools : \E shown \in BOOLEAN : Decide(tool, shown)
         \/ WriteBegin \/ WriteEnd \/ RollBegin \/ RollFails \/ RollEnd
         \/ Crash \/ CommitRelease \/ Restore \/ UNCHANGED vars
BY Zenon DEF Next, Apply, Skips

-----------------------------------------------------------------------------
(* Sequences.                                                              *)

LEMMA Prepend ==
  ASSUME NEW S, NEW x \in S, NEW s \in Seq(S)
  PROVE  /\ <<x>> \o s \in Seq(S)
         /\ Len(<<x>> \o s) = Len(s) + 1
         /\ (<<x>> \o s)[1] = x
         /\ \A n \in 1..Len(s) : (<<x>> \o s)[n + 1] = s[n]
<1>1. <<x>> \in Seq(S) /\ Len(<<x>>) = 1
  OBVIOUS
<1>2. Len(s) \in Nat
  OBVIOUS
<1> QED
  BY <1>1, <1>2, ConcatProperties

LEMMA QueueAppend ==
  ASSUME NEW q \in Seq(PushRange), NEW h \in Nat, NEW k \in Nat, k >= 1, Queue(q, h),
         NEW t, t = Append(q, [from |-> h, to |-> h + k])
  PROVE  t \in Seq(PushRange) /\ t # <<>> /\ Queue(t, h + k)
<1> DEFINE x == [from |-> h, to |-> h + k]
<1>1. x \in PushRange
  BY DEF PushRange
<1>2. /\ t \in Seq(PushRange) /\ Len(t) = Len(q) + 1 /\ Len(q) \in Nat
      /\ t[Len(q) + 1] = x /\ \A n \in 1..Len(q) : t[n] = q[n]
  BY <1>1, AppendProperties
<1>3. DOMAIN t = 1..(Len(q) + 1) /\ DOMAIN q = 1..Len(q)
  BY <1>2
<1>4. ASSUME NEW n \in DOMAIN t PROVE t[n].from < t[n].to /\ t[n].to <= h + k
  <2>1. CASE n = Len(q) + 1
    BY <1>2, <2>1
  <2>2. CASE n \in 1..Len(q)
    <3>1. q[n] \in PushRange
      BY <2>2
    <3> QED
      BY <1>2, <1>3, <2>2, <3>1 DEF Queue, PushRange
  <2> QED
    BY <1>2, <1>3, <2>1, <2>2
<1>5. ASSUME NEW n \in 1..Len(q) PROVE t[n].to = t[n + 1].from
  <2>1. CASE n = Len(q)
    <3>1. q # <<>>
      BY <1>5
    <3> QED
      BY <1>2, <2>1, <3>1 DEF Queue
  <2>2. CASE n < Len(q)
    <3>1. n \in 1..(Len(q) - 1) /\ n + 1 \in 1..Len(q)
      BY <1>2, <2>2
    <3> QED
      BY <1>2, <3>1 DEF Queue
  <2> QED
    BY <1>2, <2>1, <2>2
<1>6. t # <<>>
  BY <1>2
<1> QED
  BY <1>2, <1>4, <1>5, <1>6 DEF Queue

LEMMA QueueTail ==
  ASSUME NEW q \in Seq(PushRange), NEW h \in Nat, q # <<>>, Queue(q, h)
  PROVE  /\ Tail(q) \in Seq(PushRange) /\ Queue(Tail(q), h)
         /\ q[1] \in PushRange /\ q[1].from < q[1].to /\ q[1].to <= h
         /\ Tail(q) = <<>> => q[1].to = h
         /\ Tail(q) # <<>> => Tail(q)[1].from = q[1].to
<1>1. /\ Tail(q) \in Seq(PushRange) /\ Len(Tail(q)) = Len(q) - 1
      /\ Len(q) \in Nat /\ Len(q) >= 1
      /\ \A n \in 1..Len(Tail(q)) : Tail(q)[n] = q[n + 1]
  BY HeadTailProperties, EmptySeq
<1>2. DOMAIN q = 1..Len(q) /\ DOMAIN Tail(q) = 1..(Len(q) - 1)
  BY <1>1
<1>3. ASSUME NEW n \in DOMAIN Tail(q)
      PROVE  Tail(q)[n].from < Tail(q)[n].to /\ Tail(q)[n].to <= h
  <2>1. n + 1 \in DOMAIN q /\ Tail(q)[n] = q[n + 1]
    BY <1>1, <1>2, <1>3
  <2> QED
    BY <2>1 DEF Queue
<1>4. ASSUME NEW n \in 1..(Len(Tail(q)) - 1) PROVE Tail(q)[n].to = Tail(q)[n + 1].from
  <2>1. /\ n + 1 \in 1..(Len(q) - 1)
        /\ Tail(q)[n] = q[n + 1] /\ Tail(q)[n + 1] = q[n + 1 + 1]
    BY <1>1, <1>4
  <2> QED
    BY <2>1 DEF Queue
<1>5. ASSUME Tail(q) # <<>>
      PROVE  Tail(q)[Len(Tail(q))].to = h /\ Tail(q)[1].from = q[1].to
  <2>1. Len(Tail(q)) >= 1
    BY <1>1, <1>5, EmptySeq
  <2>2. Tail(q)[Len(Tail(q))] = q[Len(q)] /\ Tail(q)[1] = q[2] /\ 1 \in 1..(Len(q) - 1)
    BY <1>1, <2>1
  <2> QED
    BY <2>2 DEF Queue
<1>6. Tail(q) = <<>> => Len(q) = 1
  <2>1. PICK s : s = Tail(q)
    OBVIOUS
  <2>2. s = <<>> => Len(s) = 0
    OBVIOUS
  <2>3. Len(s) = Len(q) - 1 /\ Len(q) \in Nat
    BY <1>1, <2>1
  <2> QED
    BY <2>1, <2>2, <2>3
<1>7. q[1] \in PushRange /\ 1 \in DOMAIN q
  BY <1>1, <1>2
<1> QED
  BY <1>1, <1>3, <1>4, <1>5, <1>6, <1>7 DEF Queue

\* The queue after its head was settled by a release commit.
LEMMA QueueNext ==
  ASSUME NEW q \in Seq(PushRange), NEW h \in Nat, q # <<>>, Queue(q, h),
         NEW t, t = Append(Tail(q), [from |-> h, to |-> h + 1])
  PROVE  t \in Seq(PushRange) /\ t # <<>> /\ Queue(t, h + 1) /\ t[1].from = q[1].to
<1> DEFINE x == [from |-> h, to |-> h + 1]
<1>0. PICK s : s = Tail(q)
  OBVIOUS
<1>1. /\ s \in Seq(PushRange) /\ Queue(s, h) /\ t = Append(s, x)
      /\ s = <<>> => q[1].to = h
      /\ s # <<>> => s[1].from = q[1].to
  BY <1>0, QueueTail
<1>2. t \in Seq(PushRange) /\ t # <<>> /\ Queue(t, h + 1)
  <2>1. 1 \in Nat /\ 1 >= 1
    OBVIOUS
  <2> QED
    BY <1>1, <2>1, QueueAppend
<1>3. /\ t[Len(s) + 1] = x
      /\ \A n \in 1..Len(s) : t[n] = s[n]
  <2>1. x \in PushRange
    BY DEF PushRange
  <2> QED
    BY <1>1, <2>1, AppendProperties
<1>4. CASE s = <<>>
  <2>1. Len(s) = 0
    BY <1>4
  <2>2. Len(s) + 1 = 1
    BY <2>1
  <2>3. t[1] = x
    BY <1>3, <2>2, Zenon
  <2> QED
    BY <1>1, <1>2, <1>4, <2>3
<1>5. CASE s # <<>>
  <2>1. Len(s) \in Nat /\ Len(s) >= 1
    BY <1>1, <1>5, EmptySeq
  <2>2. 1 \in 1..Len(s)
    BY <2>1
  <2>3. t[1] = s[1]
    BY <1>3, <2>2, Zenon
  <2> QED
    BY <1>1, <1>2, <1>5, <2>3
<1> QED
  BY <1>4, <1>5
-----------------------------------------------------------------------------
(* Types.                                                                  *)

LEMMA VersionParts ==
  ASSUME NEW v \in Version
  PROVE  v[1] \in Nat /\ v[2] \in Nat /\ v[3] \in Nat /\ v = <<v[1], v[2], v[3]>>
BY DEF Version

LEMMA BumpedType ==
  ASSUME NEW v \in Version, NEW b \in {"patch", "minor", "major"}
  PROVE  Bumped(v, b) \in Version
BY VersionParts DEF Bumped, Version

LEMMA ReleaseCommitType ==
  ReleaseCommit \in Commit /\ ReleaseCommit.skip /\ ReleaseCommit.own
BY DEF ReleaseCommit, Commit

\* The engine's own commits are all alike, and no developer makes them.
LEMMA OwnCommit ==
  ASSUME NEW c \in Changes \cup {ReleaseCommit}
  PROVE  c \in Commit /\ (c.own <=> c = ReleaseCommit)
BY ChangesAssumption, ReleaseCommitType

\* Main only grows.
LEMMA HistoryGrows ==
  ASSUME TypeOK, [Next]_vars
  PROVE  /\ history \in Seq(Changes \cup {ReleaseCommit})
         /\ history' \in Seq(Changes \cup {ReleaseCommit})
         /\ Len(history) \in Nat /\ Len(history') \in Nat
         /\ Len(history') >= Len(history)
         /\ \A n \in 1..Len(history) : history'[n] = history[n]
<1> DEFINE H == Changes \cup {ReleaseCommit}
<1>t. history \in Seq(H) /\ Len(history) \in Nat
  BY DEF TypeOK
<1>1. CASE history' = history
  BY <1>1, <1>t
<1>2. ASSUME NEW n \in 1..MaxPush, NEW cs \in [1..n -> Changes], Push(cs)
      PROVE  /\ history' \in Seq(H) /\ Len(history') \in Nat
             /\ Len(history') >= Len(history)
             /\ \A k \in 1..Len(history) : history'[k] = history[k]
  <2>1. cs \in Seq(H) /\ Len(cs) \in Nat /\ history' = history \o cs
    BY <1>2 DEF Push
  <2> QED
    BY <1>t, <2>1, ConcatProperties
<1>3. CASE CommitRelease
  <2>1. history' = Append(history, ReleaseCommit) /\ ReleaseCommit \in H
    BY <1>3 DEF CommitRelease
  <2> QED
    BY <1>t, <2>1, AppendProperties
<1> QED
  BY <1>t, <1>1, <1>2, <1>3
     DEF Next, Apply, Skips, Skip, Decide, WriteBegin, WriteEnd, RollBegin, RollFails,
         RollEnd, Crash, Restore, vars

LEMMA TypeInit == Init => TInv
<1> SUFFICES ASSUME Init PROVE TInv
  OBVIOUS
<1>1. <<1, 0, 0>> \in Version /\ <<0, 0, 0>> \in Version
  BY DEF Version
<1>2. head \in [version : Version, changelog : Seq(Section)]
  BY <1>1 DEF Init
<1>3. tree \in [version : Version \cup {Torn}, changelog : Seq(Section) \cup {Torn}]
  BY <1>1 DEF Init
<1>4. decision \in Decision
  BY <1>1 DEF Init, NoDecision, Decision
<1>5. /\ history \in Seq(Changes \cup {ReleaseCommit}) /\ pending \in Seq(PushRange)
      /\ releases \in Seq(Release) /\ Len(pending) = 0 /\ pending = <<>> /\ pc = "idle"
      /\ host \in Hosts
  BY DEF Init
<1>6. TypeOK
  BY <1>2, <1>3, <1>4, <1>5 DEF TypeOK
<1> QED
  BY <1>5, <1>6 DEF TInv, Queued, Queue, Staged, Busy

\* The types of the queue are those of its ranges.
LEMMA QueueType ==
  ASSUME TypeOK
  PROVE  /\ history \in Seq(Changes \cup {ReleaseCommit}) /\ Len(history) \in Nat
         /\ pending \in Seq(PushRange) /\ decision \in Decision
         /\ releases \in Seq(Release) /\ Len(releases) \in Nat
BY DEF TypeOK

LEMMA DecisionType ==
  ASSUME TypeOK
  PROVE  /\ decision.to \in Version /\ decision.commits \in SUBSET Nat
         /\ decision.blind \in BOOLEAN /\ decision.probed \in BOOLEAN
         /\ decision.level \in {"patch", "minor", "major"} /\ decision.seen \in Nat
         /\ decision.sections \in Seq(Section)
         /\ [version |-> decision.to, commits |-> Bullets(decision.commits)] \in Section
BY DEF TypeOK, Decision, Section, Bullets

LEMMA DecideType ==
  ASSUME TInv, NEW tool \in Tools, NEW shown \in BOOLEAN, Decide(tool, shown) PROVE decision' \in Decision
<1> DEFINE r == pending[1]
           ns == CommitsInRange(r)
           b == ClassifyRange(ns, Api(r, tool))
<1>1. tree.version \in Version
  BY DEF TInv, TypeOK, Decide
<1>2. b \in {"patch", "minor", "major"}
  BY DEF ClassifyRange
<1>3. r \in PushRange /\ Len(history) \in Nat
  BY QueueType, QueueTail DEF TInv, Queued, Decide, Begin
<1>4. ns \subseteq Nat
  BY <1>3 DEF CommitsInRange, PushRange
<1>5. Bumped(tree.version, b) \in Version
  BY <1>1, <1>2, BumpedType
<1>6. <<>> \in Seq(Section)
  OBVIOUS
<1>7. PICK blind \in BOOLEAN, probed \in BOOLEAN :
        decision' = [to |-> Bumped(tree.version, b), commits |-> ns,
                     level |-> b, seen |-> Len(history), blind |-> blind,
                     probed |-> probed, sections |-> <<>>]
  BY DEF Decide
<1> HIDE DEF r, ns, b
<1> QED
  BY <1>2, <1>3, <1>4, <1>5, <1>6, <1>7 DEF Decision

\* The steps of a run, and of what becomes of its checkout, touch neither
\* main nor the queue.
LEMMA RunType ==
  ASSUME TInv, [Next]_vars, UNCHANGED <<history, pending, releases, head>>
  PROVE  /\ tree' \in [version : Version \cup {Torn}, changelog : Seq(Section) \cup {Torn}]
         /\ pc' \in {"idle", "decided", "writing", "written", "rolling", "rolled"}
         /\ decision' \in Decision
         /\ (pc' # "idle") => pending # <<>> /\ decision'.commits \subseteq 1..Len(history)
         /\ Staged'
<1>t. /\ tree \in [version : Version \cup {Torn}, changelog : Seq(Section) \cup {Torn}]
      /\ head \in [version : Version, changelog : Seq(Section)]
      /\ pc \in {"idle", "decided", "writing", "written", "rolling", "rolled"}
      /\ Staged /\ decision \in Decision
      /\ pc # "idle" => pending # <<>> /\ decision.commits \subseteq 1..Len(history)
  BY DEF TInv, TypeOK, Queued, Busy
<1>d. /\ decision.to \in Version /\ decision.sections \in Seq(Section)
      /\ [version |-> decision.to, commits |-> Bullets(decision.commits)] \in Section
  BY DecisionType DEF TInv
<1>b. decision'.commits = decision.commits =>
        Bullets(decision.commits)' = Bullets(decision.commits)
  BY DEF Bullets
<1>1. ASSUME NEW tool \in Tools, NEW shown \in BOOLEAN, Decide(tool, shown)
      PROVE  decision' \in Decision /\ tree' = tree /\ pc' = "decided" /\ Staged'
             /\ pending # <<>> /\ decision'.commits \subseteq 1..Len(history)
  <2>1. decision' \in Decision
    BY <1>1, DecideType
  <2>2. tree' = tree /\ pc' = "decided" /\ tree.version # Torn
        /\ pending # <<>> /\ decision'.commits = CommitsInRange(pending[1])
    BY <1>1 DEF Decide, Begin
  <2>3. pending[1] \in PushRange /\ pending[1].to <= Len(history) /\ Len(history) \in Nat
    BY <2>2, QueueType, QueueTail DEF TInv, Queued
  <2>4. CommitsInRange(pending[1]) \subseteq 1..Len(history)
    BY <2>3 DEF CommitsInRange, PushRange
  <2> QED
    BY <2>1, <2>2, <2>4 DEF Staged
<1>2. CASE WriteBegin
  BY <1>2, <1>t DEF WriteBegin, Staged
<1>3. CASE WriteEnd
  BY <1>3, <1>t, <1>d DEF WriteEnd, Staged
<1>4. CASE RollBegin
  <2>1. tree.changelog \in Seq(Section)
    BY <1>4, <1>t DEF RollBegin
  <2>2. decision' \in Decision /\ decision'.to = decision.to
        /\ decision'.commits = decision.commits
    BY <1>4, <1>t, <2>1 DEF RollBegin, Decision
  <2> QED
    BY <1>4, <1>t, <2>2 DEF RollBegin, Staged
<1>5. CASE RollFails
  BY <1>5, <1>t DEF RollFails, Staged
<1>6. CASE RollEnd
  <2> DEFINE s == [version |-> decision.to, commits |-> Bullets(decision.commits)]
  <2>1. <<s>> \o decision.sections \in Seq(Section)
    BY <1>d, Prepend
  <2>2. tree' = [tree EXCEPT !.changelog = <<s>> \o decision.sections]
        /\ pc' = "rolled" /\ pc = "rolling" /\ decision' = decision
    BY <1>6 DEF RollEnd
  <2>3. /\ tree' \in [version : Version \cup {Torn}, changelog : Seq(Section) \cup {Torn}]
        /\ tree'.changelog = <<s>> \o decision.sections /\ tree'.version = tree.version
    BY <1>t, <2>1, <2>2
  <2> QED
    BY <1>t, <1>b, <2>2, <2>3 DEF Staged
<1>7. CASE Crash
  BY <1>7, <1>t DEF Crash, Staged
<1>8. CASE Restore
  BY <1>8, <1>t DEF Restore, Staged
<1>9. CASE Skips
  BY <1>9, <1>t DEF Skips, Skip, Begin, Staged
<1>10. CASE UNCHANGED <<tree, pc, decision>>
  BY <1>10, <1>b, <1>t DEF Staged
<1>11. ASSUME CommitRelease PROVE FALSE
  BY <1>11, AppendProperties, QueueType DEF CommitRelease, TInv
<1> QED
  BY <1>1, <1>2, <1>3, <1>4, <1>5, <1>6, <1>7, <1>8, <1>9, <1>10, <1>11, <1>t, Kinds
     DEF Push, vars

LEMMA PushType ==
  ASSUME TInv, NEW n \in 1..MaxPush, NEW cs \in [1..n -> Changes], Push(cs)
  PROVE  /\ pending' \in Seq(PushRange) /\ pending' # <<>> /\ Queue(pending, Len(history))'
         /\ Len(history') = Len(history) + n
         /\ pending # <<>> => pending'[1] = pending[1]
         /\ pending = <<>> => pending'[1] = [from |-> Len(history), to |-> Len(history) + n]
         /\ \A k \in 1..Len(pending) : pending'[k] = pending[k]
         /\ Len(pending') = Len(pending) + 1
         /\ pending'[Len(pending) + 1] = [from |-> Len(history), to |-> Len(history) + n]
<1>t. /\ history \in Seq(Changes \cup {ReleaseCommit}) /\ Len(history) \in Nat
      /\ pending \in Seq(PushRange) /\ Queue(pending, Len(history))
  BY QueueType DEF TInv, Queued
<1>n. n \in Nat /\ n >= 1
  BY BoundsAssumption
<1>1. cs \in Seq(Changes \cup {ReleaseCommit}) /\ Len(cs) = n
  BY <1>n
<1>2. history' = history \o cs
      /\ pending' = Append(pending, [from |-> Len(history), to |-> Len(history) + n])
  BY <1>1 DEF Push
<1>3. Len(history') = Len(history) + n
  BY <1>t, <1>1, <1>2, ConcatProperties
<1>4. pending' \in Seq(PushRange) /\ pending' # <<>> /\ Queue(pending', Len(history'))
  BY <1>t, <1>n, <1>2, <1>3, QueueAppend
<1>5. /\ Len(pending') = Len(pending) + 1 /\ Len(pending) \in Nat
      /\ \A k \in 1..Len(pending) : pending'[k] = pending[k]
      /\ pending'[Len(pending) + 1] = [from |-> Len(history), to |-> Len(history) + n]
  <2>1. [from |-> Len(history), to |-> Len(history) + n] \in PushRange
    BY <1>t, <1>n DEF PushRange
  <2> QED
    BY <1>t, <1>2, <2>1, AppendProperties
<1>6. pending # <<>> => pending'[1] = pending[1]
  <2>1. pending # <<>> => 1 \in 1..Len(pending)
    BY <1>t, EmptySeq
  <2> QED
    BY <1>5, <2>1
<1>7. pending = <<>> => pending'[1] = [from |-> Len(history), to |-> Len(history) + n]
  <2>1. pending = <<>> => Len(pending) + 1 = 1
    OBVIOUS
  <2> QED
    BY <1>5, <2>1, Zenon
<1> QED
  BY <1>3, <1>4, <1>5, <1>6, <1>7

LEMMA CommitType ==
  ASSUME TInv, CommitRelease
  PROVE  /\ pending # <<>> /\ pending[1] \in PushRange
         /\ pending[1].from < pending[1].to /\ pending[1].to <= Len(history)
         /\ pending' \in Seq(PushRange) /\ Queue(pending, Len(history))'
         /\ pending' # <<>> /\ pending'[1].from = pending[1].to
         /\ Len(history') = Len(history) + 1
         /\ history'[Len(history) + 1] = ReleaseCommit
         /\ releases' \in Seq(Release) /\ Len(releases') = Len(releases) + 1
         /\ \A n \in 1..Len(releases) : releases'[n] = releases[n]
         /\ releases'[Len(releases) + 1] = [range |-> pending[1], decision |-> decision]
<1>t. /\ history \in Seq(Changes \cup {ReleaseCommit}) /\ Len(history) \in Nat
      /\ pending \in Seq(PushRange) /\ Queue(pending, Len(history))
      /\ releases \in Seq(Release) /\ decision \in Decision
  BY QueueType DEF TInv, Queued
<1>1. pending # <<>>
  BY DEF TInv, Queued, Busy, CommitRelease
<1>2. pending[1] \in PushRange /\ pending[1].from < pending[1].to /\ pending[1].to <= Len(history)
  BY <1>t, <1>1, QueueTail
<1>3. Len(history') = Len(history) + 1 /\ history'[Len(history) + 1] = ReleaseCommit
  BY <1>t, AppendProperties DEF CommitRelease
<1>4. /\ pending' \in Seq(PushRange) /\ Queue(pending', Len(history'))
      /\ pending' # <<>> /\ pending'[1].from = pending[1].to
  <2>1. pending' = Append(Tail(pending), [from |-> Len(history), to |-> Len(history) + 1])
    BY DEF CommitRelease
  <2> QED
    BY <1>t, <1>1, <1>3, <2>1, QueueNext
<1>5. [range |-> pending[1], decision |-> decision] \in Release
  BY <1>t, <1>2 DEF Release
<1>6. releases' = Append(releases, [range |-> pending[1], decision |-> decision])
  BY DEF CommitRelease
<1> QED
  BY <1>t, <1>1, <1>2, <1>3, <1>4, <1>5, <1>6, AppendProperties

LEMMA TypeStep == TInv /\ [Next]_vars => TInv'
<1> SUFFICES ASSUME TInv, [Next]_vars PROVE TInv'
  OBVIOUS
<1>t. /\ host \in Hosts
      /\ head \in [version : Version, changelog : Seq(Section)]
      /\ tree \in [version : Version \cup {Torn}, changelog : Seq(Section) \cup {Torn}]
      /\ pc \in {"idle", "decided", "writing", "written", "rolling", "rolled"}
      /\ Staged /\ Queue(pending, Len(history))
      /\ Busy => pending # <<>> /\ decision.commits \subseteq 1..Len(history)
  BY DEF TInv, TypeOK, Queued
<1>q. /\ Len(history) \in Nat /\ pending \in Seq(PushRange) /\ Len(pending) \in Nat
      /\ releases \in Seq(Release) /\ decision \in Decision
  BY QueueType DEF TInv
<1>h. /\ history' \in Seq(Changes \cup {ReleaseCommit}) /\ Len(history') \in Nat
      /\ Len(history') >= Len(history)
      /\ \A n \in 1..Len(history) : history'[n] = history[n]
  BY HistoryGrows DEF TInv
<1>n. host' \in Hosts /\ pending' \in Seq(PushRange) /\ releases' \in Seq(Release)
      /\ (head \in [version : Version, changelog : Seq(Section)])'
      /\ (tree \in [version : Version \cup {Torn}, changelog : Seq(Section) \cup {Torn}])'
      /\ pc' \in {"idle", "decided", "writing", "written", "rolling", "rolled"}
      /\ decision' \in Decision
      /\ Queue(pending, Len(history))' /\ Staged'
      /\ (pc' # "idle" => pending' # <<>> /\ decision'.commits \subseteq 1..Len(history'))
      => TInv'
  BY <1>h DEF TInv, TypeOK, Queued, Queue, Busy
<1>1. ASSUME NEW n \in 1..MaxPush, NEW cs \in [1..n -> Changes], Push(cs) PROVE TInv'
  <2>1. UNCHANGED <<host, releases, head, tree, pc, decision>>
    BY <1>1 DEF Push
  <2>2. /\ pending' \in Seq(PushRange) /\ Queue(pending, Len(history))'
        /\ pending # <<>> => pending'[1] = pending[1]
    BY <1>1, PushType
  <2>4. pending' # <<>>
    BY <1>1, PushType
  <2>5. Busy => decision.commits \subseteq 1..Len(history')
    BY <1>t, <1>q, <1>h
  <2>6. Busy => Bullets(decision.commits)' = Bullets(decision.commits)
    BY <1>t, <1>h, <2>1 DEF Bullets
  <2>7. Staged'
    BY <1>t, <2>1, <2>6 DEF Staged, Busy
  <2> QED
    BY <1>t, <1>q, <1>n, <2>1, <2>2, <2>4, <2>5, <2>7 DEF Busy
<1>2. CASE Skips
  <2>1. UNCHANGED <<host, history, releases, head, tree, pc, decision>> /\ pc = "idle"
        /\ pending # <<>> /\ pending' = Tail(pending)
    BY <1>2 DEF Skips, Skip, Begin
  <2>2. pending' \in Seq(PushRange) /\ Queue(pending', Len(history))
    BY <1>t, <1>q, <2>1, QueueTail
  <2> QED
    BY <1>t, <1>q, <1>n, <2>1, <2>2 DEF Staged
<1>3. CASE CommitRelease
  <2>1. pc' = "idle" /\ head' = tree /\ UNCHANGED <<host, tree, decision>> /\ pc = "rolled"
    BY <1>3 DEF CommitRelease
  <2>2. tree.version = decision.to /\ tree.changelog \in Seq(Section)
    <3>1. [version |-> decision.to, commits |-> Bullets(decision.commits)] \in Section
          /\ decision.sections \in Seq(Section)
      BY DecisionType DEF TInv
    <3>2. /\ tree.version = decision.to
          /\ tree.changelog =
               <<[version |-> decision.to, commits |-> Bullets(decision.commits)]>> \o decision.sections
      BY <1>t, <2>1 DEF Staged
    <3>3. <<[version |-> decision.to, commits |-> Bullets(decision.commits)]>> \o decision.sections
            \in Seq(Section)
      BY <3>1, Prepend
    <3> QED
      BY <3>2, <3>3
  <2>3. head' \in [version : Version, changelog : Seq(Section)]
    <3>1. decision.to \in Version
      BY DecisionType DEF TInv
    <3> QED
      BY <1>t, <2>1, <2>2, <3>1
  <2>4. pending' \in Seq(PushRange) /\ Queue(pending, Len(history))' /\ releases' \in Seq(Release)
    BY <1>3, CommitType
  <2> QED
    BY <1>t, <1>q, <1>n, <2>1, <2>3, <2>4 DEF Staged
<1>4. CASE UNCHANGED <<host, history, pending, releases, head>>
  <2>1. /\ tree' \in [version : Version \cup {Torn}, changelog : Seq(Section) \cup {Torn}]
        /\ pc' \in {"idle", "decided", "writing", "written", "rolling", "rolled"}
        /\ decision' \in Decision
        /\ (pc' # "idle" => pending # <<>> /\ decision'.commits \subseteq 1..Len(history))
        /\ Staged'
    BY <1>4, RunType
  <2> QED
    BY <1>4, <1>t, <1>q, <1>n, <2>1 DEF Queue
<1> QED
  BY <1>1, <1>2, <1>3, <1>4, Kinds
     DEF Decide, WriteBegin, WriteEnd, RollBegin, RollFails, RollEnd, Crash, Restore, vars

\* Type correctness of every reachable state: in particular the files are
\* torn only while, or after, a run was in them, what is committed is never
\* torn, and the queue of ranges is in main's order without gaps.
THEOREM WsTypeCorrect == Spec => []TypeOK
<1>1. TInv => TypeOK
  BY DEF TInv
<1> QED
  BY <1>1, TypeInit, TypeStep, PTL DEF Spec
-----------------------------------------------------------------------------
(* No commit is released twice, and the engine's own release commit only   *)
(* where its marker was out of sight.                                      *)

LEMMA Steps ==
  ASSUME [Next]_vars
  PROVE  \/ \E n \in 1..MaxPush : \E cs \in [1..n -> Changes] : Push(cs)
         \/ Skips
         \/ CommitRelease
         \/ UNCHANGED <<host, history, pending, releases, head>>
BY Kinds DEF Decide, WriteBegin, WriteEnd, RollBegin, RollFails, RollEnd, Crash, Restore, vars

\* A push settles nothing; a range is settled by being skipped or released.
LEMMA SettledMoves ==
  ASSUME TInv
  PROVE  /\ Settled \in Nat /\ Settled <= Len(history)
         /\ pending # <<>> => /\ Settled = pending[1].from /\ pending[1] \in PushRange
                             /\ pending[1].from < pending[1].to
                             /\ pending[1].to <= Len(history)
         /\ \A n \in 1..MaxPush : \A cs \in [1..n -> Changes] : Push(cs) => Settled' = Settled
         /\ Skips \/ CommitRelease => pending # <<>> /\ Settled' = pending[1].to
<1>t. /\ Len(history) \in Nat /\ pending \in Seq(PushRange)
      /\ Queue(pending, Len(history))
  BY QueueType DEF TInv, Queued
<1>q. pending # <<>> => /\ pending[1] \in PushRange /\ pending[1].from < pending[1].to
                        /\ pending[1].to <= Len(history)
  BY <1>t, QueueTail
<1>1. ASSUME NEW n \in 1..MaxPush, NEW cs \in [1..n -> Changes], Push(cs)
      PROVE  Settled' = Settled
  <2>1. /\ pending' # <<>>
        /\ pending # <<>> => pending'[1] = pending[1]
        /\ pending = <<>> => pending'[1] = [from |-> Len(history), to |-> Len(history) + n]
    BY <1>1, PushType
  <2> QED
    BY <2>1 DEF Settled
<1>2. ASSUME Skips PROVE pending # <<>> /\ Settled' = pending[1].to
  <2>1. pending # <<>> /\ pending' = Tail(pending) /\ history' = history
    BY <1>2 DEF Skips, Skip, Begin
  <2>2. /\ Tail(pending) = <<>> => pending[1].to = Len(history)
        /\ Tail(pending) # <<>> => Tail(pending)[1].from = pending[1].to
    BY <1>t, <2>1, QueueTail
  <2> QED
    BY <2>1, <2>2 DEF Settled
<1>3. ASSUME CommitRelease PROVE pending # <<>> /\ Settled' = pending[1].to
  <2>1. pending # <<>> /\ pending' # <<>> /\ pending'[1].from = pending[1].to
    BY <1>3, CommitType
  <2> QED
    BY <2>1 DEF Settled
<1> QED
  BY <1>t, <1>q, <1>1, <1>2, <1>3 DEF Settled, PushRange

\* What is settled stays settled.
LEMMA SettledGrows ==
  ASSUME TInv, [Next]_vars
  PROVE  /\ Settled \in Nat /\ Settled <= Len(history) /\ Settled' \in Nat
         /\ Settled <= Settled'
         /\ pending # <<>> => Settled = pending[1].from
<1>1. /\ Settled \in Nat /\ Settled <= Len(history)
      /\ pending # <<>> => /\ Settled = pending[1].from /\ pending[1] \in PushRange
                          /\ pending[1].from < pending[1].to
      /\ \A n \in 1..MaxPush : \A cs \in [1..n -> Changes] : Push(cs) => Settled' = Settled
      /\ Skips \/ CommitRelease => pending # <<>> /\ Settled' = pending[1].to
  BY SettledMoves
<1>2. UNCHANGED <<host, history, pending, releases, head>> => Settled' = Settled
  BY DEF Settled
<1> QED
  BY <1>1, <1>2, Steps DEF PushRange

\* Releases are only added, by CommitRelease.
LEMMA ReleasesGrow ==
  ASSUME [Next]_vars PROVE releases' = releases \/ CommitRelease
BY DEF Next, Push, Apply, Skips, Skip, Decide, WriteBegin, WriteEnd, RollBegin, RollFails,
       RollEnd, Crash, Restore, vars

LEMMA ReleaseType ==
  ASSUME TypeOK, NEW n \in DOMAIN releases
  PROVE  /\ n \in Nat /\ n >= 1 /\ n <= Len(releases)
         /\ releases[n].range.from \in Nat /\ releases[n].range.to \in Nat
         /\ releases[n].decision \in Decision
<1>1. releases \in Seq(Release)
  BY DEF TypeOK
<1>2. releases[n] \in Release /\ DOMAIN releases = 1..Len(releases) /\ Len(releases) \in Nat
  BY <1>1
<1> QED
  BY <1>2 DEF Release, PushRange

\* The ranges of the releases are settled and follow one another.
Ordered ==
  /\ \A n \in DOMAIN releases :
       /\ releases[n].range.from < releases[n].range.to
       /\ releases[n].range.to <= Settled
  /\ \A n \in DOMAIN releases : \A m \in 1..(n - 1) :
       releases[m].range.to <= releases[n].range.from

OInv == TInv /\ Ordered

LEMMA OrderedStep == OInv /\ [Next]_vars => OInv'
<1> SUFFICES ASSUME OInv, [Next]_vars PROVE OInv'
  OBVIOUS
<1>t. TInv /\ Ordered /\ TypeOK
  BY DEF OInv, TInv
<1>T. TInv'
  BY <1>t, TypeStep
<1>h. /\ Len(history) \in Nat
      /\ \A n \in 1..Len(history) : history'[n] = history[n]
  BY <1>t, HistoryGrows
<1>s. /\ Settled \in Nat /\ Settled <= Len(history) /\ Settled' \in Nat
      /\ Settled <= Settled'
      /\ pending # <<>> => Settled = pending[1].from
  BY <1>t, SettledGrows
<1>o. ASSUME NEW n \in DOMAIN releases
      PROVE  /\ releases[n].range.from < releases[n].range.to
             /\ releases[n].range.to <= Settled /\ releases[n].range.to <= Settled'
  <2>1. releases[n].range.from \in Nat /\ releases[n].range.to \in Nat
    BY <1>t, ReleaseType
  <2>2. /\ releases[n].range.from < releases[n].range.to
        /\ releases[n].range.to <= Settled
    BY <1>t DEF Ordered
  <2> QED
    BY <1>s, <2>1, <2>2
<1>1. CASE releases' = releases
  <2>1. Ordered'
    BY <1>t, <1>o, <1>1 DEF Ordered
  <2> QED
    BY <1>T, <2>1 DEF OInv
<1>2. CASE CommitRelease
  <2>1. /\ pending # <<>> /\ pending[1] \in PushRange /\ pending[1].from < pending[1].to
        /\ pending[1].to <= Len(history)
        /\ pending' # <<>> /\ pending'[1].from = pending[1].to
        /\ releases' \in Seq(Release) /\ Len(releases') = Len(releases) + 1
        /\ \A n \in 1..Len(releases) : releases'[n] = releases[n]
        /\ releases'[Len(releases) + 1] = [range |-> pending[1], decision |-> decision]
    BY <1>t, <1>2, CommitType
  <2>2. Settled' = pending[1].to
    BY <2>1 DEF Settled
  <2>4. /\ Len(releases) \in Nat /\ DOMAIN releases = 1..Len(releases)
        /\ DOMAIN releases' = 1..(Len(releases) + 1)
    BY <1>t, <2>1, QueueType
  <2>5. pending[1].from \in Nat /\ pending[1].to \in Nat
    BY <2>1 DEF PushRange
  <2>6. ASSUME NEW n \in DOMAIN releases'
        PROVE  /\ releases'[n].range.from < releases'[n].range.to
               /\ releases'[n].range.to <= Settled'
    BY <1>o, <2>1, <2>2, <2>4, <2>5
  <2>7. ASSUME NEW n \in DOMAIN releases', NEW m \in 1..(n - 1)
        PROVE  releases'[m].range.to <= releases'[n].range.from
    <3>1. CASE n = Len(releases) + 1
      <4>1. m \in DOMAIN releases /\ releases'[m] = releases[m]
        BY <2>1, <2>4, <3>1
      <4>2. releases'[n].range.from = pending[1].from
        BY <2>1, <3>1
      <4> QED
        BY <1>o, <1>s, <2>1, <4>1, <4>2
    <3>2. CASE n \in 1..Len(releases)
      <4>1. /\ n \in DOMAIN releases /\ m \in DOMAIN releases
            /\ releases'[m] = releases[m] /\ releases'[n] = releases[n]
        BY <2>1, <2>4, <3>2
      <4> QED
        BY <1>t, <4>1 DEF Ordered
    <3> QED
      BY <2>4, <2>7, <3>1, <3>2
  <2>8. Ordered'
    BY <2>6, <2>7 DEF Ordered
  <2> QED
    BY <1>T, <2>8 DEF OInv
<1> QED
  BY <1>1, <1>2, ReleasesGrow

LEMMA OrderedInit == Init => OInv
<1>1. Init => releases = <<>> /\ DOMAIN <<>> = {}
  BY DEF Init
<1>2. Init => Ordered
  BY <1>1 DEF Ordered
<1> QED
  BY <1>2, TypeInit DEF OInv

\* Decision d takes range r of main h, if it holds nothing but the engine's
\* own commits, for a patch, and only with the marker out of sight.
Owed(h, r, d) ==
  (\A i \in (r.from + 1)..r.to : h[i].own) =>
    d.blind /\ d.level = "patch" /\ d.commits = {}

LEMMA OwedStable ==
  ASSUME NEW h, NEW g, NEW r \in PushRange, NEW d, NEW k \in Nat, r.to <= k,
         \A n \in 1..k : g[n] = h[n], Owed(h, r, d)
  PROVE  Owed(g, r, d)
<1>1. \A n \in (r.from + 1)..r.to : g[n] = h[n]
  BY DEF PushRange
<1> QED
  BY <1>1 DEF Owed

Earned ==
  /\ Busy => Owed(history, pending[1], decision)
  /\ \A n \in DOMAIN releases : Owed(history, releases[n].range, releases[n].decision)

EInv == OInv /\ Earned

LEMMA EarnedInit == Init => EInv
<1>1. Init => releases = <<>> /\ DOMAIN <<>> = {} /\ pc = "idle"
  BY DEF Init
<1>2. Init => Earned
  BY <1>1 DEF Earned, Busy
<1> QED
  BY <1>2, OrderedInit DEF EInv

\* A range of release commits touches a shared file, and is marked at its end.
LEMMA DecideOwed ==
  ASSUME TInv, NEW tool \in Tools, NEW shown \in BOOLEAN, Decide(tool, shown)
  PROVE  Owed(history, pending[1], decision')
<1> DEFINE r == pending[1]
           ns == CommitsInRange(r)
<1>1. /\ r \in PushRange /\ r.from < r.to /\ r.to <= Len(history) /\ Len(history) \in Nat
      /\ ~ (shown /\ history[r.to].skip)
  BY QueueType, QueueTail DEF TInv, Queued, Decide, Begin, LatestIsSkip
<1>2. /\ decision'.level = ClassifyRange(ns, Api(r, tool)) /\ decision'.commits = ns
      /\ decision'.blind = (~ shown /\ history[r.to].skip)
  BY DEF Decide
<1>3. SUFFICES ASSUME \A i \in (r.from + 1)..r.to : history[i] = ReleaseCommit
               PROVE  decision'.blind /\ decision'.level = "patch" /\ decision'.commits = {}
  <2>1. \A i \in (r.from + 1)..r.to : i \in 1..Len(history)
    BY <1>1 DEF PushRange
  <2>2. \A i \in (r.from + 1)..r.to : history[i].own => history[i] = ReleaseCommit
    BY <2>1, OwnCommit, QueueType DEF TInv
  <2> QED
    BY <1>3, <2>2 DEF Owed
<1>4. /\ r.to \in (r.from + 1)..r.to /\ r.to \in (r.from + 1)..Len(history)
      /\ history[r.to] = ReleaseCommit
  BY <1>1, <1>3 DEF PushRange
<1>5. ReleaseCommit.skip = TRUE /\ ReleaseCommit.touch = "shared"
  BY DEF ReleaseCommit
<1>6. ns = {}
  BY <1>3, <1>5 DEF CommitsInRange
<1>7. ~ Api(r, tool)
  <2>1. "shared" \in {history[n].touch : n \in (r.from + 1)..Len(history)}
    BY <1>4, <1>5
  <2> QED
    BY <2>1 DEF Api, PlanEmpty
<1> QED
  BY <1>1, <1>2, <1>4, <1>5, <1>6, <1>7 DEF ClassifyRange

LEMMA EarnedStep == EInv /\ [Next]_vars => EInv'
<1> SUFFICES ASSUME EInv, [Next]_vars PROVE EInv'
  OBVIOUS
<1>t. OInv /\ TInv /\ TypeOK /\ Ordered /\ Earned
  BY DEF EInv, OInv, TInv
<1>T. OInv'
  BY <1>t, OrderedStep
<1>h. /\ Len(history) \in Nat
      /\ \A n \in 1..Len(history) : history'[n] = history[n]
  BY <1>t, HistoryGrows
<1>r. ASSUME NEW n \in DOMAIN releases
      PROVE  Owed(history', releases[n].range, releases[n].decision)
  <2>1. releases[n].range \in PushRange
    <3>1. releases[n] \in Release
      BY <1>t, QueueType
    <3> QED
      BY <3>1 DEF Release
  <2>2. releases[n].range.to <= Len(history)
    <3>1. releases[n].range.to <= Settled
      BY <1>t DEF Ordered
    <3>2. Settled \in Nat /\ Settled <= Len(history)
      BY <1>t, SettledGrows
    <3> QED
      BY <1>h, <2>1, <3>1, <3>2 DEF PushRange
  <2> QED
    BY <1>h, <1>t, <2>1, <2>2, OwedStable DEF Earned
<1>s. Busy => Owed(history', pending[1], decision)
  <2>1. Busy => pending[1] \in PushRange /\ pending[1].to <= Len(history)
    BY <1>t, <1>h, QueueType, QueueTail DEF TInv, Queued
  <2> QED
    BY <1>t, <1>h, <2>1, OwedStable DEF Earned
<1>1. ASSUME releases' = releases,
             pc' # "idle" => Owed(history', pending'[1], decision')
      PROVE  EInv'
  BY <1>1, <1>r, <1>T DEF EInv, Earned, Busy
<1>2. ASSUME NEW n \in 1..MaxPush, NEW cs \in [1..n -> Changes], Push(cs) PROVE EInv'
  <2>1. UNCHANGED <<releases, pc, decision>>
    BY <1>2 DEF Push
  <2>2. Busy => pending'[1] = pending[1]
    BY <1>t, <1>2, PushType DEF TInv, Queued
  <2> QED
    BY <1>1, <1>s, <2>1, <2>2 DEF Busy
<1>3. CASE Skips
  BY <1>1, <1>3 DEF Skips, Skip, Begin
<1>4. CASE CommitRelease
  <2>1. /\ Len(releases') = Len(releases) + 1 /\ releases' \in Seq(Release)
        /\ \A n \in 1..Len(releases) : releases'[n] = releases[n]
        /\ releases'[Len(releases) + 1] = [range |-> pending[1], decision |-> decision]
    BY <1>t, <1>4, CommitType
  <2>2. DOMAIN releases = 1..Len(releases) /\ DOMAIN releases' = 1..(Len(releases) + 1)
        /\ Len(releases) \in Nat
    BY <1>t, <2>1, QueueType
  <2>3. Busy /\ pc' = "idle"
    BY <1>4 DEF CommitRelease, Busy
  <2>4. ASSUME NEW n \in DOMAIN releases'
        PROVE  Owed(history', releases'[n].range, releases'[n].decision)
    BY <1>r, <1>s, <2>1, <2>2, <2>3
  <2> QED
    BY <1>T, <2>3, <2>4 DEF EInv, Earned, Busy
<1>5. ASSUME NEW tool \in Tools, NEW shown \in BOOLEAN, Decide(tool, shown) PROVE EInv'
  <2>1. UNCHANGED <<history, pending, releases>>
    BY <1>5 DEF Decide
  <2> QED
    BY <1>1, <1>5, <1>t, <2>1, DecideOwed
<1>6. CASE WriteBegin \/ WriteEnd \/ RollBegin \/ RollEnd \/ RollFails \/ Crash \/ Restore
           \/ UNCHANGED vars
  <2>0. decision \in Decision
    BY <1>t, QueueType
  <2>1. /\ UNCHANGED <<history, pending, releases>>
        /\ pc' # "idle" => /\ Busy /\ decision'.level = decision.level
                           /\ decision'.blind = decision.blind
                           /\ decision'.commits = decision.commits
    BY <1>6, <2>0 DEF WriteBegin, WriteEnd, RollBegin, RollEnd, RollFails, Crash, Restore,
                      vars, Decision, Busy
  <2>2. pc' # "idle" => Owed(history', pending'[1], decision')
    BY <1>s, <2>1 DEF Owed
  <2> QED
    BY <1>1, <2>1, <2>2
<1> QED
  BY <1>2, <1>3, <1>4, <1>5, <1>6, Kinds

LEMMA EarnedEarned == EInv => ReleasesEarned
<1> SUFFICES ASSUME EInv, NEW n \in DOMAIN releases
             PROVE  /\ Owed(history, releases[n].range, releases[n].decision)
                    /\ \A m \in 1..(n - 1) : Covered(m) \cap Covered(n) = {}
  BY DEF ReleasesEarned, Owed, Covered
<1>t. TypeOK /\ Ordered
  BY DEF EInv, OInv, TInv
<1>d. DOMAIN releases = 1..Len(releases) /\ Len(releases) \in Nat
  BY <1>t, QueueType
<1>1. releases[n].range.from \in Nat /\ releases[n].range.to \in Nat
  BY <1>t, ReleaseType
<1>2. ASSUME NEW m \in 1..(n - 1) PROVE Covered(m) \cap Covered(n) = {}
  <2>1. m \in DOMAIN releases
    BY <1>d
  <2>2. releases[m].range.to \in Nat /\ releases[m].range.from \in Nat
    BY <1>t, <2>1, ReleaseType
  <2>3. releases[m].range.to <= releases[n].range.from
    BY <1>t DEF Ordered
  <2> QED
    BY <1>1, <2>2, <2>3 DEF Covered
<1> QED
  BY <1>2 DEF EInv, Earned

\* No commit is released twice, and a release of nothing but the engine's own
\* commits is a patch taken where git failed to show the marker
\* (decide.rs:54-67): however pushes and runs interleave and wherever `apply`
\* dies, the recursion guard holds whenever the marker is seen.
THEOREM ReleasesEarnedHolds == Spec => []ReleasesEarned
BY EarnedInit, EarnedStep, EarnedEarned, PTL DEF Spec
-----------------------------------------------------------------------------
(* Versions grow, and by what the commits ask for.                         *)

AtMost(v, w) == v = w \/ Less(v, w)

OneStep(v, w) == w \in {<<v[1] + 1, 0, 0>>, <<v[1], v[2] + 1, 0>>, <<v[1], v[2], v[3] + 1>>}

\* Decision d takes version v up by at least its own level.
Climbs(v, d) ==
  /\ Less(v, d.to)
  /\ d.level = "major" => IsMajor(v, d.to)
  /\ d.level = "minor" => IsMajor(v, d.to) \/ IsMinor(v, d.to)

\* The commits of range r of main h that count, as CommitsInRange has them.
Counted(h, r) == {n \in (r.from + 1)..r.to : ~ h[n].merge /\ ~ h[n].skip}

\* The level of decision d covers every commit of range r.
Says(h, r, d) ==
  /\ d.commits = Counted(h, r)
  /\ (\E n \in Counted(h, r) : h[n].breaking) => d.level = "major"
  /\ (\E n \in Counted(h, r) : h[n].kind = "feat") => d.level # "patch"

LEMMA Climbing ==
  ASSUME NEW u \in Version, NEW v \in Version, NEW w \in Version, AtMost(u, v)
  PROVE  /\ Less(v, w) => Less(u, w)
         /\ IsMajor(v, w) => IsMajor(u, w)
         /\ IsMinor(v, w) => IsMajor(u, w) \/ IsMinor(u, w)
BY VersionParts DEF AtMost, Less, IsMajor, IsMinor

LEMMA BumpClimbs ==
  ASSUME NEW v \in Version, NEW b \in {"patch", "minor", "major"}
  PROVE  /\ Less(v, Bumped(v, b)) /\ OneStep(v, Bumped(v, b))
         /\ b = "major" => IsMajor(v, Bumped(v, b))
         /\ b = "minor" => IsMinor(v, Bumped(v, b))
BY VersionParts DEF Bumped, Less, IsMajor, IsMinor, OneStep

LEMMA SaysStable ==
  ASSUME NEW h, NEW g, NEW r \in PushRange, NEW d, NEW k \in Nat, r.to <= k,
         \A n \in 1..k : g[n] = h[n], Says(h, r, d)
  PROVE  Says(g, r, d)
<1>1. \A n \in (r.from + 1)..r.to : n \in 1..k
  BY DEF PushRange
<1>2. Counted(g, r) = Counted(h, r) /\ \A n \in Counted(h, r) : g[n] = h[n]
  BY <1>1 DEF Counted
<1> QED
  BY <1>2 DEF Says

\* The version committed is that of the newest release, the checkout is
\* never behind it, and the run in progress and every release take the
\* version before them up as they should.
Grown ==
  /\ head.version = Before(Len(releases) + 1)
  /\ tree.version # Torn => AtMost(head.version, tree.version)
  /\ Busy => /\ Climbs(head.version, decision)
             /\ Says(history, pending[1], decision)
             /\ host.fresh => OneStep(head.version, decision.to)
  /\ \A n \in DOMAIN releases :
       /\ Climbs(Before(n), releases[n].decision)
       /\ Says(history, releases[n].range, releases[n].decision)
       /\ host.fresh => OneStep(Before(n), releases[n].decision.to)

GInv == OInv /\ Grown

LEMMA GrownInit == Init => GInv
<1> SUFFICES ASSUME Init PROVE GInv
  OBVIOUS
<1>1. releases = <<>> /\ pc = "idle" /\ tree = head /\ head.version = <<1, 0, 0>>
  BY DEF Init
<1>2. Len(releases) + 1 = 1 /\ DOMAIN releases = {}
  BY <1>1
<1>3. head.version = Before(Len(releases) + 1)
  BY <1>1, <1>2 DEF Before
<1>4. Grown
  BY <1>1, <1>2, <1>3 DEF Grown, Busy, AtMost
<1> QED
  BY <1>4, OrderedInit DEF GInv

LEMMA DecideGrown ==
  ASSUME GInv, NEW tool \in Tools, NEW shown \in BOOLEAN, Decide(tool, shown)
  PROVE  /\ Climbs(head.version, decision')
         /\ Says(history, pending[1], decision')
         /\ host.fresh => OneStep(head.version, decision'.to)
<1> DEFINE r == pending[1]
           ns == CommitsInRange(r)
           b == ClassifyRange(ns, Api(r, tool))
<1>1. tree.version \in Version /\ head.version \in Version
  BY DEF GInv, OInv, TInv, TypeOK, Decide
<1>2. /\ b \in {"patch", "minor", "major"}
      /\ (\E n \in ns : history[n].breaking) => b = "major"
      /\ (\E n \in ns : history[n].kind = "feat") => b # "patch"
  BY DEF ClassifyRange
<1>3. ns = Counted(history, r)
  BY DEF CommitsInRange, Counted
<1>4. AtMost(head.version, tree.version) /\ (host.fresh => tree = head)
  BY DEF GInv, Grown, Decide, Begin
<1>5. /\ decision'.to = Bumped(tree.version, b) /\ decision'.commits = ns
      /\ decision'.level = b
  BY DEF Decide
<1> HIDE DEF r, ns, b
<1>6. Bumped(tree.version, b) \in Version
  BY <1>1, <1>2, BumpedType
<1>7. /\ Less(tree.version, decision'.to) /\ OneStep(tree.version, decision'.to)
      /\ b = "major" => IsMajor(tree.version, decision'.to)
      /\ b = "minor" => IsMinor(tree.version, decision'.to)
  BY <1>1, <1>2, <1>5, BumpClimbs
<1>8. Climbs(head.version, decision')
  <2>1. decision'.to \in Version
    BY <1>5, <1>6
  <2>2. /\ Less(head.version, decision'.to)
        /\ b = "major" => IsMajor(head.version, decision'.to)
        /\ b = "minor" => IsMajor(head.version, decision'.to) \/ IsMinor(head.version, decision'.to)
    BY <1>1, <1>4, <1>7, <2>1, Climbing
  <2> QED
    BY <1>5, <2>2 DEF Climbs
<1>9. Says(history, r, decision')
  BY <1>2, <1>3, <1>5 DEF Says
<1> QED
  BY <1>4, <1>7, <1>8, <1>9 DEF r

LEMMA GrownStep == GInv /\ [Next]_vars => GInv'
<1> SUFFICES ASSUME GInv, [Next]_vars PROVE GInv'
  OBVIOUS
<1>t. OInv /\ TInv /\ TypeOK /\ Ordered /\ Grown
  BY DEF GInv, OInv, TInv
<1>T. OInv'
  BY <1>t, OrderedStep
<1>h. /\ Len(history) \in Nat /\ Len(history') \in Nat
      /\ \A n \in 1..Len(history) : history'[n] = history[n]
  BY <1>t, HistoryGrows
<1>g. /\ head.version = Before(Len(releases) + 1)
      /\ tree.version # Torn => AtMost(head.version, tree.version)
      /\ Busy => /\ Climbs(head.version, decision)
                 /\ Says(history, pending[1], decision)
                 /\ host.fresh => OneStep(head.version, decision.to)
  BY <1>t DEF Grown
<1>o. /\ host' = host
      /\ pc \in {"idle", "decided", "writing", "written", "rolling", "rolled"}
      /\ head \in [version : Version, changelog : Seq(Section)]
      /\ tree \in [version : Version \cup {Torn}, changelog : Seq(Section) \cup {Torn}]
      /\ decision \in Decision
  BY <1>t DEF TypeOK, Next, Push, Apply, Skips, Skip, Decide, WriteBegin, WriteEnd, RollBegin,
              RollFails, RollEnd, Crash, CommitRelease, Restore, vars
<1>r. ASSUME NEW n \in DOMAIN releases
      PROVE  /\ Climbs(Before(n), releases[n].decision)
             /\ Says(history', releases[n].range, releases[n].decision)
             /\ host.fresh => OneStep(Before(n), releases[n].decision.to)
  <2>1. releases[n].range \in PushRange
    <3>1. releases[n] \in Release
      BY <1>t, QueueType
    <3> QED
      BY <3>1 DEF Release
  <2>2. releases[n].range.to <= Len(history)
    <3>1. releases[n].range.to <= Settled
      BY <1>t DEF Ordered
    <3>2. Settled \in Nat /\ Settled <= Len(history)
      BY <1>t, SettledGrows
    <3> QED
      BY <1>h, <2>1, <3>1, <3>2 DEF PushRange
  <2>3. /\ Climbs(Before(n), releases[n].decision)
        /\ Says(history, releases[n].range, releases[n].decision)
        /\ host.fresh => OneStep(Before(n), releases[n].decision.to)
    BY <1>t DEF Grown
  <2> QED
    BY <1>h, <2>1, <2>2, <2>3, SaysStable
<1>p. pending # <<>> =>
        /\ pending[1] \in PushRange /\ pending[1].to <= Len(history)
  BY <1>t, <1>h, QueueType, QueueTail DEF TInv, Queued
<1>s. Busy => Says(history', pending[1], decision)
  BY <1>g, <1>h, <1>p, <1>t, SaysStable DEF TInv, Queued
<1>1. ASSUME UNCHANGED <<head, releases>>,
             tree'.version # Torn => AtMost(head.version, tree'.version),
             pc' # "idle" => /\ Climbs(head.version, decision')
                             /\ Says(history', pending'[1], decision')
                             /\ host.fresh => OneStep(head.version, decision'.to)
      PROVE  GInv'
  <2>1. \A n : Before(n)' = Before(n)
    BY <1>1 DEF Before
  <2>2. (head.version = Before(Len(releases) + 1))'
    BY <1>1, <1>g DEF Before
  <2>3. \A n \in DOMAIN releases' :
          /\ Climbs(Before(n)', releases'[n].decision)
          /\ Says(history', releases'[n].range, releases'[n].decision)
          /\ host'.fresh => OneStep(Before(n)', releases'[n].decision.to)
    BY <1>1, <1>r, <1>o, <2>1
  <2>4. Grown'
    BY <1>1, <1>o, <2>2, <2>3 DEF Grown, Busy, Before
  <2> QED
    BY <1>T, <2>4 DEF GInv
<1>2. ASSUME NEW n \in 1..MaxPush, NEW cs \in [1..n -> Changes], Push(cs) PROVE GInv'
  <2>1. UNCHANGED <<releases, head, tree, pc, decision>>
    BY <1>2 DEF Push
  <2>2. pending # <<>> => pending'[1] = pending[1]
    BY <1>t, <1>2, PushType
  <2>3. Busy => pending # <<>>
    BY <1>t DEF TInv, Queued
  <2> QED
    BY <1>1, <1>g, <1>s, <2>1, <2>2, <2>3 DEF Busy
<1>3. CASE Skips
  BY <1>1, <1>3, <1>g DEF Skips, Skip, Begin
<1>4. CASE CommitRelease
  <2>1. /\ releases' \in Seq(Release) /\ Len(releases') = Len(releases) + 1
        /\ \A n \in 1..Len(releases) : releases'[n] = releases[n]
        /\ releases'[Len(releases) + 1] = [range |-> pending[1], decision |-> decision]
        /\ pending # <<>>
    BY <1>t, <1>4, CommitType
  <2>2. /\ Len(releases) \in Nat /\ DOMAIN releases = 1..Len(releases)
        /\ DOMAIN releases' = 1..(Len(releases) + 1)
    BY <1>t, <2>1, QueueType
  <2>3. /\ head' = tree /\ tree' = tree /\ pc' = "idle" /\ decision' = decision
        /\ tree.version = decision.to /\ Busy
    BY <1>4, <1>t DEF CommitRelease, TInv, Staged, Busy
  <2>4. (head.version = Before(Len(releases) + 1))'
    <3>1. Len(releases') + 1 # 1 /\ Len(releases') + 1 - 1 = Len(releases) + 1
      BY <2>1, <2>2
    <3>2. Before(Len(releases) + 1)' = releases'[Len(releases) + 1].decision.to
      BY <3>1 DEF Before
    <3> QED
      BY <2>1, <2>3, <3>2
  <2>5. ASSUME NEW n \in 1..(Len(releases) + 1) PROVE Before(n)' = Before(n)
    <3>1. n # 1 => n - 1 \in 1..Len(releases)
      BY <2>2
    <3> QED
      BY <2>1, <3>1 DEF Before
  <2>6. ASSUME NEW n \in DOMAIN releases'
        PROVE  /\ Climbs(Before(n)', releases'[n].decision)
               /\ Says(history', releases'[n].range, releases'[n].decision)
               /\ host.fresh => OneStep(Before(n)', releases'[n].decision.to)
    <3>1. CASE n \in DOMAIN releases
      BY <1>r, <2>1, <2>2, <2>5, <3>1
    <3>2. CASE n = Len(releases) + 1
      <4>1. Before(n)' = head.version
        BY <1>g, <2>2, <2>5, <3>2
      <4>2. releases'[n].decision = decision /\ releases'[n].range = pending[1]
        BY <2>1, <3>2
      <4> QED
        BY <1>g, <1>s, <2>3, <4>1, <4>2
    <3> QED
      BY <2>2, <3>1, <3>2
  <2>7. Grown'
    BY <1>o, <2>3, <2>4, <2>6 DEF Grown, Busy, AtMost
  <2> QED
    BY <1>T, <2>7 DEF GInv
<1>5. ASSUME NEW tool \in Tools, NEW shown \in BOOLEAN, Decide(tool, shown) PROVE GInv'
  <2>1. UNCHANGED <<head, releases, history, pending, tree>>
    BY <1>5 DEF Decide
  <2>2. /\ Climbs(head.version, decision')
        /\ Says(history, pending[1], decision')
        /\ host.fresh => OneStep(head.version, decision'.to)
    BY <1>5, DecideGrown
  <2> QED
    BY <1>1, <1>g, <2>1, <2>2
<1>6. CASE WriteBegin
  <2>1. UNCHANGED <<head, releases, history, pending, decision>> /\ tree'.version = Torn /\ Busy
    BY <1>6, <1>o DEF WriteBegin, Busy
  <2> QED
    BY <1>1, <1>g, <2>1
<1>7. CASE WriteEnd
  <2>1. /\ UNCHANGED <<head, releases, history, pending, decision>>
        /\ tree'.version = decision.to /\ Busy
    BY <1>7, <1>o DEF WriteEnd, Busy
  <2> QED
    BY <1>1, <1>g, <2>1 DEF AtMost, Climbs
<1>8. CASE RollBegin \/ RollEnd
  <2>1. /\ UNCHANGED <<head, releases, history, pending>>
        /\ tree'.version = tree.version /\ Busy
        /\ decision'.to = decision.to /\ decision'.level = decision.level
        /\ decision'.commits = decision.commits
    BY <1>8, <1>o DEF RollBegin, RollEnd, Busy, Decision
  <2>2. Climbs(head.version, decision') /\ Says(history, pending[1], decision')
    BY <1>g, <2>1 DEF Climbs, Says
  <2> QED
    BY <1>1, <1>g, <2>1, <2>2
<1>9. CASE Crash \/ RollFails
  BY <1>1, <1>9, <1>g DEF Crash, RollFails
<1>10. CASE Restore
  BY <1>1, <1>10, <1>g DEF Restore, AtMost
<1>11. CASE UNCHANGED vars
  BY <1>1, <1>11, <1>g DEF vars, Busy
<1> QED
  BY <1>2, <1>3, <1>4, <1>5, <1>6, <1>7, <1>8, <1>9, <1>10, <1>11, Kinds

LEMMA GrownCovers == GInv => BumpCovers
<1> SUFFICES ASSUME GInv, NEW n \in DOMAIN releases,
                    NEW v, v = Before(n), NEW w, w = releases[n].decision.to
             PROVE  /\ Less(v, w)
                    /\ (\E i \in Said(n) : history[i].breaking) => IsMajor(v, w)
                    /\ (\E i \in Said(n) : history[i].kind = "feat") =>
                         IsMajor(v, w) \/ IsMinor(v, w)
                    /\ host.fresh => OneStep(v, w)
  BY DEF BumpCovers, OneStep
<1> DEFINE d == releases[n].decision
           r == releases[n].range
<1>1. Climbs(v, d) /\ Says(history, r, d) /\ (host.fresh => OneStep(v, d.to))
  BY DEF GInv, Grown
<1>2. Said(n) = Counted(history, r)
  BY DEF Said, Covered, Counted
<1>3. d.level \in {"patch", "minor", "major"}
  <2>1. d \in Decision
    BY ReleaseType DEF GInv, OInv, TInv
  <2> QED
    BY <2>1 DEF Decision
<1> QED
  BY <1>1, <1>2, <1>3 DEF Climbs, Says

\* Whatever a dead run left behind and however often it was retried, the
\* versions released grow, by a major step for a breaking commit, by at least
\* a minor one for a feature, and in clean checkouts by exactly one step
\* (semver.rs:49-67, classify.rs).
THEOREM BumpCoversHolds == Spec => []BumpCovers
BY GrownInit, GrownStep, GrownCovers, PTL DEF Spec
-----------------------------------------------------------------------------
(* The changelog goes with the version.                                    *)

\* The sections of a changelog, newest first: every version is below those
\* above it; all are below v; none is above v.
Falling(log) == \A m, n \in DOMAIN log : m < n => Less(log[n].version, log[m].version)
Below(log, v) == \A n \in DOMAIN log : Less(log[n].version, v)
UpTo(log, v) == \A n \in DOMAIN log : AtMost(log[n].version, v)

LEMMA SectionVersion ==
  ASSUME NEW log \in Seq(Section), NEW n \in DOMAIN log
  PROVE  log[n].version \in Version /\ log[n].commits \in SUBSET Nat
<1>1. log[n] \in Section
  OBVIOUS
<1> QED
  BY <1>1 DEF Section

LEMMA UpToBelow ==
  ASSUME NEW log \in Seq(Section), NEW v \in Version, NEW w \in Version,
         UpTo(log, v), Less(v, w)
  PROVE  Below(log, w)
BY SectionVersion, Climbing DEF UpTo, Below

LEMMA OnTop ==
  ASSUME NEW s \in Section, NEW log \in Seq(Section), Falling(log), Below(log, s.version),
         NEW t, t = <<s>> \o log
  PROVE  /\ t \in Seq(Section) /\ Falling(t) /\ UpTo(t, s.version)
         /\ t[1] = s /\ Len(t) = Len(log) + 1
<1>1. /\ t \in Seq(Section) /\ Len(t) = Len(log) + 1 /\ t[1] = s
      /\ \A n \in 1..Len(log) : t[n + 1] = log[n]
      /\ Len(log) \in Nat
  BY Prepend
<1>2. ASSUME NEW n \in DOMAIN t, n # 1
      PROVE  n - 1 \in DOMAIN log /\ t[n] = log[n - 1]
  <2>1. n - 1 \in 1..Len(log) /\ n - 1 + 1 = n
    BY <1>1, <1>2
  <2> QED
    BY <1>1, <2>1
<1>3. ASSUME NEW n \in DOMAIN t PROVE AtMost(t[n].version, s.version)
  BY <1>1, <1>2, <1>3 DEF Below, AtMost
<1>4. ASSUME NEW m \in DOMAIN t, NEW n \in DOMAIN t, m < n
      PROVE  Less(t[n].version, t[m].version)
  <2>0. n \in 1..Len(t) /\ m \in 1..Len(t) /\ Len(t) \in Nat
    BY <1>1
  <2>1. n # 1
    BY <1>4, <2>0
  <2>2. n - 1 \in DOMAIN log /\ t[n] = log[n - 1]
    BY <1>2, <2>1
  <2>3. CASE m = 1
    BY <1>1, <2>2, <2>3 DEF Below
  <2>4. CASE m # 1
    <3>1. m - 1 \in DOMAIN log /\ t[m] = log[m - 1] /\ m - 1 < n - 1
      BY <1>2, <1>4, <2>0, <2>4
    <3> QED
      BY <2>2, <3>1 DEF Falling
  <2> QED
    BY <2>3, <2>4
<1> QED
  BY <1>1, <1>3, <1>4 DEF Falling, UpTo

\* The sections committed fall from the version committed; those in the
\* checkout fall too, and the version in the checkout, or the one a run is
\* about to put on top of them, is not below the first.
Logged ==
  /\ Falling(head.changelog) /\ UpTo(head.changelog, head.version)
  /\ head.changelog # <<>> => head.changelog[1].version = head.version
  /\ tree.changelog # Torn => Falling(tree.changelog)
  /\ tree.changelog # Torn /\ tree.version # Torn => UpTo(tree.changelog, tree.version)
  /\ pc \in {"decided", "writing", "written"} /\ tree.changelog # Torn =>
       Below(tree.changelog, decision.to)
  /\ pc \in {"rolling", "rolled"} =>
       Falling(decision.sections) /\ Below(decision.sections, decision.to)

SInv == TInv /\ Logged

LEMMA LoggedInit == Init => SInv
<1> SUFFICES ASSUME Init PROVE SInv
  OBVIOUS
<1>1. head.changelog = <<>> /\ tree = head /\ pc = "idle" /\ DOMAIN head.changelog = {}
  BY DEF Init
<1>2. Logged
  BY <1>1 DEF Logged, Falling, UpTo
<1> QED
  BY <1>2, TypeInit DEF SInv

LEMMA LoggedStep == SInv /\ [Next]_vars => SInv'
<1> SUFFICES ASSUME SInv, [Next]_vars PROVE SInv'
  OBVIOUS
<1>t. TInv /\ TypeOK /\ Logged /\ Staged
  BY DEF SInv, TInv
<1>T. TInv'
  BY <1>t, TypeStep
<1>o. /\ head \in [version : Version, changelog : Seq(Section)]
      /\ tree \in [version : Version \cup {Torn}, changelog : Seq(Section) \cup {Torn}]
  BY <1>t DEF TypeOK
<1>d. /\ decision.to \in Version /\ decision.sections \in Seq(Section)
      /\ [version |-> decision.to, commits |-> Bullets(decision.commits)] \in Section
  BY <1>t, DecisionType
<1>1. CASE UNCHANGED <<head, tree, pc, decision>>
  BY <1>t, <1>T, <1>1 DEF SInv, Logged
<1>2. ASSUME NEW tool \in Tools, NEW shown \in BOOLEAN, Decide(tool, shown) PROVE SInv'
  <2> DEFINE b == ClassifyRange(CommitsInRange(pending[1]), Api(pending[1], tool))
  <2>1. tree.version \in Version /\ UNCHANGED <<head, tree>> /\ pc' = "decided"
    BY <1>2, <1>o DEF Decide
  <2>2. b \in {"patch", "minor", "major"}
    BY DEF ClassifyRange
  <2>3. decision'.to = Bumped(tree.version, b)
    BY <1>2 DEF Decide
  <2> HIDE DEF b
  <2>4. decision'.to \in Version /\ Less(tree.version, decision'.to)
    BY <2>1, <2>2, <2>3, BumpedType, BumpClimbs
  <2>5. tree.changelog # Torn => Below(tree.changelog, decision'.to)
    <3>1. tree.version # Torn
      BY <2>1, TornAssumption
    <3>2. tree.changelog # Torn => tree.changelog \in Seq(Section) /\ UpTo(tree.changelog, tree.version)
      BY <1>t, <1>o, <3>1 DEF Logged
    <3> QED
      BY <2>1, <2>4, <3>2, UpToBelow
  <2>6. Logged'
    BY <1>t, <2>1, <2>5 DEF Logged
  <2> QED
    BY <1>T, <2>6 DEF SInv
<1>3. CASE WriteBegin
  <2>1. /\ UNCHANGED <<head, decision>> /\ pc = "decided" /\ pc' = "writing"
        /\ tree'.version = Torn /\ tree'.changelog = tree.changelog
    BY <1>3, <1>o DEF WriteBegin
  <2>2. Logged'
    BY <1>t, <2>1 DEF Logged
  <2> QED
    BY <1>T, <2>2 DEF SInv
<1>4. CASE WriteEnd
  <2>1. /\ UNCHANGED <<head, decision>> /\ pc = "writing" /\ pc' = "written"
        /\ tree'.version = decision.to /\ tree'.changelog = tree.changelog
    BY <1>4, <1>o DEF WriteEnd
  <2>2. tree.changelog # Torn => UpTo(tree.changelog, decision.to)
    BY <1>t, <2>1 DEF Logged, Below, UpTo, AtMost
  <2>3. Logged'
    BY <1>t, <2>1, <2>2 DEF Logged
  <2> QED
    BY <1>T, <2>3 DEF SInv
<1>5. CASE RollBegin
  <2>1. /\ head' = head /\ pc = "written" /\ pc' = "rolling"
        /\ tree.changelog # Torn /\ tree'.changelog = Torn
        /\ decision'.sections = tree.changelog /\ decision'.to = decision.to
    BY <1>5, <1>o, <1>t DEF RollBegin, TypeOK, Decision
  <2>2. Logged'
    BY <1>t, <2>1 DEF Logged
  <2> QED
    BY <1>T, <2>2 DEF SInv
<1>6. CASE RollEnd
  <2> DEFINE s == [version |-> decision.to, commits |-> Bullets(decision.commits)]
  <2>1. /\ UNCHANGED <<head, decision>> /\ pc = "rolling" /\ pc' = "rolled"
        /\ tree'.version = tree.version /\ tree.version = decision.to
        /\ tree'.changelog = <<s>> \o decision.sections
    BY <1>6, <1>o, <1>t DEF RollEnd, Staged
  <2>2. Falling(decision.sections) /\ Below(decision.sections, s.version) /\ s \in Section
    BY <1>t, <1>d, <2>1 DEF Logged
  <2>3. PICK l : l = tree'.changelog
    OBVIOUS
  <2>4. Falling(l) /\ UpTo(l, s.version)
    BY <1>d, <2>1, <2>2, <2>3, OnTop
  <2>5. Logged'
    BY <1>t, <2>1, <2>2, <2>3, <2>4 DEF Logged
  <2> QED
    BY <1>T, <2>5 DEF SInv
<1>7. CASE RollFails \/ Crash
  <2>1. UNCHANGED <<head, tree>> /\ pc' = "idle"
    BY <1>7 DEF RollFails, Crash
  <2>2. Logged'
    BY <1>t, <2>1 DEF Logged
  <2> QED
    BY <1>T, <2>2 DEF SInv
<1>8. CASE Restore
  <2>1. head' = head /\ tree' = head /\ pc' = "idle"
    BY <1>8 DEF Restore
  <2>2. Logged'
    BY <1>t, <2>1 DEF Logged
  <2> QED
    BY <1>T, <2>2 DEF SInv
<1>9. CASE CommitRelease
  <2> DEFINE s == [version |-> decision.to, commits |-> Bullets(decision.commits)]
  <2>1. head' = tree /\ tree' = tree /\ pc = "rolled" /\ pc' = "idle"
    BY <1>9 DEF CommitRelease
  <2>2. tree.version = decision.to /\ tree.changelog = <<s>> \o decision.sections
    BY <1>t, <2>1 DEF Staged
  <2>3. Falling(decision.sections) /\ Below(decision.sections, s.version) /\ s \in Section
    BY <1>t, <1>d, <2>1 DEF Logged
  <2>4. PICK l : l = tree.changelog
    OBVIOUS
  <2>5. Falling(l) /\ UpTo(l, s.version) /\ l[1] = s
    BY <1>d, <2>2, <2>3, <2>4, OnTop
  <2>6. Logged'
    BY <1>t, <2>1, <2>2, <2>4, <2>5 DEF Logged
  <2> QED
    BY <1>T, <2>6 DEF SInv
<1>10. ASSUME NEW n \in 1..MaxPush, NEW cs \in [1..n -> Changes], Push(cs)
       PROVE  UNCHANGED <<head, tree, pc, decision>>
  BY <1>10 DEF Push
<1> QED
  BY <1>1, <1>2, <1>3, <1>4, <1>5, <1>6, <1>7, <1>8, <1>9, <1>10, Kinds
     DEF Skips, Skip, vars

LEMMA LoggedInSync == SInv => InSync
<1> SUFFICES ASSUME SInv PROVE InSync
  OBVIOUS
<1> DEFINE log == head.changelog
<1>1. log \in Seq(Section)
  BY DEF SInv, TInv, TypeOK
<1>2. \A v \in Version : ~ Less(v, v)
  BY VersionParts DEF Less
<1>3. ASSUME NEW m \in DOMAIN log, NEW n \in DOMAIN log, log[m].version = log[n].version
      PROVE  m = n
  <2>1. log[m].version \in Version
    BY <1>1, SectionVersion
  <2>2. ~ (m < n) /\ ~ (n < m)
    BY <1>2, <1>3, <2>1 DEF SInv, Logged, Falling
  <2>3. m \in 1..Len(log) /\ n \in 1..Len(log) /\ Len(log) \in Nat
    BY <1>1
  <2> QED
    BY <2>2, <2>3
<1> QED
  BY <1>3 DEF InSync, SInv, Logged

\* What is committed agrees with itself wherever `apply` died before: the
\* version in Cargo.toml is that of the newest changelog section, and no
\* version has two sections.
THEOREM InSyncHolds == Spec => []InSync
BY LoggedInit, LoggedStep, LoggedInSync, PTL DEF Spec

-----------------------------------------------------------------------------
(* In clean checkouts the changelog is the list of releases.               *)

\* What the changelog says of decision d, over main h.
Notable(h, ns) == {n \in ns : h[n].kind \in {"feat", "fix"} \/ h[n].breaking}
Entry(h, d) == [version |-> d.to, commits |-> Notable(h, d.commits)]

\* The committed changelog has an entry for every release, newest first.
Lists ==
  /\ Len(head.changelog) = Len(releases)
  /\ \A n \in DOMAIN releases :
       head.changelog[Len(releases) + 1 - n] = Entry(history, releases[n].decision)

Listed == host.fresh =>
  /\ Lists
  /\ pc \in {"decided", "writing", "written"} => tree.changelog = head.changelog
  /\ pc \in {"rolling", "rolled"} => decision.sections = head.changelog

CInv == GInv /\ Listed

LEMMA ListedInit == Init => CInv
<1> SUFFICES ASSUME Init PROVE CInv
  OBVIOUS
<1>1. head.changelog = <<>> /\ pc = "idle" /\ releases = <<>>
  BY DEF Init
<1>2. Len(head.changelog) = Len(releases) /\ DOMAIN releases = {}
  BY <1>1
<1>3. Listed
  BY <1>1, <1>2 DEF Listed, Lists
<1> QED
  BY <1>3, GrownInit DEF CInv

\* Main only grows, so no entry changes.
LEMMA EntryStable ==
  ASSUME NEW h, NEW g, NEW d, NEW k, d.commits \subseteq 1..k, \A n \in 1..k : g[n] = h[n]
  PROVE  Entry(g, d) = Entry(h, d)
BY DEF Entry, Notable

LEMMA EntryKept ==
  ASSUME GInv, [Next]_vars, NEW n \in DOMAIN releases
  PROVE  Entry(history', releases[n].decision) = Entry(history, releases[n].decision)
<1> DEFINE d == releases[n].decision
           r == releases[n].range
<1>t. TInv /\ TypeOK /\ Ordered
  BY DEF GInv, OInv, TInv
<1>h. Len(history) \in Nat /\ \A k \in 1..Len(history) : history'[k] = history[k]
  BY <1>t, HistoryGrows
<1>1. r.from \in Nat /\ r.to \in Nat /\ r.to <= Len(history)
  BY <1>t, <1>h, ReleaseType, SettledGrows DEF Ordered
<1>2. d.commits = Counted(history, r)
  BY DEF GInv, Grown, Says
<1>3. d.commits \subseteq 1..Len(history)
  BY <1>1, <1>2, <1>h DEF Counted
<1> HIDE DEF d, r
<1>4. Entry(history', d) = Entry(history, d)
  BY <1>3, <1>h, EntryStable
<1> QED
  BY <1>4 DEF d

\* A release puts its section on top.
LEMMA CommitListed ==
  ASSUME CInv, [Next]_vars, host.fresh, CommitRelease PROVE Lists'
<1> DEFINE s == [version |-> decision.to, commits |-> Bullets(decision.commits)]
           k == Len(releases)
<1>t. TInv /\ TypeOK /\ Staged /\ Listed /\ GInv
  BY DEF CInv, GInv, OInv, TInv
<1>d. decision.sections \in Seq(Section) /\ s \in Section
  BY <1>t, DecisionType
<1>e. s = Entry(history', decision)
  <2>1. \A n \in 1..Len(history) : history'[n] = history[n]
    BY <1>t, HistoryGrows
  <2>2. decision.commits \subseteq 1..Len(history)
    BY <1>t DEF TInv, Queued, Busy, CommitRelease
  <2>3. Entry(history', decision) = Entry(history, decision)
    BY <2>1, <2>2, EntryStable
  <2> QED
    BY <2>3 DEF Entry, Notable, Bullets
<1>1. /\ Len(releases') = k + 1
      /\ \A n \in 1..k : releases'[n] = releases[n]
      /\ releases'[k + 1] = [range |-> pending[1], decision |-> decision]
      /\ releases' \in Seq(Release) /\ k \in Nat /\ releases \in Seq(Release)
  BY <1>t, CommitType, QueueType
<1>2. /\ head' = tree /\ pc = "rolled"
      /\ tree.changelog = <<s>> \o decision.sections
      /\ decision.sections = head.changelog
  BY <1>t DEF CommitRelease, Staged, Listed
<1>3. /\ Len(head.changelog) = k
      /\ \A n \in DOMAIN releases :
           head.changelog[k + 1 - n] = Entry(history', releases[n].decision)
  BY <1>t, EntryKept DEF Listed, Lists
<1>4. PICK l : l = head'.changelog
  OBVIOUS
<1>5. /\ Len(l) = k + 1 /\ l[1] = s
      /\ \A n \in 1..k : l[n + 1] = head.changelog[n]
  BY <1>d, <1>2, <1>3, <1>4, Prepend
<1> HIDE DEF s
<1>6. ASSUME NEW n \in DOMAIN releases'
      PROVE  l[k + 1 + 1 - n] = Entry(history', releases'[n].decision)
  <2>0. n \in 1..(k + 1)
    BY <1>1
  <2>1. CASE n = k + 1
    <3>1. k + 1 + 1 - n = 1 /\ releases'[n].decision = decision
      BY <1>1, <2>1
    <3>2. l[k + 1 + 1 - n] = s
      BY <1>5, <3>1, Zenon
    <3> QED
      BY <1>e, <3>1, <3>2, Zenon
  <2>2. CASE n # k + 1
    <3>1. n \in 1..k /\ n \in DOMAIN releases
      BY <1>1, <2>0, <2>2
    <3>2. PICK j \in 1..k : j = k + 1 - n
      BY <1>1, <3>1
    <3>3. k + 1 + 1 - n = j + 1
      BY <1>1, <3>1, <3>2
    <3>4. l[k + 1 + 1 - n] = head.changelog[j]
      BY <1>5, <3>3, Zenon
    <3>5. releases'[n] = releases[n]
      BY <1>1, <3>1
    <3> QED
      BY <1>3, <3>1, <3>2, <3>4, <3>5
  <2> QED
    BY <2>1, <2>2
<1>7. Len(l) = Len(releases')
  BY <1>1, <1>5
<1> HIDE DEF k
<1> QED
  BY <1>1, <1>4, <1>6, <1>7 DEF Lists

LEMMA ListedStep == CInv /\ [Next]_vars => CInv'
<1> SUFFICES ASSUME CInv, [Next]_vars PROVE CInv'
  OBVIOUS
<1>t. GInv /\ TInv /\ TypeOK /\ Staged /\ Listed
  BY DEF CInv, GInv, OInv, TInv
<1>T. GInv'
  BY <1>t, GrownStep
<1>o. /\ host' = host
      /\ tree \in [version : Version \cup {Torn}, changelog : Seq(Section) \cup {Torn}]
      /\ decision \in Decision
  BY <1>t DEF TypeOK, Next, Push, Apply, Skips, Skip, Decide, WriteBegin, WriteEnd, RollBegin,
              RollFails, RollEnd, Crash, CommitRelease, Restore, vars
<1>1. SUFFICES ASSUME host.fresh PROVE Listed'
  BY <1>T, <1>o DEF CInv, Listed
<1>l. /\ Lists
      /\ pc \in {"decided", "writing", "written"} => tree.changelog = head.changelog
      /\ pc \in {"rolling", "rolled"} => decision.sections = head.changelog
  BY <1>1, <1>t DEF Listed
<1>2. ASSUME UNCHANGED <<head, releases>>,
             pc' \in {"decided", "writing", "written"} => tree'.changelog = head.changelog,
             pc' \in {"rolling", "rolled"} => decision'.sections = head.changelog
      PROVE  Listed'
  <2>1. Lists'
    BY <1>2, <1>l, <1>t, EntryKept DEF Lists
  <2> QED
    BY <1>2, <2>1 DEF Listed
<1>3. CASE CommitRelease
  <2>1. Lists' /\ pc' = "idle"
    BY <1>1, <1>3, CommitListed DEF CommitRelease
  <2> QED
    BY <2>1 DEF Listed
<1>4. CASE UNCHANGED <<head, releases, tree, pc, decision>>
  BY <1>2, <1>4, <1>l
<1>5. ASSUME NEW tool \in Tools, NEW shown \in BOOLEAN, Decide(tool, shown) PROVE Listed'
  <2>1. tree = head /\ UNCHANGED <<head, releases, tree>> /\ pc' = "decided"
    BY <1>1, <1>5 DEF Decide, Begin
  <2> QED
    BY <1>2, <2>1
<1>6. CASE WriteBegin \/ WriteEnd
  <2>1. /\ UNCHANGED <<head, releases>> /\ tree'.changelog = tree.changelog
        /\ pc \in {"decided", "writing"} /\ pc' \in {"writing", "written"}
    BY <1>6, <1>o DEF WriteBegin, WriteEnd
  <2> QED
    BY <1>2, <1>l, <2>1
<1>7. CASE RollBegin
  <2>1. /\ UNCHANGED <<head, releases>> /\ decision'.sections = tree.changelog
        /\ pc = "written" /\ pc' = "rolling"
    BY <1>7, <1>o DEF RollBegin, Decision
  <2> QED
    BY <1>2, <1>l, <2>1
<1>8. CASE RollEnd
  <2>1. UNCHANGED <<head, releases, decision>> /\ pc = "rolling" /\ pc' = "rolled"
    BY <1>8 DEF RollEnd
  <2> QED
    BY <1>2, <1>l, <2>1
<1>9. CASE RollFails \/ Crash \/ Restore
  <2>1. UNCHANGED <<head, releases>> /\ pc' = "idle"
    BY <1>9 DEF RollFails, Crash, Restore
  <2> QED
    BY <1>2, <2>1
<1> QED
  BY <1>3, <1>4, <1>5, <1>6, <1>7, <1>8, <1>9, Kinds DEF Push, Skips, Skip, vars

\* What is listed is what is notable among the commits that count.
LEMMA ListedReleases == CInv => ChangelogIsReleases
<1> SUFFICES ASSUME CInv, host.fresh PROVE ChangelogIsReleases
  BY DEF ChangelogIsReleases
<1>t. GInv /\ OInv /\ TypeOK /\ Ordered /\ Lists
  BY DEF CInv, GInv, OInv, TInv, Listed
<1>k. ASSUME NEW i \in 1..Len(history) PROVE history[i].kind \in {"feat", "fix", "chore"}
  <2>1. history[i] \in Changes \cup {ReleaseCommit}
    BY <1>t DEF TypeOK
  <2>2. history[i] \in Commit
    BY <2>1, OwnCommit
  <2> QED
    BY <2>2 DEF Commit
<1>1. ASSUME NEW n \in DOMAIN releases, NEW s, s = head.changelog[Len(releases) + 1 - n]
      PROVE  /\ s.version = releases[n].decision.to
             /\ \A i \in Covered(n) :
                  i \in s.commits <=>
                    i \in Said(n) /\ (history[i].breaking \/ history[i].kind # "chore")
             /\ s.commits \subseteq Covered(n)
  <2>1. s = Entry(history, releases[n].decision)
    BY <1>t, <1>1 DEF Lists
  <2>2. releases[n].decision.commits = Said(n)
    BY <1>t DEF GInv, Grown, Says, Counted, Said, Covered
  <2>3. s.version = releases[n].decision.to /\ s.commits = Notable(history, Said(n))
    BY <2>1, <2>2 DEF Entry
  <2>4. Covered(n) \subseteq 1..Len(history) /\ Said(n) \subseteq Covered(n)
    <3>1. releases[n].range.from \in Nat /\ releases[n].range.to \in Nat
      BY <1>t, ReleaseType
    <3>2. releases[n].range.to <= Len(history) /\ Len(history) \in Nat
      <4>1. releases[n].range.to <= Settled /\ Settled \in Nat /\ Settled <= Len(history)
        BY <1>t, SettledMoves DEF Ordered, OInv
      <4> QED
        BY <1>t, <3>1, <4>1, QueueType
    <3> QED
      BY <3>1, <3>2 DEF Covered, Said
  <2>5. \A i \in Covered(n) : history[i].kind \in {"feat", "fix"} <=> history[i].kind # "chore"
    BY <1>k, <2>4
  <2> QED
    BY <2>3, <2>4, <2>5 DEF Notable
<1> QED
  BY <1>t, <1>1 DEF Lists, ChangelogIsReleases

\* In clean checkouts the committed changelog has one section per release,
\* newest first, each with the notable commits of its release and no other:
\* no release is lost from it and none that died is in it.
THEOREM ChangelogIsReleasesHolds == Spec => []ChangelogIsReleases
BY ListedInit, ListedStep, ListedReleases, PTL DEF Spec
-----------------------------------------------------------------------------
(* Every merge is released.                                                *)

\* What becomes of the queue: its ranges are those it had, and one more when
\* main grew.
LEMMA QueueMoves ==
  ASSUME TInv, Skips \/ CommitRelease, NEW n \in DOMAIN pending'
  PROVE  \/ \E m \in DOMAIN pending : pending'[n] = pending[m]
         \/ CommitRelease /\ pending'[n] = [from |-> Len(history), to |-> Len(history) + 1]
<1>1. pending \in Seq(PushRange) /\ pending # <<>> /\ Len(history) \in Nat
  BY QueueType, SettledMoves DEF TInv
<1>2. PICK s : s = Tail(pending)
  OBVIOUS
<1>3. /\ s \in Seq(PushRange) /\ Len(s) = Len(pending) - 1 /\ Len(pending) \in Nat
      /\ \A m \in 1..Len(s) : s[m] = pending[m + 1]
  BY <1>1, <1>2, HeadTailProperties, EmptySeq
<1>4. \A m \in 1..Len(s) : m + 1 \in DOMAIN pending
  BY <1>1, <1>3
<1>5. CASE Skips
  <2>1. pending' = s
    BY <1>2, <1>5 DEF Skips, Skip
  <2>2. n \in 1..Len(s)
    BY <1>3, <2>1
  <2> QED
    BY <1>3, <1>4, <2>1, <2>2
<1>6. CASE CommitRelease
  <2> DEFINE x == [from |-> Len(history), to |-> Len(history) + 1]
  <2>1. pending' = Append(s, x) /\ x \in PushRange
    BY <1>1, <1>2, <1>6 DEF CommitRelease, PushRange
  <2>2. /\ Len(pending') = Len(s) + 1 /\ pending' \in Seq(PushRange) /\ Len(s) \in Nat
        /\ \A m \in 1..Len(s) : pending'[m] = s[m]
        /\ pending'[Len(s) + 1] = x
    BY <1>3, <2>1, AppendProperties
  <2>3. n \in 1..Len(s) \/ n = Len(s) + 1
    BY <2>2
  <2> QED
    BY <1>3, <1>4, <1>6, <2>2, <2>3
<1> QED
  BY <1>5, <1>6

\* Commit i of main h was lost with all up to a marked one, of the first n.
Lost(i, h, n) ==
  \E j \in i..n : /\ h[j].skip /\ ~ h[j].own
                 /\ \A k \in i..j : Unreleased(k)

\* A range that ends in the engine's own commit holds nothing else, and what
\* is settled is released or lost.
Floor ==
  /\ \A n \in DOMAIN pending :
       history[pending[n].to].own => pending[n].to = pending[n].from + 1
  /\ \A i \in 1..Settled :
       ~ history[i].own /\ Unreleased(i) => Lost(i, history, Settled)

FInv == OInv /\ Floor

LEMMA FloorInit == Init => FInv
<1> SUFFICES ASSUME Init PROVE FInv
  OBVIOUS
<1>1. pending = <<>> /\ history = <<>>
  BY DEF Init
<1>2. Settled = 0 /\ DOMAIN pending = {}
  BY <1>1 DEF Settled
<1>3. Floor
  BY <1>2 DEF Floor
<1> QED
  BY <1>3, OrderedInit DEF FInv

\* What is settled and not released stays so: a new release is of what was
\* not settled before.
LEMMA UnreleasedStays ==
  ASSUME OInv, [Next]_vars, NEW k \in 1..Settled
  PROVE  Unreleased(k)' <=> Unreleased(k)
<1>t. TInv /\ TypeOK
  BY DEF OInv, TInv
<1>1. CASE releases' = releases
  BY <1>1 DEF Unreleased, Covered
<1>2. CASE CommitRelease
  <2>1. /\ Len(releases') = Len(releases) + 1 /\ releases' \in Seq(Release)
        /\ \A n \in 1..Len(releases) : releases'[n] = releases[n]
        /\ releases'[Len(releases) + 1] = [range |-> pending[1], decision |-> decision]
        /\ pending # <<>> /\ pending[1] \in PushRange
    BY <1>t, <1>2, CommitType
  <2>2. /\ Len(releases) \in Nat /\ DOMAIN releases = 1..Len(releases)
        /\ DOMAIN releases' = 1..(Len(releases) + 1)
    BY <1>t, <2>1, QueueType
  <2>3. Settled \in Nat /\ Settled = pending[1].from
    BY <1>t, <2>1, SettledMoves
  <2>4. \A n \in DOMAIN releases : Covered(n)' = Covered(n)
    BY <2>1, <2>2 DEF Covered
  <2>5. PICK m : m = Len(releases) + 1
    OBVIOUS
  <2>6. k \notin Covered(m)'
    <3>1. Covered(m)' = (pending[1].from + 1)..pending[1].to
      BY <2>1, <2>5 DEF Covered
    <3> QED
      BY <2>1, <2>3, <3>1 DEF PushRange
  <2>7. \A n : n \in DOMAIN releases' <=> n \in DOMAIN releases \/ n = m
    BY <2>2, <2>5
  <2> QED
    BY <2>4, <2>6, <2>7 DEF Unreleased
<1> QED
  BY <1>1, <1>2, ReleasesGrow

LEMMA FloorStep == FInv /\ [Next]_vars => FInv'
<1> SUFFICES ASSUME FInv, [Next]_vars PROVE FInv'
  OBVIOUS
<1>t. OInv /\ TInv /\ TypeOK /\ Floor /\ Ordered
  BY DEF FInv, OInv, TInv
<1>T. OInv'
  BY <1>t, OrderedStep
<1>h. /\ Len(history) \in Nat /\ history \in Seq(Changes \cup {ReleaseCommit})
      /\ \A n \in 1..Len(history) : history'[n] = history[n]
      /\ history' \in Seq(Changes \cup {ReleaseCommit}) /\ Len(history') \in Nat
  BY <1>t, HistoryGrows
<1>p. ASSUME NEW n \in DOMAIN pending
      PROVE  /\ pending[n].to \in 1..Len(history)
             /\ history'[pending[n].to].own => pending[n].to = pending[n].from + 1
  <2>1. /\ pending[n] \in PushRange
        /\ pending[n].from < pending[n].to /\ pending[n].to <= Len(history)
    BY <1>t DEF TypeOK
  <2>2. pending[n].to \in 1..Len(history)
    BY <1>h, <2>1 DEF PushRange
  <2> QED
    BY <1>t, <1>h, <2>2 DEF Floor
<1>s. /\ Settled \in Nat /\ Settled <= Len(history)
      /\ pending # <<>> => /\ Settled = pending[1].from /\ pending[1] \in PushRange
                           /\ pending[1].from < pending[1].to
                           /\ pending[1].to <= Len(history)
      /\ \A n \in 1..MaxPush : \A cs \in [1..n -> Changes] : Push(cs) => Settled' = Settled
      /\ Skips \/ CommitRelease => pending # <<>> /\ Settled' = pending[1].to
  BY <1>t, SettledMoves
<1>g. Settled' \in Nat /\ Settled <= Settled'
  BY <1>t, SettledGrows
<1>f. ASSUME NEW i \in 1..Settled, ~ history'[i].own, Unreleased(i)'
      PROVE  Lost(i, history, Settled)'
  <2>1. i \in 1..Len(history) /\ history'[i] = history[i]
    BY <1>h, <1>s
  <2>2. Unreleased(i)
    BY <1>f, <1>t, UnreleasedStays
  <2>3. PICK j \in i..Settled : history[j].skip /\ ~ history[j].own
                              /\ \A k \in i..j : Unreleased(k)
    BY <1>f, <1>t, <2>1, <2>2 DEF Floor, Lost
  <2>4. j \in 1..Len(history) /\ history'[j] = history[j] /\ j \in i..Settled'
    BY <1>h, <1>s, <1>g, <2>3
  <2>5. ASSUME NEW k \in i..j PROVE Unreleased(k)'
    <3>1. k \in 1..Settled /\ Unreleased(k)
      BY <1>s, <2>3
    <3> QED
      BY <1>t, <3>1, UnreleasedStays
  <2> QED
    BY <2>3, <2>4, <2>5 DEF Lost
<1>1. ASSUME \A i \in (Settled + 1)..Settled' :
               ~ history'[i].own /\ Unreleased(i)' => Lost(i, history, Settled)',
             \A n \in DOMAIN pending' :
               history'[pending'[n].to].own => pending'[n].to = pending'[n].from + 1
      PROVE  FInv'
  <2>1. ASSUME NEW i \in 1..Settled', ~ history'[i].own, Unreleased(i)'
        PROVE  Lost(i, history, Settled)'
    <3>1. i \in 1..Settled \/ i \in (Settled + 1)..Settled'
      BY <1>s, <1>g
    <3> QED
      BY <1>1, <1>f, <2>1, <3>1
  <2>2. Floor'
    BY <1>1, <2>1 DEF Floor, Lost
  <2> QED
    BY <1>T, <2>2 DEF FInv
<1>2. ASSUME NEW n \in 1..MaxPush, NEW cs \in [1..n -> Changes], Push(cs) PROVE FInv'
  <2>1. (Settled + 1)..Settled' = {}
    BY <1>2, <1>s
  <2>2. /\ Len(pending') = Len(pending) + 1 /\ pending' \in Seq(PushRange)
        /\ \A k \in 1..Len(pending) : pending'[k] = pending[k]
        /\ pending'[Len(pending) + 1] = [from |-> Len(history), to |-> Len(history) + n]
    BY <1>2, <1>t, PushType
  <2>3. ~ history'[Len(history) + n].own
    <3>1. n \in Nat /\ n >= 1 /\ n \in 1..n
      BY BoundsAssumption
    <3>2. cs \in Seq(Changes \cup {ReleaseCommit}) /\ Len(cs) = n /\ cs[n] \in Changes
      BY <3>1
    <3>3. history' = history \o cs
      BY <1>2 DEF Push
    <3>4. history'[Len(history) + n] = cs[n]
      BY <1>h, <3>1, <3>2, <3>3, ConcatProperties
    <3> QED
      BY <3>2, <3>4, ChangesAssumption
  <2>4. DOMAIN pending' = 1..(Len(pending) + 1) /\ DOMAIN pending = 1..Len(pending)
        /\ Len(pending) \in Nat
    BY <1>t, <2>2, QueueType
  <2>5. ASSUME NEW k \in DOMAIN pending', history'[pending'[k].to].own
        PROVE  pending'[k].to = pending'[k].from + 1
    <3>1. CASE k \in DOMAIN pending
      BY <1>p, <2>2, <2>4, <2>5, <3>1
    <3>2. CASE k = Len(pending) + 1
      BY <2>2, <2>3, <2>5, <3>2
    <3> QED
      BY <2>4, <3>1, <3>2
  <2> QED
    BY <1>1, <2>1, <2>5
<1>3. ASSUME Skips \/ CommitRelease,
             \A i \in (pending[1].from + 1)..pending[1].to :
               ~ history'[i].own /\ Unreleased(i)' => Lost(i, history, Settled)'
      PROVE  FInv'
  <2>1. (Settled + 1)..Settled' = (pending[1].from + 1)..pending[1].to
    BY <1>3, <1>s
  <2>2. ASSUME NEW n \in DOMAIN pending', history'[pending'[n].to].own
        PROVE  pending'[n].to = pending'[n].from + 1
    <3>1. CASE \E m \in DOMAIN pending : pending'[n] = pending[m]
      BY <1>p, <2>2, <3>1
    <3>2. CASE pending'[n] = [from |-> Len(history), to |-> Len(history) + 1]
      BY <3>2
    <3> QED
      BY <1>3, <1>t, <3>1, <3>2, QueueMoves
  <2> QED
    BY <1>1, <1>3, <2>1, <2>2
<1>4. CASE Skips
  <2>1. /\ history' = history /\ releases' = releases /\ pending # <<>>
        /\ history[pending[1].to].skip
    BY <1>4 DEF Skips, Skip, Begin, LatestIsSkip
  <2>2. 1 \in DOMAIN pending
    <3>1. Len(pending) \in Nat /\ Len(pending) >= 1 /\ DOMAIN pending = 1..Len(pending)
      BY <1>t, <2>1, QueueType, EmptySeq
    <3> QED
      BY <3>1
  <2>3. ASSUME NEW i \in (pending[1].from + 1)..pending[1].to,
               ~ history'[i].own, Unreleased(i)'
        PROVE  Lost(i, history, Settled)'
    <3>0. i \in Nat /\ i > Settled /\ i <= pending[1].to /\ pending[1].to \in Nat
          /\ Settled' = pending[1].to
      BY <1>4, <1>s, <2>1 DEF PushRange
    <3>1. ~ history[pending[1].to].own
      <4>1. history[pending[1].to].own => i = pending[1].to
        BY <1>p, <1>s, <2>1, <2>2 DEF PushRange
      <4> QED
        BY <2>1, <2>3, <4>1
    <3>2. ASSUME NEW k \in i..pending[1].to PROVE Unreleased(k)'
      <4>1. ASSUME NEW n \in DOMAIN releases PROVE k \notin Covered(n)
        <5>1. releases[n].range.to \in Nat /\ releases[n].range.from \in Nat
              /\ releases[n].range.to <= Settled
          BY <1>t, ReleaseType DEF Ordered
        <5> QED
          BY <1>s, <3>0, <5>1 DEF Covered
      <4> QED
        BY <2>1, <4>1 DEF Unreleased, Covered
    <3>3. PICK j \in i..Settled' : j = pending[1].to
      BY <3>0
    <3>4. history'[j].skip /\ ~ history'[j].own /\ \A k \in i..j : Unreleased(k)'
      BY <2>1, <3>1, <3>2, <3>3
    <3> QED
      BY <3>4 DEF Lost
  <2> QED
    BY <1>3, <1>4, <2>3
<1>5. CASE CommitRelease
  <2>1. /\ Len(releases') = Len(releases) + 1
        /\ \A n \in 1..Len(releases) : releases'[n] = releases[n]
        /\ releases'[Len(releases) + 1] = [range |-> pending[1], decision |-> decision]
        /\ releases' \in Seq(Release)
    BY <1>t, <1>5, CommitType
  <2>2. /\ Len(releases) \in Nat /\ DOMAIN releases = 1..Len(releases)
        /\ DOMAIN releases' = 1..(Len(releases) + 1)
    BY <1>t, <2>1, QueueType
  <2>3. \E k \in DOMAIN releases' : Covered(k)' = (pending[1].from + 1)..pending[1].to
    <3>1. PICK k : k = Len(releases) + 1
      OBVIOUS
    <3>2. Covered(k)' = (pending[1].from + 1)..pending[1].to
      BY <2>1, <3>1 DEF Covered
    <3> QED
      BY <2>2, <3>1, <3>2
  <2>4. \A i \in (pending[1].from + 1)..pending[1].to : ~ Unreleased(i)'
    BY <2>3 DEF Unreleased
  <2> QED
    BY <1>3, <1>5, <2>4
<1>6. CASE UNCHANGED <<host, history, pending, releases, head>>
  <2>1. (Settled + 1)..Settled' = {}
    BY <1>6, <1>s DEF Settled
  <2> QED
    BY <1>1, <1>6, <1>p, <2>1
<1> QED
  BY <1>2, <1>4, <1>5, <1>6, Steps

\* Every commit of a settled push, the engine's own aside, is part of a
\* release, or was lost with all that followed it up to a developer's commit
\* that repeats the marker (classify.rs:7, decide.rs:57-67): no crash, retry
\* or push in between loses one.
THEOREM FloorIsPatchHolds == Spec => []FloorIsPatch
<1>1. FInv => FloorIsPatch
  BY DEF FInv, Floor, FloorIsPatch, Lost
<1> QED
  BY <1>1, FloorInit, FloorStep, PTL DEF Spec
-----------------------------------------------------------------------------
(* An API break is a major release.                                        *)

\* A major decision taken when commit i was on main.
Seen(i, d) == d.level = "major" /\ d.seen >= i

\* What the commits touched that decision d looked at, over main h.
Touched(h, r, d) == {h[k].touch : k \in (r.from + 1)..d.seen}

\* Decision d on range r of main h, after the first n of releases rel: the
\* breaks on main are met by it or by one of them, or the gate was not asked,
\* which a host w that waives it, or an empty plan, explains.
Gate(h, rel, w, r, d, n) ==
  \/ \A i \in 1..d.seen :
       h[i].api => Seen(i, d) \/ \E m \in 1..n : Seen(i, rel[m].decision)
  \/ ~ d.probed /\ (w \/ "shared" \in Touched(h, r, d) \/ "package" \notin Touched(h, r, d))

Waives == host.lenient \/ ~ host.fresh

LEMMA GateStable ==
  ASSUME NEW h, NEW g, NEW rel, NEW now, NEW w, NEW r \in PushRange, NEW d, NEW n \in Nat,
         NEW k \in Nat, d.seen \in Nat, d.seen <= k,
         \A j \in 1..k : g[j] = h[j], \A m \in 1..n : now[m] = rel[m],
         Gate(h, rel, w, r, d, n)
  PROVE  Gate(g, now, w, r, d, n)
<1>1. \A j \in (r.from + 1)..d.seen : j \in 1..k
  BY DEF PushRange
<1>2. Touched(g, r, d) = Touched(h, r, d)
  BY <1>1 DEF Touched
<1>3. \A j \in 1..d.seen : g[j] = h[j]
  OBVIOUS
<1> QED
  BY <1>2, <1>3 DEF Gate

Major ==
  /\ Busy => /\ decision.seen <= Len(history)
             /\ Gate(history, releases, Waives, pending[1], decision, Len(releases))
  /\ \A n \in DOMAIN releases :
       /\ releases[n].decision.seen <= Len(history)
       /\ Gate(history, releases, Waives, releases[n].range, releases[n].decision, n - 1)

MInv == GInv /\ Major

LEMMA MajorInit == Init => MInv
<1>1. Init => releases = <<>> /\ DOMAIN <<>> = {} /\ pc = "idle"
  BY DEF Init
<1>2. Init => Major
  BY <1>1 DEF Major, Busy
<1> QED
  BY <1>2, GrownInit DEF MInv

\* The gate is asked unless the plan is empty or the host may do without it,
\* and it answers for the whole of main.
LEMMA DecideMajor ==
  ASSUME TInv, NEW tool \in Tools, NEW shown \in BOOLEAN, Decide(tool, shown)
  PROVE  /\ decision'.seen = Len(history)
         /\ Gate(history, releases, Waives, pending[1], decision', Len(releases))
<1> DEFINE r == pending[1]
           ns == CommitsInRange(r)
<1>1. /\ host.fresh => tree = head
      /\ tool # "absent" \/ host.lenient \/ PlanEmpty(r)
      /\ decision'.level = ClassifyRange(ns, Api(r, tool)) /\ decision'.seen = Len(history)
      /\ decision'.probed = (tool # "absent" /\ ~ PlanEmpty(r))
  BY DEF Decide, Begin
<1>2. Len(history) \in Nat /\ DOMAIN history = 1..Len(history)
      /\ DOMAIN releases = 1..Len(releases)
  BY QueueType DEF TInv
<1>3. CASE tool # "absent" /\ ~ PlanEmpty(r)
  <2>1. SUFFICES ASSUME NEW i \in 1..Len(history), history[i].api
                 PROVE  Seen(i, decision') \/ \E m \in DOMAIN releases : Seen(i, releases[m].decision)
    BY <1>1, <1>2 DEF Gate
  <2>2. CASE Api(r, tool)
    BY <1>1, <1>2, <2>2 DEF ClassifyRange, Seen
  <2>3. CASE ~ Api(r, tool)
    <3>1. ~ ApiBroken
      BY <1>3, <2>3 DEF Api, Tools
    <3>2. PICK k \in DOMAIN releases :
            releases[k].decision.level = "major" /\ ~ (releases[k].decision.seen < i)
      BY <1>2, <2>1, <3>1 DEF ApiBroken
    <3>3. releases[k].decision.seen \in Nat
      <4>1. releases[k].decision \in Decision
        BY ReleaseType DEF TInv
      <4> QED
        BY <4>1 DEF Decision
    <3> QED
      BY <1>2, <3>2, <3>3 DEF Seen
  <2> QED
    BY <2>2, <2>3
<1>4. CASE PlanEmpty(r)
  <2>1. PICK t : t = Touched(history, r, decision')
    OBVIOUS
  <2>2. "shared" \in t \/ tree.version # head.version \/ "package" \notin t
    BY <1>1, <1>4, <2>1 DEF PlanEmpty, Touched
  <2>3. ~ decision'.probed
    BY <1>1, <1>4
  <2> QED
    BY <1>1, <2>1, <2>2, <2>3 DEF Gate, Waives
<1>5. CASE tool = "absent" /\ host.lenient
  <2>1. ~ decision'.probed
    BY <1>1, <1>5
  <2> QED
    BY <1>1, <1>5, <2>1 DEF Gate, Waives
<1> QED
  BY <1>1, <1>3, <1>4, <1>5

LEMMA MajorStep == MInv /\ [Next]_vars => MInv'
<1> SUFFICES ASSUME MInv, [Next]_vars PROVE MInv'
  OBVIOUS
<1>t. GInv /\ TInv /\ TypeOK /\ Major
  BY DEF MInv, GInv, OInv, TInv
<1>T. GInv'
  BY <1>t, GrownStep
<1>o. /\ host' = host /\ decision \in Decision /\ decision.seen \in Nat
  <2>1. host' = host
    BY Kinds DEF Push, Skips, Skip, Decide, WriteBegin, WriteEnd, RollBegin,
                 RollFails, RollEnd, Crash, CommitRelease, Restore, vars
  <2> QED
    BY <1>t, <2>1, QueueType, DecisionType
<1>h. /\ Len(history) \in Nat /\ Len(history') \in Nat /\ Len(history') >= Len(history)
      /\ \A n \in 1..Len(history) : history'[n] = history[n]
      /\ Len(releases) \in Nat /\ DOMAIN releases = 1..Len(releases)
  BY <1>t, HistoryGrows, QueueType
<1>k. /\ Len(releases') >= Len(releases)
      /\ \A n \in 1..Len(releases) : releases'[n] = releases[n]
  <2>1. CASE releases' = releases
    BY <1>h, <2>1
  <2>2. CASE CommitRelease
    BY <1>t, <1>h, <2>2, CommitType
  <2> QED
    BY <2>1, <2>2, ReleasesGrow
<1>r. ASSUME NEW n \in DOMAIN releases
      PROVE  /\ releases[n].decision.seen <= Len(history')
             /\ Gate(history', releases', Waives, releases[n].range, releases[n].decision, n - 1)
  <2>1. releases[n].range \in PushRange /\ releases[n].decision.seen \in Nat
    <3>1. releases[n] \in Release
      BY <1>t, QueueType
    <3> QED
      BY <3>1 DEF Release, Decision
  <2>2. releases[n].decision.seen <= Len(history)
        /\ Gate(history, releases, Waives, releases[n].range, releases[n].decision, n - 1)
    BY <1>t DEF Major
  <2>3. n - 1 \in Nat /\ \A m \in 1..(n - 1) : releases'[m] = releases[m]
    BY <1>h, <1>k
  <2>4. Gate(history', releases', Waives, releases[n].range, releases[n].decision, n - 1)
    BY <1>h, <2>1, <2>2, <2>3, GateStable
  <2> QED
    BY <1>h, <2>1, <2>2, <2>4
<1>s. Busy => /\ decision.seen <= Len(history')
              /\ Gate(history', releases', Waives, pending[1], decision, Len(releases))
  <2> SUFFICES ASSUME Busy PROVE
        /\ decision.seen <= Len(history')
        /\ Gate(history', releases', Waives, pending[1], decision, Len(releases))
    OBVIOUS
  <2>1. pending[1] \in PushRange
    BY <1>t, QueueType, QueueTail DEF TInv, Queued
  <2>2. /\ decision.seen <= Len(history)
        /\ Gate(history, releases, Waives, pending[1], decision, Len(releases))
    BY <1>t DEF Major
  <2>3. decision.seen \in Nat /\ Len(releases) \in Nat /\ Len(history) \in Nat
    BY <1>o, <1>h
  <2>4. \A n \in 1..Len(releases) : releases'[n] = releases[n]
    BY <1>k
  <2>5. \A n \in 1..Len(history) : history'[n] = history[n]
    BY <1>h
  <2>6. Gate(history', releases', Waives, pending[1], decision, Len(releases))
    <3>1. PICK n, d, r, k : n = Len(releases) /\ d = decision /\ r = pending[1] /\ k = Len(history)
      OBVIOUS
    <3>2. /\ n \in Nat /\ k \in Nat /\ d.seen \in Nat /\ r \in PushRange /\ d.seen <= k
          /\ \A m \in 1..n : releases'[m] = releases[m]
          /\ \A j \in 1..k : history'[j] = history[j]
          /\ Gate(history, releases, Waives, r, d, n)
      BY <2>1, <2>2, <2>3, <2>4, <2>5, <3>1
    <3>3. Gate(history', releases', Waives, r, d, n)
      BY <3>2, GateStable
    <3> QED
      BY <3>1, <3>3
  <2> QED
    BY <1>o, <1>h, <2>2, <2>6
<1>w. Waives' = Waives
  BY <1>o DEF Waives
<1>1. ASSUME releases' = releases,
             pc' # "idle" =>
               /\ decision'.seen <= Len(history')
               /\ Gate(history', releases, Waives, pending'[1], decision', Len(releases))
      PROVE  MInv'
  <2>1. Major'
    BY <1>1, <1>r, <1>w DEF Major, Busy
  <2> QED
    BY <1>T, <2>1 DEF MInv
<1>2. ASSUME NEW n \in 1..MaxPush, NEW cs \in [1..n -> Changes], Push(cs) PROVE MInv'
  <2>1. UNCHANGED <<releases, pc, decision>>
    BY <1>2 DEF Push
  <2>2. Busy => pending'[1] = pending[1]
    BY <1>t, <1>2, PushType DEF TInv, Queued
  <2> QED
    BY <1>1, <1>s, <2>1, <2>2 DEF Busy
<1>3. CASE Skips
  BY <1>1, <1>3 DEF Skips, Skip, Begin
<1>4. CASE CommitRelease
  <2>1. /\ Len(releases') = Len(releases) + 1
        /\ releases'[Len(releases) + 1] = [range |-> pending[1], decision |-> decision]
        /\ releases' \in Seq(Release)
    BY <1>t, <1>4, CommitType
  <2>2. DOMAIN releases' = 1..(Len(releases) + 1)
    BY <1>h, <2>1
  <2>3. Busy /\ pc' = "idle"
    BY <1>4 DEF CommitRelease, Busy
  <2>4. ASSUME NEW n \in DOMAIN releases'
        PROVE  /\ releases'[n].decision.seen <= Len(history')
               /\ Gate(history', releases', Waives, releases'[n].range,
                       releases'[n].decision, n - 1)
    <3>1. CASE n \in DOMAIN releases
      BY <1>h, <1>k, <1>r, <3>1
    <3>2. CASE n = Len(releases) + 1
      <4>1. releases'[n].range = pending[1] /\ releases'[n].decision = decision
        BY <2>1, <3>2
      <4>2. n - 1 = Len(releases)
        BY <1>h, <3>2
      <4> QED
        BY <1>s, <2>3, <4>1, <4>2
    <3> QED
      BY <1>h, <2>2, <3>1, <3>2
  <2>5. Major'
    BY <1>w, <2>3, <2>4 DEF Major, Busy
  <2> QED
    BY <1>T, <2>5 DEF MInv
<1>5. ASSUME NEW tool \in Tools, NEW shown \in BOOLEAN, Decide(tool, shown) PROVE MInv'
  <2>1. UNCHANGED <<history, pending, releases>>
    BY <1>5 DEF Decide
  <2>2. /\ decision'.seen = Len(history)
        /\ Gate(history, releases, Waives, pending[1], decision', Len(releases))
    BY <1>5, <1>t, DecideMajor
  <2> QED
    BY <1>1, <1>h, <2>1, <2>2
<1>6. CASE WriteBegin \/ WriteEnd \/ RollBegin \/ RollEnd \/ RollFails \/ Crash \/ Restore
           \/ UNCHANGED vars
  <2>1. /\ UNCHANGED <<history, pending, releases>>
        /\ pc' # "idle" => /\ Busy /\ decision'.level = decision.level
                           /\ decision'.seen = decision.seen
                           /\ decision'.probed = decision.probed
    BY <1>6, <1>o DEF WriteBegin, WriteEnd, RollBegin, RollEnd, RollFails, Crash, Restore,
                      vars, Decision, Busy
  <2>2. pc' # "idle" => Gate(history', releases, Waives, pending'[1], decision', Len(releases))
    BY <1>s, <2>1 DEF Gate, Seen, Touched
  <2> QED
    BY <1>1, <1>s, <2>1, <2>2
<1> QED
  BY <1>2, <1>3, <1>4, <1>5, <1>6, Kinds

LEMMA MajorBreaking == MInv => BreakingIsMajor
<1> SUFFICES ASSUME MInv, NEW n \in DOMAIN releases,
                    NEW d, d = releases[n].decision,
                    NEW touched, touched = Touched(history, releases[n].range, d)
             PROVE  \/ \A i \in 1..d.seen :
                         history[i].api =>
                           \E m \in 1..n : /\ IsMajor(Before(m), releases[m].decision.to)
                                           /\ releases[m].decision.seen >= i
                    \/ /\ ~ d.probed
                       /\ \/ host.lenient \/ ~ host.fresh
                          \/ "shared" \in touched \/ "package" \notin touched
  BY DEF BreakingIsMajor, Touched
<1>1. DOMAIN releases = 1..Len(releases) /\ Len(releases) \in Nat
  BY QueueType DEF MInv, GInv, OInv, TInv
<1>2. \A m \in DOMAIN releases : Climbs(Before(m), releases[m].decision)
  BY DEF MInv, GInv, Grown
<1>3. Gate(history, releases, Waives, releases[n].range, d, n - 1)
  BY DEF MInv, Major
<1>4. ASSUME NEW i \in 1..d.seen,
             Seen(i, d) \/ \E m \in 1..(n - 1) : Seen(i, releases[m].decision)
      PROVE  \E m \in 1..n : /\ IsMajor(Before(m), releases[m].decision.to)
                             /\ releases[m].decision.seen >= i
  <2>1. PICK m \in 1..n : Seen(i, releases[m].decision)
    BY <1>1, <1>4
  <2>2. Climbs(Before(m), releases[m].decision)
    BY <1>1, <1>2
  <2> QED
    BY <2>1, <2>2 DEF Seen, Climbs
<1> QED
  BY <1>3, <1>4 DEF Gate, Waives

\* Every API break on main when a release is decided is in a major release,
\* that one or an earlier one, unless the gate was not asked; and that takes
\* a host that may do without the tool, a checkout nobody cleaned, or a plan
\* that is empty (classify.rs:4, api_surface.rs:148-182): for any number of
\* pushes, crashes and retries, interleaved in any way.
THEOREM BreakingIsMajorHolds == Spec => []BreakingIsMajor
BY MajorInit, MajorStep, MajorBreaking, PTL DEF Spec
=============================================================================

------------------------ MODULE AffectedPlan_proofs ------------------------
(***************************************************************************)
(* Proofs about AffectedPlan: the plan misses no package a change reaches, *)
(* and names none it does not reach, for every workspace, every dependency *)
(* graph and every set of changes.                                         *)
(***************************************************************************)
EXTENDS AffectedPlan, TLAPS

\* The questions git has been asked.
Asked ==
  CASE pc \in {"committed", "error"} -> {}
    [] pc = "staged"    -> {"committed"}
    [] pc = "unstaged"  -> {"committed", "staged"}
    [] pc = "untracked" -> {"committed", "staged", "unstaged"}
    [] OTHER            -> Questions

\* A file left alone that one of the answers named is in changed_files.
Listed == \A f \in Files \ moved : place[f] \in Asked \ failed => f \in changed

\* The walk keeps the packages it started from, and has followed every
\* dependent of a package it took off the queue.
Walked ==
  /\ pc \in Questions \cup {"plan", "error"} => ~ full /\ all = {}
  /\ pc \in {"walk", "done"} /\ ~ full =>
       /\ changed \cap Shared = {}
       /\ Direct \subseteq all
       /\ \A p \in all \ queue : Dependents(p) \subseteq all
  /\ pc = "done" /\ ~ full => queue = {}

PInv == TypeOK /\ Listed /\ Walked /\ NothingExtra

-----------------------------------------------------------------------------
\* The owner of a file is the innermost package around it.
LEMMA OwnerInnermost ==
  ASSUME NEW f \in Files, Inside[f] # {}
  PROVE  /\ Owner(f) \in Inside[f]
         /\ Owner(f) \in Packages
         /\ \A q \in Inside[f] : Depth[q] <= Depth[Owner(f)]
<1>1. PICK p \in Inside[f] : \A q \in Inside[f] \ {p} : Depth[q] < Depth[p]
  BY NestedAssumption
<1>2. Inside[f] \subseteq Packages /\ \A q \in Inside[f] : Depth[q] \in Nat
  BY FilesAssumption
<1>3. \A q \in Inside[f] : Depth[q] <= Depth[p]
  BY <1>1, <1>2
<1> DEFINE Deepest(r) == \A q \in Inside[f] : Depth[q] <= Depth[r]
<1>4. Owner(f) = CHOOSE r \in Inside[f] : Deepest(r)
  BY Zenon DEF Owner
<1>5. \E r \in Inside[f] : Deepest(r)
  BY <1>3
<1>6. Owner(f) \in Inside[f] /\ Deepest(Owner(f))
  <2> HIDE DEF Deepest
  <2> QED BY <1>4, <1>5, Zenon
<1> QED BY <1>2, <1>6

\* An owner is a package or none.
LEMMA DirectType == TypeOK => Direct \subseteq Packages
BY OwnerInnermost DEF Direct, Owner, TypeOK

\* A package reaches itself.
LEMMA ReachSelf == ASSUME NEW p \in Packages PROVE p \in Reach(p)
BY DEF Reach

\* What p reaches, it reaches together with its dependents.
LEMMA ReachStep ==
  ASSUME NEW r \in Packages, NEW p \in Reach(r)
  PROVE  Dependents(p) \subseteq Reach(r)
BY DEF Reach, Closed, Dependents

\* A closed set contains all its members reach.
LEMMA ClosedReach ==
  ASSUME NEW S \in SUBSET Packages, Closed(S), NEW p \in S
  PROVE  Reach(p) \subseteq S
BY DEF Reach

-----------------------------------------------------------------------------
\* The invariant holds before git is asked anything.
LEMMA PlanInit == Init => PInv
BY FilesAssumption DEF Init, PInv, TypeOK, Listed, Walked, NothingExtra, Asked, Questions

\* What follows a question.
LEMMA AfterType ==
  ASSUME NEW q \in Questions PROVE After(q) \in Questions \cup {"plan"}
BY DEF Questions, After

\* Every step keeps the types.
LEMMA PlanTypeStep == TypeOK /\ [Next]_vars => TypeOK'
<1> SUFFICES ASSUME TypeOK, [Next]_vars PROVE TypeOK'
  OBVIOUS
<1>1. CASE Ask
  BY <1>1, AfterType DEF Ask, TypeOK
<1>2. CASE AskFails
  BY <1>2, AfterType DEF AskFails, TypeOK
<1>3. CASE Escalate
  BY <1>3 DEF Escalate, TypeOK
<1>4. CASE FindDirect
  BY <1>4, DirectType DEF FindDirect, TypeOK
<1>5. ASSUME NEW p \in Packages, Visit(p) PROVE TypeOK'
  BY <1>5 DEF Visit, TypeOK, Dependents
<1>6. CASE Report
  BY <1>6 DEF Report, TypeOK
<1>7. ASSUME NEW f \in Files, Work(f) PROVE TypeOK'
  BY <1>7 DEF Work, TypeOK
<1>8. CASE UNCHANGED vars
  BY <1>8 DEF vars, TypeOK
<1> QED BY <1>1, <1>2, <1>3, <1>4, <1>5, <1>6, <1>7, <1>8 DEF Next, Plan

\* Answers are only added to, and a file the developer touches is given up.
LEMMA ListedStep == PInv /\ [Next]_vars => Listed'
<1> SUFFICES ASSUME PInv, [Next]_vars PROVE Listed'
  OBVIOUS
<1> USE DEF PInv, TypeOK, Listed, Asked, Questions
<1>1. CASE Ask
  BY <1>1 DEF Ask, After
<1>2. CASE AskFails
  BY <1>2 DEF AskFails, After
<1>3. CASE Escalate
  BY <1>3 DEF Escalate
<1>4. CASE FindDirect
  BY <1>4 DEF FindDirect
<1>5. ASSUME NEW p \in Packages, Visit(p) PROVE Listed'
  BY <1>5 DEF Visit
<1>6. CASE Report
  BY <1>6 DEF Report
<1>7. ASSUME NEW f \in Files, Work(f) PROVE Listed'
  BY <1>7 DEF Work, Places
<1>8. CASE UNCHANGED vars
  BY <1>8 DEF vars
<1> QED BY <1>1, <1>2, <1>3, <1>4, <1>5, <1>6, <1>7, <1>8 DEF Next, Plan

\* The walk leaves no dependent behind.
LEMMA WalkedStep == PInv /\ [Next]_vars => Walked'
<1> SUFFICES ASSUME PInv, [Next]_vars PROVE Walked'
  OBVIOUS
<1> USE DEF PInv, TypeOK, Walked, Questions, Direct, Dependents
<1>1. CASE Ask
  BY <1>1 DEF Ask, After
<1>2. CASE AskFails
  BY <1>2 DEF AskFails, After
<1>3. CASE Escalate
  BY <1>3 DEF Escalate
<1>4. CASE FindDirect
  BY <1>4 DEF FindDirect
<1>5. ASSUME NEW p \in Packages, Visit(p) PROVE Walked'
  BY <1>5 DEF Visit
<1>6. CASE Report
  BY <1>6 DEF Report
<1>7. ASSUME NEW f \in Files, Work(f) PROVE Walked'
  BY <1>7 DEF Work
<1>8. CASE UNCHANGED vars
  BY <1>8 DEF vars
<1> QED BY <1>1, <1>2, <1>3, <1>4, <1>5, <1>6, <1>7, <1>8 DEF Next, Plan

\* The walk only goes where a changed package reaches.
LEMMA ExtraStep == PInv /\ [Next]_vars => NothingExtra'
<1> SUFFICES ASSUME PInv, [Next]_vars PROVE NothingExtra'
  OBVIOUS
<1>0. /\ deps' = deps
      /\ \A p \in Packages : Reach(p)' = Reach(p)
  BY DEF Next, Plan, Ask, AskFails, Escalate, FindDirect, Visit, Report, Work,
         vars, Reach, Closed, Dependents
<1>1. CASE pc \in Questions \cup {"plan"} /\ ~ FindDirect
  <2>1. all = {} /\ all' = {}
    BY <1>1 DEF PInv, Walked, Next, Plan, Ask, AskFails, Escalate, Visit, Report,
                Work, vars, Questions
  <2> QED BY <2>1 DEF NothingExtra
<1>2. CASE FindDirect
  BY <1>0, <1>2, DirectType, ReachSelf DEF FindDirect, NothingExtra, Direct, PInv
<1>3. ASSUME NEW p \in Packages, Visit(p) PROVE NothingExtra'
  <2>1. Direct' = Direct
    BY <1>3 DEF Visit, Direct
  <2>2. p \in all
    BY <1>3 DEF Visit, PInv, TypeOK
  <2>3. PICK r \in Direct : p \in Reach(r)
    BY <2>2 DEF PInv, NothingExtra
  <2>4. r \in Packages
    BY <2>3, DirectType DEF PInv
  <2>5. Dependents(p) \subseteq Reach(r)
    BY <2>3, <2>4, ReachStep
  <2>6. \A d \in all : \E q \in Direct : d \in Reach(q)
    BY DEF PInv, NothingExtra
  <2>7. Direct \subseteq Packages
    BY DirectType DEF PInv
  <2>8. \A d \in all \cup Dependents(p) : \E q \in Direct : d \in Reach(q)
    BY <2>3, <2>5, <2>6
  <2> QED BY <1>0, <1>3, <2>1, <2>7, <2>8 DEF Visit, NothingExtra
<1>4. CASE all' = all /\ changed' = changed
  BY <1>0, <1>4, DirectType DEF PInv, NothingExtra, Direct
<1>5. \/ pc \in Questions \cup {"plan"} /\ ~ FindDirect
      \/ FindDirect
      \/ \E p \in Packages : Visit(p)
      \/ all' = all /\ changed' = changed
  BY DEF Next, Plan, Ask, AskFails, Escalate, Report, Work, vars
<1> QED BY <1>1, <1>2, <1>3, <1>4, <1>5

\* The invariant is inductive.
LEMMA PlanStep == PInv /\ [Next]_vars => PInv'
BY PlanTypeStep, ListedStep, WalkedStep, ExtraStep DEF PInv

\* The invariant holds in every reachable state.
LEMMA PlanInvariant == Spec => []PInv
BY PlanInit, PlanStep, PTL DEF Spec

-----------------------------------------------------------------------------
\* The walk's result is closed, and the listing complete, so nothing slips.
LEMMA NothingSlipsState == PInv => NothingSlips
<1> SUFFICES ASSUME PInv, pc = "done", ~ full,
                    NEW f \in Files \ moved, place[f] \in Questions \ failed
             PROVE  /\ f \notin Shared
                    /\ Inside[f] # {} =>
                         \E p \in Inside[f] :
                           /\ \A q \in Inside[f] : Depth[q] <= Depth[p]
                           /\ Reach(p) \subseteq all
  BY DEF NothingSlips
<1>1. f \in changed /\ changed \cap Shared = {}
  BY DEF PInv, Listed, Walked, Asked
<1>2. Closed(all) /\ all \subseteq Packages /\ Direct \subseteq all
  BY DEF PInv, TypeOK, Walked, Closed
<1>3. ASSUME Inside[f] # {} PROVE Owner(f) \in all
  BY <1>1, <1>2, <1>3, OwnerInnermost, FilesAssumption DEF Direct
<1> QED BY <1>1, <1>2, <1>3, OwnerInnermost, ClosedReach

\* Every variable keeps its type, for every workspace and every change.
THEOREM PlanTypeCorrect == Spec => []TypeOK
<1>1. PInv => TypeOK
  BY DEF PInv
<1> QED BY <1>1, PlanInvariant, PTL

\* Every file left alone that git named has its package, and all that
\* depends on it, in the plan, or the plan escalates.
THEOREM NothingSlipsHolds == Spec => []NothingSlips
BY PlanInvariant, NothingSlipsState, PTL

\* Every planned package is reached from a changed one, cycles or not.
THEOREM NothingExtraHolds == Spec => []NothingExtra
<1>1. PInv => NothingExtra
  BY DEF PInv
<1> QED BY <1>1, PlanInvariant, PTL
=============================================================================

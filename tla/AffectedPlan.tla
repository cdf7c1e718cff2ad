---------------------------- MODULE AffectedPlan ----------------------------
(***************************************************************************)
(* The affected plan of jeryu-repogate: which workspace packages a change  *)
(* reaches.  `build_affected_plan` asks git four questions one after the   *)
(* other (what the range changed, what is staged, what is modified, what   *)
(* is untracked), escalates to the full lane when a shared file is among   *)
(* the answers, and otherwise walks the reverse dependencies from the      *)
(* packages that own a changed file.  A developer may work in the checkout *)
(* meanwhile.  Only a failure of the first question is an error; a failed  *)
(* answer to one of the others is taken for an empty one.                  *)
(***************************************************************************)
EXTENDS Integers

CONSTANTS
  Packages,  \* workspace members
  NoPackage, \* owner of a file no package contains
  Files,     \* paths of the checkout
  Shared,    \* the files that escalate: root manifests, .github, ops, agent, ...
  Inside,    \* Inside[f]: the packages whose root is a prefix of f
  Depth,     \* Depth[p]: number of components of p's root
  Graphs,    \* the dependency graphs considered
  Busy       \* TRUE: the checkout is worked in while it is planned

Places == {"clean", "removed", "committed", "staged", "unstaged", "untracked"}

ASSUME FilesAssumption ==
  /\ Shared \subseteq Files
  /\ Inside \in [Files -> SUBSET Packages]
  /\ Depth \in [Packages -> Nat]
  /\ Graphs \subseteq [Packages -> SUBSET Packages]
  /\ NoPackage \notin Packages
  /\ Busy \in BOOLEAN

\* The roots around one file are nested: one of them is the deepest.
ASSUME NestedAssumption ==
  \A f \in Files : Inside[f] # {} =>
    \E p \in Inside[f] : \A q \in Inside[f] \ {p} : Depth[q] < Depth[p]

\* A file belongs to the innermost package around it.
Owner(f) ==
  IF Inside[f] = {} THEN NoPackage
  ELSE CHOOSE p \in Inside[f] : \A q \in Inside[f] : Depth[q] <= Depth[p]

VARIABLES
  deps,    \* cargo metadata: the workspace dependencies of each package
  place,   \* how each file differs from the base of the range
  pc,      \* the question being asked, then planning
  changed, \* changed_files
  full,    \* full_ci
  all,     \* affected packages found so far
  queue,   \* those whose dependents are still to be looked up
  moved,   \* history: files the developer touched since the plan began
  failed   \* history: the questions git did not answer

vars == <<deps, place, pc, changed, full, all, queue, moved, failed>>

Questions == {"committed", "staged", "unstaged", "untracked"}

After(q) == CASE q = "committed" -> "staged"
              [] q = "staged"    -> "unstaged"
              [] q = "unstaged"  -> "untracked"
              [] q = "untracked" -> "plan"

Dependents(p) == {d \in Packages : p \in deps[d]}

Direct == {Owner(f) : f \in changed} \ {NoPackage}

Init ==
  /\ deps \in Graphs
  /\ place \in [Files -> Places]
  /\ pc = "committed"
  /\ changed = {} /\ full = FALSE /\ all = {} /\ queue = {}
  /\ moved = {} /\ failed = {}

-----------------------------------------------------------------------------
\* The developer edits, stages, commits, restores or removes a file.
Work(f) ==
  /\ Busy
  /\ pc \in Questions
  /\ \E p \in Places : place' = [place EXCEPT ![f] = p]
  /\ moved' = moved \cup {f}
  /\ UNCHANGED <<deps, pc, changed, full, all, queue, failed>>

\* Mutant: the untracked files are not asked for.
AskTrackedOnly ==
  /\ pc \in Questions
  /\ changed' = changed \cup {f \in Files : place[f] = pc /\ pc # "untracked"}
  /\ pc' = After(pc)
  /\ UNCHANGED <<deps, place, full, all, queue, moved, failed>>

\* Each question names the files in one place; a removed file is in none
\* of the answers (--diff-filter=ACMRTUXB).
Ask ==
  /\ pc \in Questions
  /\ changed' = changed \cup {f \in Files : place[f] = pc}
  /\ pc' = After(pc)
  /\ UNCHANGED <<deps, place, full, all, queue, moved, failed>>

AskFails ==
  /\ pc \in Questions
  /\ pc' = IF pc = "committed" THEN "error" ELSE After(pc)
  /\ failed' = failed \cup {pc}
  /\ UNCHANGED <<deps, place, changed, full, all, queue, moved>>

Escalate ==
  /\ pc = "plan"
  /\ changed \cap Shared # {}
  /\ full' = TRUE
  /\ pc' = "done"
  /\ UNCHANGED <<deps, place, changed, all, queue, moved, failed>>

\* Mutant: the packages the walk starts from are not part of its result.
FindDirectOnly ==
  /\ pc = "plan"
  /\ changed \cap Shared = {}
  /\ queue' = Direct
  /\ pc' = "walk"
  /\ UNCHANGED <<deps, place, changed, full, all, moved, failed>>

FindDirect ==
  /\ pc = "plan"
  /\ changed \cap Shared = {}
  /\ all' = Direct
  /\ queue' = Direct
  /\ pc' = "walk"
  /\ UNCHANGED <<deps, place, changed, full, moved, failed>>

\* Mutant: a dependent is queued whether or not it was found before.
VisitAgain(p) ==
  /\ pc = "walk"
  /\ p \in queue
  /\ all' = all \cup Dependents(p)
  /\ queue' = (queue \ {p}) \cup Dependents(p)
  /\ UNCHANGED <<deps, place, pc, changed, full, moved, failed>>

\* Mutant: the walk follows the dependencies instead of the dependents.
VisitForward(p) ==
  /\ pc = "walk"
  /\ p \in queue
  /\ all' = all \cup deps[p]
  /\ queue' = (queue \ {p}) \cup (deps[p] \ all)
  /\ UNCHANGED <<deps, place, pc, changed, full, moved, failed>>

\* The queue holds no package twice; its order is left open here.
Visit(p) ==
  /\ pc = "walk"
  /\ p \in queue
  /\ all' = all \cup Dependents(p)
  /\ queue' = (queue \ {p}) \cup (Dependents(p) \ all)
  /\ UNCHANGED <<deps, place, pc, changed, full, moved, failed>>

Report ==
  /\ pc = "walk"
  /\ queue = {}
  /\ pc' = "done"
  /\ UNCHANGED <<deps, place, changed, full, all, queue, moved, failed>>

Plan == \/ Ask \/ AskFails \/ Escalate \/ FindDirect
        \/ \E p \in Packages : Visit(p)
        \/ Report

Next == Plan \/ \E f \in Files : Work(f)

Spec == Init /\ [][Next]_vars

\* The planner is one process; the developer need not ever do anything.
FairSpec == Spec /\ WF_vars(Plan)

-----------------------------------------------------------------------------
(* Properties.                                                             *)

\* Every variable has its type, and the queue holds found packages only.
TypeOK ==
  /\ deps \in Graphs
  /\ place \in [Files -> Places]
  /\ pc \in Questions \cup {"plan", "walk", "done", "error"}
  /\ changed \subseteq Files
  /\ full \in BOOLEAN
  /\ all \subseteq Packages
  /\ queue \subseteq all
  /\ moved \subseteq Files
  /\ failed \subseteq Questions

\* S contains the dependents of its members.
Closed(S) == \A p \in S : Dependents(p) \subseteq S

\* The packages a change of p reaches, defined without the walk: those in
\* every closed set around p.
Reach(p) == {d \in Packages : \A S \in SUBSET Packages : p \in S /\ Closed(S) => d \in S}

\* Nothing slips: once planned without escalation, each file that differed
\* from the base all along and whose question git answered has its package
\* and everything that depends on it in the plan (affected.rs:81-107 and
\* 217-260 together), whatever the developer does to other files meanwhile.
NothingSlips ==
  pc = "done" /\ ~ full =>
    \A f \in Files \ moved :
      place[f] \in Questions \ failed =>
        /\ f \notin Shared
        /\ Inside[f] # {} =>
             \E p \in Inside[f] : /\ \A q \in Inside[f] : Depth[q] <= Depth[p]
                                  /\ Reach(p) \subseteq all

\* Nothing in excess: a planned package is reached from one that owns a
\* changed file, also when dependencies form a cycle.
NothingExtra == \A d \in all : \E p \in Direct : d \in Reach(p)

\* The plan is always produced, or the first question's failure reported.
PlanEnds == <>(pc \in {"done", "error"})
=============================================================================

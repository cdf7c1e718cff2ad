--------------------------- MODULE FamilyManifest ---------------------------
(***************************************************************************)
(* The validation of the family's authority manifest, repos.manifest.toml, *)
(* by jeryu-repogate family-manifest (crates/jeryu-repogate).  Fields that *)
(* may only have the one value the code spells out -- the family, its      *)
(* forges, the compliance contract, the Redline authority, and a row's     *)
(* path, remote, check, runtime -- are summed up by whether they have it.  *)
(***************************************************************************)
EXTENDS Integers, Sequences, FiniteSets, Functions

CONSTANTS
  Repos,      \* the governed product repositories
  Tagged,     \* those whose release tag is known
  Web,        \* jeryu-web, the one that may be retired
  Control,    \* jeryu-release-ops
  Strangers   \* names that are not governed

ASSUME ReposAssumption ==
  /\ Tagged \subseteq Repos /\ Web \in Repos /\ IsFiniteSet(Repos)
  /\ Control \notin Repos
  /\ Strangers \cap (Repos \cup {Control}) = {}

Name == Repos \cup {Control} \cup Strangers

\* tag: the one the code expects of the repository, another, or none.
Row == [name : Name, canonical : BOOLEAN, status : {"pending", "bound"},
        tag : {"none", "expected", "other"}]

Manifest == [canonical : BOOLEAN, rows : Seq(Row), required : Seq(Name),
             retired : Seq(Name), compliance : {"inventory", "enforced"}]

\* Mutant: a pending repository may carry a tag.
IdentityMatchesLoose(row) ==
  \/ row.status = "pending" /\ row.name \notin Tagged
  \/ row.status = "bound" /\ row.tag = "expected" /\ row.name \in Tagged

\* A repository without a known tag is pending, any other is bound to it.
IdentityMatches(row) ==
  \/ row.status = "pending" /\ row.tag = "none" /\ row.name \notin Tagged
  \/ row.status = "bound" /\ row.tag = "expected" /\ row.name \in Tagged

RowNames(m) == {m.rows[n].name : n \in DOMAIN m.rows}
Distinct(s) == Cardinality(Range(s)) = Len(s)

\* Canonical rows share a path, slug or remote only if they share the name.
Valid(m) ==
  /\ m.canonical
  /\ \A n \in DOMAIN m.rows :
       LET row == m.rows[n]
       IN  row.name \in Repos /\ row.canonical /\ IdentityMatches(row)
  /\ Cardinality(RowNames(m)) = Len(m.rows)
  /\ Control \notin RowNames(m)
  /\ Distinct(m.retired) /\ Range(m.retired) \in {{}, {Web}}
  /\ RowNames(m) = Repos \ Range(m.retired)
  /\ Distinct(m.required) /\ Range(m.required) = RowNames(m) \cup {Control}
  /\ Range(m.retired) \cap RowNames(m) = {}
=============================================================================

---------------------------- MODULE MCWsVersion ----------------------------
(* A small instance of WsVersion: what developers push.                    *)
EXTENDS WsVersion

Feat == [kind |-> "feat", breaking |-> FALSE, skip |-> FALSE, merge |-> FALSE,
         api |-> FALSE, touch |-> "package", own |-> FALSE]
\* chore!: a break of a kind no changelog lists.
Breaking == [Feat EXCEPT !.kind = "chore", !.breaking = TRUE, !.api = TRUE]
\* An API break nobody marked, and no changelog lists.
Silent == [Feat EXCEPT !.kind = "chore", !.api = TRUE]
\* git revert of a release commit repeats its subject, marker included, and
\* touches the files it touched.
Revert == [Feat EXCEPT !.kind = "chore", !.skip = TRUE, !.touch = "shared"]
Merge == [Feat EXCEPT !.kind = "chore", !.touch = "docs", !.merge = TRUE]

Mixed == {Feat, Breaking, Silent, Revert, Merge}

\* Clean checkouts with the API gate in force, and checkouts that nobody
\* cleans on a host that may do without the tool.
BothHosts == {[fresh |-> TRUE, lenient |-> FALSE], [fresh |-> FALSE, lenient |-> TRUE]}
=============================================================================

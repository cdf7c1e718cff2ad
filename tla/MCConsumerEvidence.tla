------------------------- MODULE MCConsumerEvidence -------------------------
(* Small instances of ConsumerEvidence.                                    *)
EXTENDS ConsumerEvidence

CONSTANTS finder, tool, stranger, c1, c2, p1, p2, e1, e2, m1, m2

TheRow(r) == [name |-> r, canonical |-> TRUE,
              status |-> IF r \in Tagged THEN "bound" ELSE "pending",
              tag |-> IF r \in Tagged THEN "expected" ELSE "none"]

Canonical ==
  [canonical |-> TRUE, rows |-> <<TheRow(finder), TheRow(tool), TheRow(Web)>>,
   required |-> <<finder, tool, Web, Control>>, retired |-> <<>>, compliance |-> "inventory"]
Retired ==
  [Canonical EXCEPT !.rows = <<TheRow(tool), TheRow(finder)>>, !.retired = <<Web>>,
                    !.required = <<Control, finder, tool>>, !.compliance = "enforced"]

\* Manifests that differ from the canonical ones in one respect or two.
OneRow(row) == [Canonical EXCEPT !.rows = <<TheRow(finder), row, TheRow(Web)>>]
Variants ==
  {[Canonical EXCEPT !.canonical = FALSE], [Canonical EXCEPT !.retired = <<Web>>],
   [Retired EXCEPT !.retired = <<Web, Web>>], [Retired EXCEPT !.retired = <<tool>>],
   [Retired EXCEPT !.required = <<Control, finder, tool, tool>>],
   [Canonical EXCEPT !.required = <<finder, tool, Web>>],
   [Canonical EXCEPT !.rows = @ \o <<TheRow(tool)>>],
   [Canonical EXCEPT !.rows = @ \o <<TheRow(Control)>>],
   [Canonical EXCEPT !.rows = <<TheRow(tool), TheRow(Web), TheRow(finder)>>]}
  \cup {OneRow([name |-> n, canonical |-> TRUE, status |-> s, tag |-> t]) :
          n \in {tool, finder, stranger}, s \in {"pending", "bound"},
          t \in {"none", "expected", "other"}}
  \cup {OneRow([TheRow(tool) EXCEPT !.canonical = FALSE]),
        [Canonical EXCEPT !.rows = <<[TheRow(finder) EXCEPT !.tag = "other"],
                                     TheRow(tool), TheRow(Web)>>]}

File1 == [manifest |-> Canonical, policy |-> [own |-> TRUE, v |-> p1], lock |-> e1]
File2 == [manifest |-> Retired, policy |-> [own |-> TRUE, v |-> p2], lock |-> e2]
MCTree == [c \in Commits |-> IF c = c1 THEN File1 ELSE File2]

MCDrafts == {[File1 EXCEPT !.manifest = m] : m \in Variants}
\* Later: another policy and another lock; the files of a commit are there
\* again when it is checked out.
MCEdits == {[File1 EXCEPT !.policy.v = p2, !.lock = e2]}
MCOthers == {[own |-> TRUE, v |-> p2], [own |-> FALSE, v |-> p2]}

MCReceipts ==
  {[manifest |-> m1, engine |-> e1, pass |-> TRUE], [manifest |-> m1, engine |-> e2, pass |-> FALSE]}
=============================================================================

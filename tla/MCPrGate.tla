------------------------------ MODULE MCPrGate ------------------------------
(* Instances of PrGate for TLC.                                             *)
EXTENDS PrGate, TLC

TwoBuilds == {1, 2}
Prints == (1 :> 1) @@ (2 :> 2)

\* What the older build missed the newer one finds, unless the policy is
\* lax; what the older one found the newer one excuses.
Verdicts == {<<1, "lax", "missed">>, <<1, "strict", "missed">>, <<2, "lax", "missed">>,
             <<2, "lax", "excused">>, <<2, "strict", "excused">>}

\* Topics with baselines of some commits by some auditors.
TreesOf(codes, policies, commits, builds) ==
  [code : codes, policy : policies,
   baseline : [commit : commits, policy : {"lax", "strict"}, by : builds, clean : {TRUE}]]

Unclean == [code |-> "missed", policy |-> "strict",
            baseline |-> [commit |-> 1, policy |-> "strict", by |-> 1, clean |-> FALSE]]

Governed == [mode |-> "receipt", governed |-> TRUE, asserted |-> NoBuild,
             given |-> NoReceipt, recorded |-> TRUE, forward |-> TRUE]

UnderUpgrade(e, n) ==
  [env |-> e, moves |-> n, merges |-> 0,
   drafts |-> TreesOf({"missed", "excused"}, {"strict"}, {1}, TwoBuilds) \cup {Unclean}]

\* Merges on a quiet host; upgrades with and without a record, and with a
\* way back; an auditor elsewhere with its receipt; a release broker; a
\* candidate.
SevenWorlds == <<
  [env |-> Governed, moves |-> 0, merges |-> 2,
   drafts |-> TreesOf({"missed"}, {"lax", "strict"}, 1..3, {1})],
  UnderUpgrade(Governed, 3),
  UnderUpgrade([Governed EXCEPT !.recorded = FALSE], 3),
  UnderUpgrade([Governed EXCEPT !.recorded = FALSE, !.forward = FALSE], 3),
  UnderUpgrade([Governed EXCEPT !.governed = FALSE, !.asserted = 1,
                                !.given = [build |-> 1, test |-> FALSE]], 1),
  UnderUpgrade([Governed EXCEPT !.mode = "broker"], 2),
  UnderUpgrade([Governed EXCEPT !.mode = "diagnostic"], 1)>>
=============================================================================

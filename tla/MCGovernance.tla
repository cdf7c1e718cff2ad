---------------------------- MODULE MCGovernance ----------------------------
(* Small instances of Governance.                                          *)
EXTENDS Governance

CONSTANTS t1, t2, ann, annx

Auditor == [tenant |-> t1, resource |-> t1, actor |-> ann, role |-> "auditor",
            action |-> "export_compliance", usage |-> 1, quota |-> 1, ticket |-> FALSE]

\* One input per gate, and two that pass them all.
MCPolicyInputs ==
  {Auditor,
   [Auditor EXCEPT !.tenant = t2, !.resource = t2, !.role = "break_glass",
                   !.action = "apply_upgrade", !.ticket = TRUE],
   [Auditor EXCEPT !.actor = Blank],
   [Auditor EXCEPT !.resource = t2, !.role = "admin"],
   [Auditor EXCEPT !.usage = 2],
   [Auditor EXCEPT !.role = "break_glass"],
   [Auditor EXCEPT !.role = "admin", !.action = "apply_upgrade"]}

MCSignalLists == {<<>>, <<{"latency", "errors"}, {"queue"}>>}
MCClaims == {{}, {"false_hits", "speedup"}}

M(n, k, u) == [name |-> n, keyed |-> k, undo |-> u]
MCUpgrades ==
  {[noop |-> TRUE, migrations |-> <<>>],
   [noop |-> TRUE, migrations |-> <<M("a", TRUE, "undo a"), M("b", TRUE, "undo b")>>],
   [noop |-> FALSE, migrations |-> <<M("a", FALSE, "undo a"), M("b", TRUE, Blank)>>]}
MCTexts == {"a", "b", "undo a", "undo b", "hold rollout"} \cup
  UNION {{m.name, m.undo} : m \in Range(KernelUpgrade.migrations)}
MCPrincipals == {[tenant |-> t1, actor |-> Blank], [tenant |-> t1, actor |-> ann],
                 [tenant |-> t1, actor |-> annx]}
MCClaimNames == {"y", "x|y"}
\* annx stands for ann|x.
MCWords ==
  [t \in Actors \cup Subjects |->
     CASE t = annx -> <<ann, "x">>
       [] t = "x|y" -> <<"x", "y">>
       [] OTHER -> <<t>>]
MCWord == {ann, Blank, "x"} \cup Subjects
MCDigest(words) == words
MCLabelSets == {Labels \ {"ops_plan"}, {}}
=============================================================================

--------------------------- MODULE MCAffectedPlan ---------------------------
(* Small instances of AffectedPlan.                                        *)
EXTENDS AffectedPlan, TLC

CONSTANTS p1, p2, p3, f1, f2, f3

\* f1 lies in p2, which is nested in p1; f2 lies in p1 only; f3 is shared.
MCInside == [f \in Files |-> CASE f = f1 -> {p1, p2} [] f = f2 -> {p1} [] OTHER -> {}]
MCDepth == p1 :> 1 @@ p2 :> 2 @@ p3 :> 2
\* A chain, a cycle, a fork and no edges.
SomeGraphs == {p1 :> {} @@ p2 :> {p1} @@ p3 :> {p2},
               p1 :> {p3} @@ p2 :> {p1} @@ p3 :> {p2},
               p1 :> {} @@ p2 :> {p1, p3} @@ p3 :> {p1},
               p1 :> {} @@ p2 :> {} @@ p3 :> {}}
=============================================================================

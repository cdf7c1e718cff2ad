---------------------------- MODULE ReleaseLedger ----------------------------
(***************************************************************************)
(* What release signing promises its callers, without files, runs or       *)
(* crashes: a release is approved under a key when every gate passed, a    *)
(* stage of an approved release is published, and a check that accepts     *)
(* names a stage that was published of a release approved under the key    *)
(* it was given.  Verdicts are final, and nothing published is withdrawn.  *)
(***************************************************************************)
CONSTANTS Checks, Ids, Stages, Keys

VARIABLES
  approved,   \* <<id, key>>: releases that passed every gate
  published,  \* <<id, stage>>: stages with a receipt
  answer,     \* of each check: "pending", "accepted" or "rejected"
  claim       \* of each check: {} until it accepts, then {<<id, stage, key>>}

vars == <<approved, published, answer, claim>>

TypeOK ==
  /\ approved \subseteq Ids \X Keys
  /\ published \subseteq Ids \X Stages
  /\ answer \in [Checks -> {"pending", "accepted", "rejected"}]
  /\ claim \in [Checks -> SUBSET (Ids \X Stages \X Keys)]

Init ==
  /\ approved = {}
  /\ published = {}
  /\ answer = [c \in Checks |-> "pending"]
  /\ claim = [c \in Checks |-> {}]

Approve(i, k) ==
  /\ approved' = approved \cup {<<i, k>>}
  /\ UNCHANGED <<published, answer, claim>>

Publish(i, s) ==
  /\ \E k \in Keys : <<i, k>> \in approved
  /\ published' = published \cup {<<i, s>>}
  /\ UNCHANGED <<approved, answer, claim>>

Accept(c, i, s, k) ==
  /\ answer[c] = "pending"
  /\ <<i, k>> \in approved
  /\ <<i, s>> \in published
  /\ answer' = [answer EXCEPT ![c] = "accepted"]
  /\ claim' = [claim EXCEPT ![c] = {<<i, s, k>>}]
  /\ UNCHANGED <<approved, published>>

Reject(c) ==
  /\ answer[c] = "pending"
  /\ answer' = [answer EXCEPT ![c] = "rejected"]
  /\ UNCHANGED <<approved, published, claim>>

Next ==
  \/ \E i \in Ids, k \in Keys : Approve(i, k)
  \/ \E i \in Ids, s \in Stages : Publish(i, s)
  \/ \E c \in Checks, i \in Ids, s \in Stages, k \in Keys : Accept(c, i, s, k)
  \/ \E c \in Checks : Reject(c)

Spec == Init /\ [][Next]_vars
=============================================================================

----------------------------- MODULE AuditorPin -----------------------------
(* The governed auditor of a host and its verification: require_jankurai of *)
(* ops/ci/lib.sh.  The auditor is a file an installer replaces; beside it    *)
(* are the installer's record of the current build and its receipts.  A     *)
(* verification reads them one after the other, and the installer may work  *)
(* between any two reads.                                                   *)
(*                                                                          *)
(* A digest is the build it was taken of.  Of the receipts only the         *)
(* well-formed ones are kept: one that is missing, torn, misnamed, of       *)
(* another schema or with a wrong field is rejected the same way.           *)
EXTENDS Naturals

CONSTANTS Builds,     \* builds of the auditor, numbered as they were released
          First,      \* the one the host starts with
          Version     \* what each build prints for --version

BuildsAssumption == Builds \subseteq Nat \ {0} /\ First \in Builds
VersionAssumption == Version \in [Builds -> Nat \ {0}]
ASSUME BuildsAssumption
ASSUME VersionAssumption

NoBuild == 0

Receipt == [build : Builds, test : BOOLEAN]
NoReceipt == [build |-> NoBuild, test |-> FALSE]

\* How the host runs its lanes: as a release broker, on a diagnostic
\* candidate or on what is installed, at the governed path or another, with
\* a digest asserted by the caller or none, a receipt given or none and a
\* record of the installer or none.  On a forward host no older build
\* replaces a newer one.
Env == [mode : {"receipt", "diagnostic", "broker"}, governed : BOOLEAN,
        asserted : Builds \cup {NoBuild}, given : Receipt \cup {NoReceipt},
        recorded : BOOLEAN, forward : BOOLEAN]

VARIABLES
  bin,       \* the file at the auditor's path: its build, and whether it is in custody
  stamp,     \* the installer's record: whether it is there, and the build it names
  receipts,  \* the well-formed receipts
  env,       \* how lanes are run
  pinned,    \* JERYU_JANKURAI_RECEIPT, which later calls inherit
  seen,      \* what the verification under way has read
  identity,  \* what the last completed one exported
  pc         \* where the verification is

hostVars == <<bin, stamp, receipts>>
callVars == <<pinned, seen, identity, pc>>
pinVars == <<bin, stamp, receipts, env, pinned, seen, identity, pc>>

Stamp == [there : BOOLEAN, build : Builds \cup {NoBuild}]
Seen == [version : Nat, build : Builds \cup {NoBuild}]
Unread == [version |-> 0, build |-> NoBuild]
Identity == [version : Nat, build : Builds \cup {NoBuild}, source : Builds \cup {NoBuild}]
NoIdentity == [version |-> 0, build |-> NoBuild, source |-> NoBuild]

\* A host at rest: one build installed, with its receipt and its record, or
\* a record that was never written.
HostInit ==
  /\ bin = [build |-> First, proper |-> TRUE]
  /\ stamp = [there |-> env.recorded, build |-> IF env.recorded THEN First ELSE NoBuild]
  /\ receipts = {[build |-> First, test |-> env.mode = "diagnostic"]}

\* A fresh process: nothing verified, the caller's receipt in its environment.
Fresh ==
  /\ pinned = env.given
  /\ seen = Unread /\ identity = NoIdentity /\ pc = "idle"

Renew ==
  /\ pinned' = env.given
  /\ seen' = Unread /\ identity' = NoIdentity /\ pc' = "idle"

-----------------------------------------------------------------------------
(* The installer: binary, record and receipts in any order, any time.       *)

PutBinary(b, proper) ==
  /\ env.forward => b >= bin.build
  /\ bin' = [build |-> b, proper |-> proper]
  /\ UNCHANGED <<stamp, receipts>>

\* A record that is torn names no build.
PutStamp(b) ==
  /\ stamp' = [there |-> TRUE, build |-> b]
  /\ UNCHANGED <<bin, receipts>>

PutReceipt(r) ==
  /\ receipts' = receipts \cup {r}
  /\ UNCHANGED <<bin, stamp>>

DropReceipt(r) ==
  /\ r \in receipts
  /\ receipts' = receipts \ {r}
  /\ UNCHANGED <<bin, stamp>>

Install ==
  /\ \/ \E b \in Builds, proper \in BOOLEAN : PutBinary(b, proper)
     \/ \E b \in Builds \cup {NoBuild} : PutStamp(b)
     \/ \E r \in Receipt : PutReceipt(r) \/ DropReceipt(r)
  /\ UNCHANGED <<env, callVars>>

-----------------------------------------------------------------------------
(* The verification.                                                        *)

\* An absolute, executable, regular file with one link, not shadowed.
Locate ==
  /\ pc = "idle"
  /\ pc' = IF bin.proper THEN "located" ELSE "failed"
  /\ UNCHANGED <<hostVars, env, pinned, seen, identity>>

ReadVersion ==
  /\ pc = "located"
  /\ seen' = [version |-> Version[bin.build], build |-> NoBuild]
  /\ pc' = "versioned"
  /\ UNCHANGED <<hostVars, env, pinned, identity>>

ReadDigest ==
  /\ pc = "versioned"
  /\ seen' = [seen EXCEPT !.build = bin.build]
  /\ pc' = "read"
  /\ UNCHANGED <<hostVars, env, pinned, identity>>

\* Freshness: a broker's digest is the one recorded beside it; otherwise a
\* digest asserted must be it, and at the governed path a record that is
\* there; a diagnostic candidate is by design not the pin.
IsCurrent ==
  CASE env.mode = "broker"     -> stamp.there /\ stamp.build = seen.build
    [] env.mode = "receipt"    -> /\ env.asserted # NoBuild => env.asserted = seen.build
                                  /\ env.governed /\ stamp.there => stamp.build = seen.build
    [] env.mode = "diagnostic" -> TRUE

\* A broker's record with nothing on its first line is compared with nothing,
\* and the check passes; one torn further on names another digest.
IsBlank == env.mode = "broker" /\ stamp.there /\ stamp.build = NoBuild

CheckCurrent ==
  /\ pc = "read"
  /\ \/ (IsCurrent \/ IsBlank) /\ pc' = "current"
     \/ ~ IsCurrent /\ pc' = "failed"
  /\ UNCHANGED <<hostVars, env, pinned, seen, identity>>

\* A receipt in the environment is the only candidate; without one the
\* receipts of the governed host are.
Candidates ==
  CASE pinned # NoReceipt                  -> {pinned}
    [] pinned = NoReceipt /\ env.governed   -> receipts
    [] pinned = NoReceipt /\ ~ env.governed -> {}

\* Mutant: the version the receipt records is not compared.
BindsDigest(r) == r.build = seen.build /\ r.test = (env.mode = "diagnostic")

\* The receipt binds what was read of the binary, in the mode expected.
Binds(r) ==
  /\ r.build = seen.build /\ Version[r.build] = seen.version
  /\ r.test = (env.mode = "diagnostic")

\* Mutant: nothing tells that all candidates were rejected.
FindReceiptOrNone ==
  /\ pc = "current"
  /\ pc' = "found"
  /\ \/ \E r \in Candidates \cap receipts : Binds(r) /\ pinned' = r
     \/ (\A r \in Candidates \cap receipts : ~ Binds(r)) /\ UNCHANGED pinned
  /\ UNCHANGED <<hostVars, env, seen, identity>>

\* The receipt found is exported: from now on it is the candidate.  A broker
\* takes none, and refuses one.
FindReceipt ==
  /\ pc = "current"
  /\ IF env.mode = "broker"
     THEN /\ pc' = IF pinned = NoReceipt THEN "found" ELSE "failed"
          /\ UNCHANGED pinned
     ELSE \/ \E r \in Candidates \cap receipts :
               Binds(r) /\ pinned' = r /\ pc' = "found"
          \/ /\ \A r \in Candidates \cap receipts : ~ Binds(r)
             /\ pc' = "failed" /\ UNCHANGED pinned
  /\ UNCHANGED <<hostVars, env, seen, identity>>

\* The receipt is read again for the identity of its source.
Export ==
  /\ pc = "found"
  /\ IF env.mode = "broker" \/ pinned \in receipts
     THEN /\ pc' = "verified"
          /\ identity' = [version |-> seen.version, build |-> seen.build,
                          source |-> IF env.mode = "broker" THEN NoBuild ELSE pinned.build]
     ELSE pc' = "failed" /\ UNCHANGED identity
  /\ UNCHANGED <<hostVars, env, pinned, seen>>

Verify == Locate \/ ReadVersion \/ ReadDigest \/ CheckCurrent \/ FindReceipt \/ Export
=============================================================================

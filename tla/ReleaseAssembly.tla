--------------------------- MODULE ReleaseAssembly ---------------------------
(***************************************************************************)
(* One `Release` value of jeryu-signrail between its construction and its  *)
(* witness.  Its methods are public and so are its fields, its callers may *)
(* call and change them in any order, and validate_release is all that     *)
(* decides whether the result may be released.  `sign-release` follows one *)
(* fixed order (SignRail); here every order is possible, fields are        *)
(* assigned behind the methods' back, a signer may fail at any statement,  *)
(* and time passes.                                                        *)
(*                                                                         *)
(* A source stands for the fields a provenance statement copies from the   *)
(* release and validation compares one by one: repository, commit, tree,   *)
(* CI IR, runner class, rootfs, toolchain, lock file and OIDC subject.     *)
(* Digests and signatures are injective: a digest is what it was computed  *)
(* from, a signature the secret and the statement it was computed over (no *)
(* field holds a line break, which the signed text separates them by).     *)
(***************************************************************************)
EXTENDS Integers, SequencesExt

CONSTANTS
  Digests,      \* artifact digests
  Blank,        \* the digest that is missing
  Artifacts,    \* the artifacts a caller has
  Sources,      \* what a release may claim to be built from
  Trusted,      \* the sources of the expected repository and runner class
  Headers,      \* the other fields a release may be constructed with
  KeyIds,       \* signer identities
  Secrets,      \* signing secrets
  Signers,      \* signers: an algorithm, an identity and a secret
  Foreign,      \* signed statements the caller has from elsewhere
  NoSbom, NoSigning,
  MaxArtifacts, \* bound: artifacts, and statements, of the release
  MaxEdits,     \* bound: assignments to fields
  Expiry,       \* time the OIDC identity of the job expires
  MaxTime       \* bound: the clock

\* A third signer, the one that is unavailable, is SignOutage.
Algorithms == {"ed25519", "hmac"}

\* The version, and whether the OIDC identity is of the expected issuer, for
\* the expected audience and has all its claims.
Header == [version : {"semver", "blank", "latest"},
           issuer : BOOLEAN, audience : BOOLEAN, claims : BOOLEAN]
Artifact == [digest : Digests, latest : BOOLEAN]
Sbom == [list : Seq(Digests), at : 0..MaxTime]
\* marker: the statement asks for a release witness.
Statement == [artifact : Digests, sbom : Sbom, source : Sources, signer : KeyIds,
              marker : BOOLEAN]
\* A signature names its algorithm and key and is a function of the secret
\* and of what it was computed over.
Signature == [algo : Algorithms, key : KeyIds, secret : Secrets, over : Statement]
SignedProvenance == [statement : Statement, by : Signature]
\* What one call of sign_with put its signatures on, and whose they are.
Signing == [list : Seq(Digests), sbom : Sbom, source : Sources, by : Signers]

ASSUME SignersAssumption ==
  Signers \subseteq [algo : Algorithms, id : KeyIds, secret : Secrets]
ASSUME TrustedAssumption == Trusted \subseteq Sources
ASSUME CallerAssumption ==
  /\ Artifacts \subseteq Artifact
  /\ Headers \subseteq Header
  /\ \A f \in Foreign : f \in SignedProvenance
ASSUME BoundsAssumption ==
  MaxArtifacts \in Nat /\ MaxEdits \in Nat /\ Expiry \in Nat /\ MaxTime \in Nat
ASSUME DistinctAssumption ==
  NoSbom \notin Sbom /\ NoSigning \notin Signing

VARIABLES
  artifacts, sbom, prov, rollback, immutable, source, header,  \* fields of the Release
  now,      \* the caller's clock
  edits,    \* assignments made
  signed    \* history: what the last call of sign_with signed, if it came to that

release == <<artifacts, sbom, prov, rollback, immutable, source, header>>
vars == <<release, now, edits, signed>>

DigestList == [n \in 1..Len(artifacts) |-> artifacts[n].digest]

\* The version and the claims are the caller's; issuer and audience are right
\* in sign-release (sign.rs:53-67), and may be assigned otherwise later.
Init ==
  /\ artifacts = <<>>
  /\ sbom = NoSbom
  /\ prov = <<>>
  /\ rollback = FALSE
  /\ immutable = TRUE
  /\ source \in Sources
  /\ header \in {h \in Headers : h.issuer /\ h.audience}
  /\ now = 0
  /\ edits = 0
  /\ signed = NoSigning

-----------------------------------------------------------------------------
(* The methods.                                                            *)

AddArtifact(a) ==
  /\ Len(artifacts) < MaxArtifacts
  /\ artifacts' = Append(artifacts, a)
  /\ UNCHANGED <<sbom, prov, rollback, immutable, source, header, now, edits, signed>>

\* The SBOM lists the artifacts there are when it is built.
AttachSbom ==
  /\ sbom' = [list |-> DigestList, at |-> now]
  /\ UNCHANGED <<artifacts, prov, rollback, immutable, source, header, now, edits, signed>>

\* Metadata with a blank field is refused like none (rollback.rs:45-60).
AttachRollback(ok) ==
  /\ rollback' = ok
  /\ UNCHANGED <<artifacts, sbom, prov, immutable, source, header, now, edits, signed>>

SetImmutable(b) ==
  /\ immutable' = b
  /\ UNCHANGED <<artifacts, sbom, prov, rollback, source, header, now, edits, signed>>

\* sign_with refuses to start without an SBOM, and changes nothing then.  It
\* drops the provenance there was and signs one statement per artifact.
StatementOf(d, k) ==
  [artifact |-> d, sbom |-> sbom, source |-> source, signer |-> k.id, marker |-> TRUE]

Sign(k, message) ==
  [algo |-> k.algo, key |-> k.id, secret |-> k.secret, over |-> message]

SignedFor(n, k) ==
  LET s == StatementOf(artifacts[n].digest, k)
  IN  [statement |-> s, by |-> Sign(k, s)]

SigningOf(n, k) ==
  [list |-> [m \in 1..n |-> artifacts[m].digest], sbom |-> sbom, source |-> source, by |-> k]

\* Mutant: the provenance there was is not dropped.
SignAppends(k, n) ==
  /\ sbom # NoSbom
  /\ n <= Len(artifacts)
  /\ prov' = prov \o [m \in 1..n |-> SignedFor(m, k)]
  /\ signed' = SigningOf(n, k)
  /\ UNCHANGED <<artifacts, sbom, rollback, immutable, source, header, now, edits>>

\* The signer may fail at statement n + 1: the error leaves n statements.
Signs(k, n) ==
  /\ sbom # NoSbom
  /\ n <= Len(artifacts)
  /\ prov' = [m \in 1..n |-> SignedFor(m, k)]
  /\ signed' = SigningOf(n, k)
  /\ UNCHANGED <<artifacts, sbom, rollback, immutable, source, header, now, edits>>

SignWith(k) == Signs(k, Len(artifacts))

SignOutage(k, n) == n < Len(artifacts) /\ Signs(k, n)

\* A caller's clock may be set back.
Tick(t) ==
  /\ now' = t
  /\ UNCHANGED <<release, edits, signed>>

-----------------------------------------------------------------------------
(* Assignments to the public fields (release.rs:14-48).  What the methods  *)
(* assign as well is left to them.                                         *)

Assign ==
  /\ edits < MaxEdits
  /\ edits' = edits + 1
  /\ UNCHANGED <<rollback, immutable, now, signed>>

RemoveArtifact(n) ==
  /\ Assign
  /\ n \in DOMAIN artifacts
  /\ artifacts' = RemoveAt(artifacts, n)
  /\ UNCHANGED <<sbom, prov, source, header>>

DropSbom ==
  /\ Assign
  /\ sbom' = NoSbom
  /\ UNCHANGED <<artifacts, prov, source, header>>

Retarget(s) ==
  /\ Assign
  /\ source' = s
  /\ UNCHANGED <<artifacts, sbom, prov, header>>

Rename(h) ==
  /\ Assign
  /\ header' = h
  /\ UNCHANGED <<artifacts, sbom, prov, source>>

\* A field of a statement is changed after it was signed, for one a hasty
\* caller would rather have there.
Revisions(s) ==
  {[s EXCEPT !.artifact = d] : d \in Digests}
    \cup {[s EXCEPT !.source = source], [s EXCEPT !.marker = FALSE]}
    \cup {[s EXCEPT !.sbom = b] : b \in {sbom} \ {NoSbom}}

EditStatement(n) ==
  /\ Assign
  /\ n \in DOMAIN prov
  /\ \E s \in Revisions(prov[n].statement) : prov' = [prov EXCEPT ![n].statement = s]
  /\ UNCHANGED <<artifacts, sbom, source, header>>

DropStatement(n) ==
  /\ Assign
  /\ n \in DOMAIN prov
  /\ prov' = RemoveAt(prov, n)
  /\ UNCHANGED <<artifacts, sbom, source, header>>

\* A statement of the release repeated, or one brought from elsewhere.
PutStatement(p) ==
  /\ Assign
  /\ Len(prov) < MaxArtifacts
  /\ prov' = Append(prov, p)
  /\ UNCHANGED <<artifacts, sbom, source, header>>

Edit ==
  \/ \E n \in 1..MaxArtifacts : RemoveArtifact(n) \/ EditStatement(n) \/ DropStatement(n)
  \/ DropSbom
  \/ \E s \in Sources : Retarget(s)
  \/ \E h \in Headers : Rename(h)
  \/ \E p \in Foreign : PutStatement(p)
  \/ \E n \in DOMAIN prov : PutStatement(prov[n])

-----------------------------------------------------------------------------
(* validate_release changes nothing: its verdict on the release as it      *)
(* stands, under signer k.                                                 *)

\* Mutant: the identity is refused one tick early.
UnexpiredEarly == Expiry > now + 1

Unexpired == Expiry > now

IsFit(a) == ~ a.latest /\ a.digest # Blank

ArtifactDigests == {artifacts[n].digest : n \in DOMAIN artifacts}

\* Mutant: any signature made with the secret will do.
VerifiesAnyMessage(k, p) ==
  p.by.algo = k.algo /\ p.by.key = k.id /\ p.by.secret = k.secret

\* Under the public key, or the shared secret, of the signer; the wire form
\* it is checked in always names the verifier's own key and algorithm.
Genuine(k, message, s) == s.secret = k.secret /\ s.over = message

Verifies(k, p) ==
  p.by.algo = k.algo /\ p.by.key = k.id /\ Genuine(k, p.statement, p.by)

\* Mutant: the SBOM digest is not compared.
DescribesNoSbom(s, k) == s.source = source /\ s.signer = k.id /\ s.marker

Describes(s, k) == s.source = source /\ s.sbom = sbom /\ s.signer = k.id /\ s.marker

StatementOk(n, k) ==
  LET s == prov[n].statement
  IN  /\ Describes(s, k)
      /\ s.artifact \in ArtifactDigests
      /\ \A m \in 1..(n - 1) : prov[m].statement.artifact # s.artifact
      /\ Verifies(k, prov[n])

\* The gates, in the order they are tried; a witness is issued if all hold.
Passes(k) ==
  /\ artifacts # <<>>
  /\ immutable
  /\ header.version = "semver"
  /\ source \in Trusted
  /\ header.issuer /\ header.audience /\ Unexpired /\ header.claims
  /\ \A n \in DOMAIN artifacts : IsFit(artifacts[n])
  /\ sbom # NoSbom
  /\ rollback
  /\ Len(prov) = Len(artifacts)
  /\ \A n \in DOMAIN prov : StatementOk(n, k)

-----------------------------------------------------------------------------
Next ==
  \/ \E a \in Artifacts : AddArtifact(a)
  \/ AttachSbom
  \/ \E ok \in BOOLEAN : AttachRollback(ok)
  \/ \E b \in BOOLEAN : SetImmutable(b)
  \/ \E k \in Signers : SignWith(k)
  \/ \E k \in Signers, n \in 0..(MaxArtifacts - 1) : SignOutage(k, n)
  \/ Edit
  \/ \E t \in 0..MaxTime : Tick(t)

Spec == Init /\ [][Next]_vars

-----------------------------------------------------------------------------
(* Properties.                                                             *)

\* Every field has its type, and signing clears the provenance there was: it
\* stays within the bound on artifacts.
TypeOK ==
  /\ artifacts \in Seq(Artifact) /\ Len(artifacts) <= MaxArtifacts
  /\ sbom \in Sbom \cup {NoSbom}
  /\ prov \in Seq(SignedProvenance) /\ Len(prov) <= MaxArtifacts
  /\ rollback \in BOOLEAN /\ immutable \in BOOLEAN
  /\ source \in Sources /\ header \in Header
  /\ now \in 0..MaxTime /\ edits \in 0..MaxEdits
  /\ signed \in Signing \cup {NoSigning}

\* 100% coverage: a witness is issued only if every artifact is named by
\* exactly one statement, signed by the checker's own key and algorithm over
\* the source and the SBOM the release has, whatever was done to the
\* provenance: policy.rs:120-199 counts the statements, looks each up among
\* the artifacts and refuses repetitions.
WitnessSound ==
  \A k \in Signers : Passes(k) =>
    \A a \in ArtifactDigests :
      \E n \in DOMAIN prov :
        /\ prov[n] = [statement |-> StatementOf(a, k),
                      by |-> Sign(k, StatementOf(a, k))]
        /\ \A m \in DOMAIN prov : prov[m].statement.artifact = a => m = n

\* What the witness vouches for is what the last call of sign_with signed:
\* it was made with the checker's key, over the SBOM and the source the
\* release has now, and came to every artifact the release has now, unless
\* the caller brought a statement signed over just that.  No artifact added,
\* SBOM replaced, source retargeted or statement changed since gets by, and
\* none that an outage left unsigned (release.rs:110-140, policy.rs:120-200);
\* a release whose unsigned artifacts are taken out is another matter.
WitnessedAsSigned ==
  \A k \in Signers : Passes(k) =>
    \A a \in ArtifactDigests :
      \/ \E f \in Foreign : f.by = Sign(k, StatementOf(a, k))
      \/ /\ signed # NoSigning
         /\ signed.by = k /\ signed.sbom = sbom /\ signed.source = source
         /\ \E m \in DOMAIN signed.list : signed.list[m] = a

\* No needless block: a release that is signed as it stands passes under the
\* signing key at any time before the identity expires, if its own fields
\* are in order and no two artifacts have the same bytes.
SignedPasses ==
  \A k \in Signers :
    /\ artifacts # <<>> /\ sbom # NoSbom
    /\ prov = [n \in 1..Len(artifacts) |-> SignedFor(n, k)]
    /\ immutable /\ rollback /\ source \in Trusted
    /\ header = [version |-> "semver", issuer |-> TRUE, audience |-> TRUE, claims |-> TRUE]
    /\ \A n \in DOMAIN artifacts : ~ artifacts[n].latest /\ artifacts[n].digest # Blank
    /\ \A m, n \in DOMAIN artifacts : artifacts[m].digest = artifacts[n].digest => m = n
    /\ now < Expiry
    => Passes(k)
=============================================================================

------------------------ MODULE ReleaseAssembly_proofs ------------------------
(***************************************************************************)
(* Theorems about ReleaseAssembly, for any number of artifacts, signers    *)
(* and sources, every order of calls and any number of assignments.        *)
(***************************************************************************)
EXTENDS ReleaseAssembly, FiniteSetTheorems, TLAPS

-----------------------------------------------------------------------------
(* Type correctness.                                                       *)

\* Taking an element out of a sequence leaves elements it had.
LEMMA RemoveAtIs ==
  ASSUME NEW S, NEW q \in Seq(S), NEW n \in 1..Len(q)
  PROVE  /\ RemoveAt(q, n) \in Seq(S)
         /\ Len(RemoveAt(q, n)) = Len(q) - 1
         /\ \A m \in 1..Len(RemoveAt(q, n)) : \E j \in 1..Len(q) : RemoveAt(q, n)[m] = q[j]
<1> DEFINE front == SubSeq(q, 1, n - 1)
           back == SubSeq(q, n + 1, Len(q))
<1>1. /\ front \in Seq(S) /\ Len(front) = n - 1
      /\ \A m \in 1..(n - 1) : front[m] = q[m]
  OBVIOUS
<1>2. /\ back \in Seq(S) /\ Len(back) = Len(q) - n
      /\ \A m \in 1..(Len(q) - n) : back[m] = q[m + n]
  OBVIOUS
<1>3. RemoveAt(q, n) = front \o back
  BY DEF RemoveAt
<1> HIDE DEF front, back
<1>4. /\ RemoveAt(q, n) \in Seq(S)
      /\ Len(RemoveAt(q, n)) = Len(q) - 1
  BY <1>1, <1>2, <1>3
<1>5. ASSUME NEW m \in 1..(Len(q) - 1)
      PROVE  \E j \in 1..Len(q) : RemoveAt(q, n)[m] = q[j]
  <2>1. CASE m <= n - 1
    <3>1. RemoveAt(q, n)[m] = q[m]
      BY <2>1, <1>1, <1>2, <1>3
    <3> QED
      BY <3>1
  <2>2. CASE m > n - 1
    <3>1. RemoveAt(q, n)[m] = q[m + 1] /\ m + 1 \in 1..Len(q)
      BY <2>2, <1>1, <1>2, <1>3
    <3> QED
      BY <3>1
  <2> QED
    BY <2>1, <2>2
<1> QED
  BY <1>4, <1>5

LEMMA SignatureType ==
  ASSUME TypeOK, sbom # NoSbom, NEW k \in Signers, NEW n \in 1..Len(artifacts)
  PROVE  SignedFor(n, k) \in SignedProvenance
<1>1. k \in [algo : Algorithms, id : KeyIds, secret : Secrets]
  BY SignersAssumption
<1>2. artifacts[n] \in Artifact /\ sbom \in Sbom /\ source \in Sources
  BY DEF TypeOK
<1>3. StatementOf(artifacts[n].digest, k) \in Statement
  BY <1>1, <1>2 DEF StatementOf, Statement, Artifact
<1> QED
  BY <1>1, <1>3 DEF SignedFor, Sign, SignedProvenance, Signature

LEMMA DigestsType ==
  ASSUME TypeOK, NEW n \in Nat, n <= Len(artifacts)
  PROVE  [m \in 1..n |-> artifacts[m].digest] \in Seq(Digests)
<1>1. \A m \in 1..n : artifacts[m] \in Artifact
  BY DEF TypeOK
<1>2. \A m \in 1..n : artifacts[m].digest \in Digests
  BY <1>1 DEF Artifact
<1> QED
  BY <1>2

LEMMA SigningType ==
  ASSUME TypeOK, sbom # NoSbom, NEW k \in Signers, NEW n \in Nat, n <= Len(artifacts)
  PROVE  SigningOf(n, k) \in Signing /\ SigningOf(n, k) # NoSigning
BY DigestsType, DistinctAssumption DEF TypeOK, SigningOf, Signing

LEMMA RevisionType ==
  ASSUME TypeOK, NEW p \in SignedProvenance, NEW s \in Revisions(p.statement)
  PROVE  [p EXCEPT !.statement = s] \in SignedProvenance
<1>1. p.statement \in Statement
  BY DEF SignedProvenance
<1>2. s \in Statement
  BY <1>1 DEF Revisions, Statement, TypeOK
<1> QED
  BY <1>2 DEF SignedProvenance

LEMMA TypeInit == Init => TypeOK
<1> SUFFICES ASSUME Init PROVE TypeOK
  OBVIOUS
<1>1. artifacts = <<>> /\ prov = <<>> /\ Len(<<>>) = 0
  BY DEF Init
<1>2. artifacts \in Seq(Artifact) /\ prov \in Seq(SignedProvenance)
  BY <1>1
<1>3. Len(artifacts) <= MaxArtifacts /\ Len(prov) <= MaxArtifacts
  BY <1>1, BoundsAssumption
<1>4. /\ sbom \in Sbom \cup {NoSbom} /\ rollback \in BOOLEAN /\ immutable \in BOOLEAN
      /\ source \in Sources /\ header \in Header
      /\ signed \in Signing \cup {NoSigning}
  BY CallerAssumption DEF Init
<1>5. now \in 0..MaxTime /\ edits \in 0..MaxEdits
  BY BoundsAssumption DEF Init
<1> QED
  BY <1>2, <1>3, <1>4, <1>5 DEF TypeOK

\* Every signing, complete or not, leaves one signed statement for each
\* artifact it came to, and nothing else.
LEMMA SignsType ==
  ASSUME TypeOK, NEW k \in Signers, NEW n \in Nat, Signs(k, n) PROVE TypeOK'
<1>1. sbom # NoSbom /\ n <= Len(artifacts)
  BY DEF Signs
<1>2. Len(artifacts) \in Nat /\ Len(artifacts) <= MaxArtifacts
  BY DEF TypeOK
<1>3. \A m \in 1..n : SignedFor(m, k) \in SignedProvenance
  BY <1>1, <1>2, SignatureType
<1>4. prov' \in Seq(SignedProvenance) /\ Len(prov') <= MaxArtifacts
  BY <1>1, <1>2, <1>3, BoundsAssumption DEF Signs
<1>5. signed' \in Signing
  BY <1>1, SigningType DEF Signs
<1> QED
  BY <1>4, <1>5 DEF Signs, TypeOK

LEMMA EditType == ASSUME TypeOK, Edit PROVE TypeOK'
<1> USE DEF Assign
<1>t. /\ artifacts \in Seq(Artifact) /\ Len(artifacts) \in Nat
      /\ DOMAIN artifacts = 1..Len(artifacts)
      /\ prov \in Seq(SignedProvenance) /\ Len(prov) \in Nat
      /\ DOMAIN prov = 1..Len(prov)
      /\ edits < MaxEdits => edits + 1 \in 0..MaxEdits
  BY BoundsAssumption DEF TypeOK
<1>1. ASSUME NEW n \in 1..MaxArtifacts, RemoveArtifact(n) PROVE TypeOK'
  <2>1. artifacts' \in Seq(Artifact) /\ Len(artifacts') = Len(artifacts) - 1
    BY <1>1, <1>t, RemoveAtIs DEF RemoveArtifact
  <2> QED
    BY <1>1, <1>t, <2>1, BoundsAssumption DEF RemoveArtifact, TypeOK
<1>2. ASSUME NEW n \in 1..MaxArtifacts, EditStatement(n) PROVE TypeOK'
  <2>1. PICK s \in Revisions(prov[n].statement) : prov' = [prov EXCEPT ![n].statement = s]
    BY <1>2 DEF EditStatement
  <2>2. n \in 1..Len(prov) /\ prov[n] \in SignedProvenance
    BY <1>2, <1>t DEF EditStatement
  <2>3. [prov[n] EXCEPT !.statement = s] \in SignedProvenance
    BY <2>2, RevisionType
  <2>4. prov' = [prov EXCEPT ![n] = [prov[n] EXCEPT !.statement = s]]
    BY <2>1
  <2>5. prov' \in Seq(SignedProvenance) /\ Len(prov') = Len(prov)
    BY <1>t, <2>2, <2>3, <2>4
  <2> QED
    BY <1>2, <1>t, <2>5, BoundsAssumption DEF EditStatement, TypeOK
<1>3. ASSUME NEW n \in 1..MaxArtifacts, DropStatement(n) PROVE TypeOK'
  <2>1. prov' \in Seq(SignedProvenance) /\ Len(prov') = Len(prov) - 1
    BY <1>3, <1>t, RemoveAtIs DEF DropStatement
  <2> QED
    BY <1>3, <1>t, <2>1, BoundsAssumption DEF DropStatement, TypeOK
<1>4. ASSUME NEW p \in SignedProvenance, PutStatement(p) PROVE TypeOK'
  <2>1. prov' \in Seq(SignedProvenance) /\ Len(prov') = Len(prov) + 1
    BY <1>4, <1>t DEF PutStatement
  <2> QED
    BY <1>4, <1>t, <2>1, BoundsAssumption DEF PutStatement, TypeOK
<1>5. ASSUME \/ DropSbom
             \/ \E s \in Sources : Retarget(s)
             \/ \E h \in Headers : Rename(h)
      PROVE TypeOK'
  BY <1>5, <1>t, BoundsAssumption, CallerAssumption DEF DropSbom, Retarget, Rename, TypeOK
<1>6. /\ \A p \in Foreign : p \in SignedProvenance
      /\ \A n \in DOMAIN prov : prov[n] \in SignedProvenance
  BY <1>t, CallerAssumption
<1> QED
  BY <1>1, <1>2, <1>3, <1>4, <1>5, <1>6 DEF Edit

LEMMA TypeStep == TypeOK /\ [Next]_vars => TypeOK'
<1> SUFFICES ASSUME TypeOK, [Next]_vars PROVE TypeOK'
  OBVIOUS
<1>t. Len(artifacts) \in Nat
  BY DEF TypeOK
<1>1. ASSUME NEW a \in Artifacts, AddArtifact(a) PROVE TypeOK'
  BY <1>1, BoundsAssumption, CallerAssumption DEF AddArtifact, TypeOK
<1>2. ASSUME AttachSbom PROVE TypeOK'
  <2>1. sbom' \in Sbom
    BY <1>2, <1>t, DigestsType DEF AttachSbom, Sbom, DigestList, TypeOK
  <2> QED
    BY <1>2, <2>1 DEF AttachSbom, TypeOK
<1>3. ASSUME \/ \E ok \in BOOLEAN : AttachRollback(ok)
             \/ \E b \in BOOLEAN : SetImmutable(b)
             \/ \E t \in 0..MaxTime : Tick(t)
      PROVE TypeOK'
  BY <1>3, BoundsAssumption DEF AttachRollback, SetImmutable, Tick, release, TypeOK
<1>4. ASSUME NEW k \in Signers, SignWith(k) PROVE TypeOK'
  BY <1>4, <1>t, SignsType DEF SignWith
<1>5. ASSUME NEW k \in Signers, NEW n \in 0..(MaxArtifacts - 1), SignOutage(k, n)
      PROVE TypeOK'
  BY <1>5, SignsType DEF SignOutage
<1>6. ASSUME UNCHANGED vars PROVE TypeOK'
  BY <1>6 DEF vars, release, TypeOK
<1> QED
  BY <1>1, <1>2, <1>3, <1>4, <1>5, <1>6, EditType DEF Next

\* Type correctness of every reachable release: statements stay within the
\* bound on artifacts, whatever was signed, repeated or brought in.
THEOREM AssemblyTypeCorrect == Spec => []TypeOK
<1> QED
  BY TypeInit, TypeStep, PTL DEF Spec
-----------------------------------------------------------------------------
(* What was signed.  Whatever is done to the statements, their signatures  *)
(* are those of the last signing, or came from elsewhere.                  *)

Brought(p) == \E f \in Foreign : f.by = p.by

OfSigning(p, call) ==
  \E m \in DOMAIN call.list :
    p.by = Sign(call.by, [artifact |-> call.list[m], sbom |-> call.sbom,
                          source |-> call.source, signer |-> call.by.id, marker |-> TRUE])

LastSigning ==
  \A n \in 1..Len(prov) :
    Brought(prov[n]) \/ (signed # NoSigning /\ OfSigning(prov[n], signed))

IInv == TypeOK /\ LastSigning

LEMMA SignsLast ==
  ASSUME TypeOK, NEW k \in Signers, NEW n \in Nat, Signs(k, n) PROVE LastSigning'
<1>1. sbom # NoSbom /\ n <= Len(artifacts)
  BY DEF Signs
<1>2. /\ Len(prov') = n /\ \A m \in 1..n : prov'[m] = SignedFor(m, k)
      /\ signed' = SigningOf(n, k) /\ signed' # NoSigning
  BY <1>1, SigningType DEF Signs
<1>3. ASSUME NEW m \in 1..n PROVE OfSigning(SignedFor(m, k), SigningOf(n, k))
  <2>1. m \in DOMAIN SigningOf(n, k).list /\ SigningOf(n, k).list[m] = artifacts[m].digest
    BY DEF SigningOf
  <2>2. SignedFor(m, k).by = Sign(k, StatementOf(artifacts[m].digest, k))
    BY DEF SignedFor
  <2>3. /\ SigningOf(n, k).by = k /\ SigningOf(n, k).sbom = sbom
        /\ SigningOf(n, k).source = source
    BY DEF SigningOf
  <2> QED
    BY <2>1, <2>2, <2>3 DEF OfSigning, StatementOf
<1>4. \A m \in 1..Len(prov') : OfSigning(prov'[m], signed')
  BY <1>2, <1>3
<1> QED
  BY <1>2, <1>4 DEF LastSigning

\* What an edit leaves in the provenance bears a signature that was there.
LEMMA EditLast == ASSUME IInv, Edit PROVE LastSigning'
<1>t. /\ prov \in Seq(SignedProvenance) /\ Len(prov) \in Nat
      /\ DOMAIN prov = 1..Len(prov) /\ TypeOK /\ LastSigning
  BY DEF IInv, TypeOK
<1>s. signed' = signed
  BY DEF Edit, RemoveArtifact, DropSbom, Retarget, Rename, EditStatement, DropStatement,
         PutStatement, Assign
<1>1. SUFFICES \A m \in 1..Len(prov') :
                 \/ \E f \in Foreign : f.by = prov'[m].by
                 \/ \E j \in 1..Len(prov) : prov'[m].by = prov[j].by
  BY <1>t, <1>s DEF LastSigning, Brought, OfSigning
<1>2. CASE UNCHANGED prov
  BY <1>2
<1>3. ASSUME NEW n \in 1..MaxArtifacts, EditStatement(n)
      PROVE  \A m \in 1..Len(prov') : \E j \in 1..Len(prov) : prov'[m].by = prov[j].by
  <2>1. PICK s \in Revisions(prov[n].statement) : prov' = [prov EXCEPT ![n].statement = s]
    BY <1>3 DEF EditStatement
  <2>2. prov' = [prov EXCEPT ![n] = [prov[n] EXCEPT !.statement = s]]
    BY <2>1
  <2>3. n \in 1..Len(prov) /\ [prov[n] EXCEPT !.statement = s].by = prov[n].by
    BY <1>3, <1>t DEF EditStatement, SignedProvenance
  <2>4. Len(prov') = Len(prov)
    BY <1>t, <2>2
  <2>5. \A m \in 1..Len(prov) : prov'[m].by = prov[m].by
    BY <1>t, <2>2, <2>3
  <2> QED
    BY <2>4, <2>5
<1>4. ASSUME NEW n \in 1..MaxArtifacts, DropStatement(n)
      PROVE  \A m \in 1..Len(prov') : \E j \in 1..Len(prov) : prov'[m].by = prov[j].by
  BY <1>4, <1>t, RemoveAtIs DEF DropStatement
<1>5. ASSUME NEW p, PutStatement(p)
      PROVE  \A m \in 1..Len(prov') :
               prov'[m] = p \/ \E j \in 1..Len(prov) : prov'[m].by = prov[j].by
  <2>1. Len(prov') = Len(prov) + 1 /\ prov'[Len(prov) + 1] = p
    BY <1>5, <1>t DEF PutStatement
  <2>2. \A m \in 1..Len(prov) : prov'[m] = prov[m]
    BY <1>5, <1>t DEF PutStatement
  <2> QED
    BY <1>t, <2>1, <2>2
<1> QED
  BY <1>2, <1>3, <1>4, <1>5, <1>t DEF Edit, RemoveArtifact, DropSbom, Retarget, Rename

LEMMA SigningStep == IInv /\ [Next]_vars => LastSigning'
<1> SUFFICES ASSUME IInv, [Next]_vars PROVE LastSigning'
  OBVIOUS
<1>t. TypeOK /\ LastSigning /\ Len(artifacts) \in Nat
  BY DEF IInv, TypeOK
<1>1. CASE UNCHANGED <<prov, signed>>
  BY <1>1, <1>t DEF LastSigning, Brought, OfSigning
<1>2. ASSUME NEW k \in Signers, SignWith(k) PROVE LastSigning'
  BY <1>2, <1>t, SignsLast DEF SignWith
<1>3. ASSUME NEW k \in Signers, NEW n \in 0..(MaxArtifacts - 1), SignOutage(k, n)
      PROVE LastSigning'
  BY <1>3, <1>t, SignsLast DEF SignOutage
<1> QED
  BY <1>1, <1>2, <1>3, EditLast
     DEF Next, vars, release, AddArtifact, AttachSbom, AttachRollback, SetImmutable, Tick

LEMMA AssemblyInit == Init => IInv
<1> SUFFICES ASSUME Init PROVE IInv
  OBVIOUS
<1>1. Len(prov) = 0
  BY DEF Init
<1> QED
  BY <1>1, TypeInit DEF IInv, LastSigning

LEMMA AssemblyStep == IInv /\ [Next]_vars => IInv'
BY TypeStep, SigningStep DEF IInv

-----------------------------------------------------------------------------
(* Full coverage.  As many statements as artifacts, each naming an artifact *)
(* and no two the same one: no artifact is left without.                   *)

LEMMA StatementsCover ==
  ASSUME TypeOK, NEW k, Len(prov) = Len(artifacts),
         \A n \in 1..Len(prov) : StatementOk(n, k),
         NEW a \in ArtifactDigests
  PROVE  \E n \in 1..Len(prov) : prov[n].statement.artifact = a
<1> DEFINE N == 1..Len(artifacts)
           named == [n \in N |-> prov[n].statement.artifact]
           digest == [n \in N |-> artifacts[n].digest]
<1>1. IsFiniteSet(N) /\ Len(artifacts) \in Nat
  BY FS_Interval DEF TypeOK
<1>2. digest \in Surjection(N, ArtifactDigests)
  BY DEF ArtifactDigests, Surjection, TypeOK
<1>3. IsFiniteSet(ArtifactDigests) /\ Cardinality(ArtifactDigests) <= Cardinality(N)
  BY <1>1, <1>2, FS_Surjection
<1>4. \A n \in N : /\ prov[n].statement.artifact \in ArtifactDigests
                   /\ \A m \in 1..(n - 1) :
                        prov[m].statement.artifact # prov[n].statement.artifact
  BY DEF StatementOk
<1>5. \A m, n \in N : named[m] = named[n] => m = n
  <2> SUFFICES ASSUME NEW m \in N, NEW n \in N, named[m] = named[n] PROVE m = n
    OBVIOUS
  <2>1. m \in 1..(n - 1) \/ m = n \/ n \in 1..(m - 1)
    BY <1>1
  <2> QED
    BY <1>4, <2>1
<1>6. named \in Injection(N, ArtifactDigests)
  BY <1>4, <1>5 DEF Injection, IsInjective
<1>7. Cardinality(N) <= Cardinality(ArtifactDigests)
  BY <1>3, <1>6, FS_Injection
<1>8. Cardinality(N) = Cardinality(ArtifactDigests)
  BY <1>1, <1>3, <1>7, FS_CardinalityType
<1>9. named \in Surjection(N, ArtifactDigests)
  BY <1>3, <1>6, <1>8, FS_Injection
<1> QED
  BY <1>9 DEF Surjection

\* What one passing statement about an artifact is.
LEMMA StatementIs ==
  ASSUME TypeOK, NEW k \in Signers, NEW n \in 1..Len(prov), StatementOk(n, k)
  PROVE  prov[n] = [statement |-> StatementOf(prov[n].statement.artifact, k),
                    by |-> Sign(k, StatementOf(prov[n].statement.artifact, k))]
<1>1. prov[n] \in SignedProvenance
  BY DEF TypeOK
<1>2. prov[n].statement \in Statement /\ prov[n].by \in Signature
  BY <1>1 DEF SignedProvenance
<1>3. prov[n].statement = StatementOf(prov[n].statement.artifact, k)
  <2>1. prov[n].statement.marker = TRUE
    BY <1>2 DEF StatementOk, Describes, Statement
  <2> QED
    BY <1>2, <2>1 DEF StatementOk, Describes, StatementOf, Statement
<1>4. prov[n].by = Sign(k, prov[n].statement)
  BY <1>2 DEF StatementOk, Verifies, Genuine, Sign, Signature
<1> QED
  BY <1>1, <1>3, <1>4 DEF SignedProvenance

\* 100% coverage: a witness is issued only if every artifact is named by
\* exactly one statement, signed by the checker's own key over the source
\* and the SBOM the release has, whatever was done to the provenance.
THEOREM WitnessSoundHolds == Spec => []WitnessSound
<1>1. IInv => WitnessSound
  <2> SUFFICES ASSUME IInv, NEW k \in Signers, Passes(k), NEW a \in ArtifactDigests
               PROVE  \E n \in DOMAIN prov :
                        /\ prov[n] = [statement |-> StatementOf(a, k),
                                      by |-> Sign(k, StatementOf(a, k))]
                        /\ \A m \in DOMAIN prov : prov[m].statement.artifact = a => m = n
    BY DEF WitnessSound
  <2>t. DOMAIN prov = 1..Len(prov) /\ Len(prov) \in Nat /\ TypeOK
    BY DEF IInv, TypeOK
  <2>p. Len(prov) = Len(artifacts) /\ \A n \in 1..Len(prov) : StatementOk(n, k)
    BY <2>t DEF Passes
  <2>1. PICK n \in 1..Len(prov) : prov[n].statement.artifact = a
    BY <2>t, <2>p, StatementsCover
  <2>2. prov[n] = [statement |-> StatementOf(a, k), by |-> Sign(k, StatementOf(a, k))]
    BY <2>1, <2>t, <2>p, StatementIs
  <2>3. ASSUME NEW m \in 1..Len(prov), prov[m].statement.artifact = a PROVE m = n
    <3>1. m \in 1..(n - 1) \/ m = n \/ n \in 1..(m - 1)
      BY <2>t
    <3> QED
      BY <2>1, <2>3, <2>p, <3>1 DEF StatementOk
  <2> QED
    BY <2>t, <2>2, <2>3
<1> QED
  BY <1>1, AssemblyInit, AssemblyStep, PTL DEF Spec

\* What a witness vouches for is what the last signing call signed, under the
\* checker's key and over what the release has now, or was brought in signed
\* over just that, whatever was added, replaced, retargeted or edited and
\* wherever a signer failed in between.
THEOREM WitnessedAsSignedHolds == Spec => []WitnessedAsSigned
<1>1. IInv => WitnessedAsSigned
  <2> SUFFICES ASSUME IInv, NEW k \in Signers, Passes(k), NEW a \in ArtifactDigests,
                      ~ \E f \in Foreign : f.by = Sign(k, StatementOf(a, k))
               PROVE  /\ signed # NoSigning
                      /\ signed.by = k /\ signed.sbom = sbom /\ signed.source = source
                      /\ \E m \in DOMAIN signed.list : signed.list[m] = a
    BY DEF WitnessedAsSigned
  <2>t. DOMAIN prov = 1..Len(prov) /\ Len(prov) \in Nat /\ TypeOK /\ LastSigning
    BY DEF IInv, TypeOK
  <2>p. Len(prov) = Len(artifacts) /\ \A n \in 1..Len(prov) : StatementOk(n, k)
    BY <2>t DEF Passes
  <2>1. PICK n \in 1..Len(prov) : prov[n].statement.artifact = a
    BY <2>t, <2>p, StatementsCover
  <2>2. prov[n] = [statement |-> StatementOf(a, k), by |-> Sign(k, StatementOf(a, k))]
    BY <2>1, <2>t, <2>p, StatementIs
  <2>3. prov[n].by = Sign(k, StatementOf(a, k))
    BY <2>2
  <2>4. signed # NoSigning /\ OfSigning(prov[n], signed)
    BY <2>t, <2>3 DEF LastSigning, Brought
  <2>5. PICK m \in DOMAIN signed.list :
          Sign(k, StatementOf(a, k))
            = Sign(signed.by, [artifact |-> signed.list[m], sbom |-> signed.sbom,
                               source |-> signed.source, signer |-> signed.by.id,
                               marker |-> TRUE])
    BY <2>3, <2>4 DEF OfSigning
  <2>6. /\ k.algo = signed.by.algo /\ k.id = signed.by.id /\ k.secret = signed.by.secret
        /\ StatementOf(a, k) = [artifact |-> signed.list[m], sbom |-> signed.sbom,
                                source |-> signed.source, signer |-> signed.by.id,
                                marker |-> TRUE]
    BY <2>5 DEF Sign
  <2>7. a = signed.list[m] /\ sbom = signed.sbom /\ source = signed.source
    BY <2>6 DEF StatementOf
  <2>8. signed \in Signing
    BY <2>t, <2>4 DEF TypeOK
  <2>9. signed.by = k
    BY <2>6, <2>8, SignersAssumption DEF Signing
  <2> QED
    BY <2>4, <2>7, <2>9
<1> QED
  BY <1>1, AssemblyInit, AssemblyStep, PTL DEF Spec

\* No needless block: a release that is signed as it stands passes under the
\* signing key until the identity expires, if its own fields are in order.
THEOREM SignedPassesHolds == Spec => []SignedPasses
<1>1. TypeOK => SignedPasses
  <2> SUFFICES ASSUME TypeOK, NEW k \in Signers,
                      artifacts # <<>>, sbom # NoSbom,
                      prov = [n \in 1..Len(artifacts) |-> SignedFor(n, k)],
                      immutable, rollback, source \in Trusted,
                      header = [version |-> "semver", issuer |-> TRUE, audience |-> TRUE,
                                claims |-> TRUE],
                      \A n \in DOMAIN artifacts :
                        ~ artifacts[n].latest /\ artifacts[n].digest # Blank,
                      \A m, n \in DOMAIN artifacts :
                        artifacts[m].digest = artifacts[n].digest => m = n,
                      now < Expiry
               PROVE  Passes(k)
    BY DEF SignedPasses
  <2>t. DOMAIN artifacts = 1..Len(artifacts) /\ Len(artifacts) \in Nat
    BY DEF TypeOK
  <2>1. Len(prov) = Len(artifacts) /\ DOMAIN prov = 1..Len(prov)
    BY <2>t
  <2>2. \A n \in 1..Len(prov) : prov[n] = SignedFor(n, k)
    BY <2>1
  <2>3. ASSUME NEW n \in 1..Len(prov) PROVE StatementOk(n, k)
    <3>1. /\ prov[n].statement = StatementOf(artifacts[n].digest, k)
          /\ prov[n].by = Sign(k, StatementOf(artifacts[n].digest, k))
      BY <2>2 DEF SignedFor
    <3>a. Describes(StatementOf(artifacts[n].digest, k), k)
      BY DEF Describes, StatementOf
    <3>b. Verifies(k, prov[n])
      BY <3>1 DEF Verifies, Genuine, Sign
    <3>2. Describes(prov[n].statement, k) /\ Verifies(k, prov[n])
      BY <3>1, <3>a, <3>b
    <3>3. \A m \in 1..Len(prov) : prov[m].statement.artifact = artifacts[m].digest
      BY <2>2 DEF SignedFor, StatementOf
    <3>4. artifacts[n].digest \in ArtifactDigests
      BY <2>t, <2>1 DEF ArtifactDigests
    <3>5. \A m \in 1..(n - 1) : m \in 1..Len(prov) /\ m # n
      BY <2>t, <2>1
    <3> QED
      BY <2>t, <2>1, <3>2, <3>3, <3>4, <3>5 DEF StatementOk
  <2>4. Unexpired
    BY BoundsAssumption DEF Unexpired, TypeOK
  <2> QED
    BY <2>1, <2>3, <2>4 DEF Passes, IsFit
<1> QED
  BY <1>1, TypeInit, TypeStep, PTL DEF Spec
=============================================================================

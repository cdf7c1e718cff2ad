-------------------------- MODULE MCReleaseAssembly --------------------------
(* Small instances of ReleaseAssembly.                                     *)
EXTENDS ReleaseAssembly

CONSTANTS a1, a2, none, x1, k1, k2, p1, p2

\* Two identities with one secret, and one with two secrets and algorithms.
MCSigners == {[algo |-> "ed25519", id |-> k1, secret |-> p1],
              [algo |-> "ed25519", id |-> k2, secret |-> p1],
              [algo |-> "hmac", id |-> k1, secret |-> p2]}

MCArtifacts == [digest : {a1, a2}, latest : {FALSE}]
                 \cup {[digest |-> none, latest |-> FALSE], [digest |-> a1, latest |-> TRUE]}

\* All in order, or a field or two amiss.
InOrder == [version |-> "semver", issuer |-> TRUE, audience |-> TRUE, claims |-> TRUE]
MCHeaders == {InOrder, [InOrder EXCEPT !.version = "latest"],
              [InOrder EXCEPT !.claims = FALSE], [InOrder EXCEPT !.audience = FALSE],
              [InOrder EXCEPT !.version = "blank", !.issuer = FALSE]}

\* A statement of another release of the same commit, with one artifact.
Kept == [artifact |-> a1, sbom |-> [list |-> <<a1>>, at |-> 0], source |-> x1,
         signer |-> k1, marker |-> TRUE]
MCForeign == {[statement |-> Kept,
               by |-> [algo |-> "ed25519", key |-> k1, secret |-> p1, over |-> Kept]]}
=============================================================================

----------------------------- MODULE MCSignRail -----------------------------
(* Small instances of SignRail.  Requests and invocations are given here,  *)
(* the other constants as model values in the configurations.              *)
EXTENDS SignRail, TLC

CONSTANTS i1, i2, d1, d2, s1, s2, k1, k2

Good(i, d, st, k) == [id |-> i, dir |-> d, stages |-> st, key |-> k,
                      seed |-> TRUE, runner |-> "release-hermetic",
                      version |-> "semver", size |-> 1]
Ask(d, s, k) == [dir |-> d, stage |-> s, key |-> k]

\* Runs of two releases that share a checkout, one after the other.
RetryRequests == {Good(i1, d1, <<s1, s2>>, k1), Good(i1, d1, <<s2>>, k1),
                   Good(i2, d1, <<s2>>, k1)}
RetryInvocations == {Ask(d1, s2, k1)}
RunSymmetry == Permutations(Runs)

\* One release signed twice and checked meanwhile, from one checkout or two,
\* under the old key or the new, with documents of either length, and the
\* requests that the gates stop.
RaceRequests ==
  {Good(i1, d1, <<s1>>, k1),
   [Good(i1, d2, <<s1>>, k2) EXCEPT !.size = 2],
   [Good(i1, d1, <<s1>>, k1) EXCEPT !.seed = FALSE],
   [Good(i1, d1, <<s1>>, k1) EXCEPT !.runner = "other"]}
RaceInvocations == {Ask(d1, s1, k1), Ask(d2, s1, k1)}

=============================================================================

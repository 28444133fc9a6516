-------------------------- MODULE MCMutationFilter --------------------------
(* Model values and metadata settings for MutationFilter.                  *)
EXTENDS MutationFilter, TLC

CONSTANTS a1, a2, b1, b2

\* Every application has a metadata bucket of its own.
PrivateBuckets == (a1 :> b1) @@ (a2 :> b2)

\* Both name one bucket, as the two applications kept under go_eventing/apps do.
SharedBucket == (a1 :> b1) @@ (a2 :> b1)

\* Sound where the applications have one metadata bucket.
AppSymmetry == Permutations(Apps)
=============================================================================

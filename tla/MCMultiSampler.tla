--------------------------- MODULE MCMultiSampler ---------------------------
(* Instances of MultiSampler for TLC. No action and no property, those of   *)
(* SampleStream included, tells one pid from another or one thread from     *)
(* another; the runs that check liveness do not use the symmetry.           *)
EXTENDS MultiSampler, TLC

Symmetry == Permutations(Threads) \cup Permutations(Pids)
=============================================================================

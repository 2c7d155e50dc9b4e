---------------------------- MODULE MCProofOfWork ----------------------------
(* An instance of ProofOfWork for TLC. *)
EXTENDS ProofOfWork, TLC

CONSTANTS c1, c2, c3, c4, r1, r2, r3

\* The instance meets the hypothesis under which the way back is proved.
ASSUME LargeInitial

Symmetries == Permutations({c1, c2, c3, c4}) \cup Permutations({r1, r2, r3})
==============================================================================

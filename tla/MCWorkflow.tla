----------------------------- MODULE MCWorkflow -----------------------------
(* Instances of Workflow for TLC. *)
EXTENDS Workflow, TLC

\* The workflow compares fingerprints, versions and object ids for equality
\* only, so the values of each set can be exchanged.
FingerprintSymmetry == Permutations(Fingerprints)
Symmetry == FingerprintSymmetry \cup Permutations(Versions)
            \cup Permutations(Fields)
=============================================================================

----------------------------- MODULE MCSecrets -----------------------------
\* Instances of the secret stores for TLC.
EXTENDS Secrets, TLC

Symmetric == Permutations(Proc) \cup Permutations(Key)
=============================================================================

------------------------------- MODULE MCPool -------------------------------
\* Instances of the pool for TLC.  Callers and connection ids are
\* interchangeable in every safety property.
EXTENDS PoolProperties, TLC

Symmetric == Permutations(Caller) \cup Permutations(Id)
=============================================================================

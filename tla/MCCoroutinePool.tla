-------------------------- MODULE MCCoroutinePool --------------------------
EXTENDS CoroutinePool, TLC

Symmetry == Permutations(Jobs)
=============================================================================

----------------------------- MODULE MCAutomesh -----------------------------
EXTENDS Automesh, TLC

Symmetry == Permutations(Nodes)
=============================================================================

---------------------------- MODULE MCStateBranch ----------------------------
EXTENDS StateBranch, TLC

Symmetry == Permutations(Runs)
=============================================================================

--------------------------- MODULE MCParallelWalk ---------------------------
EXTENDS ParallelWalk, MCTrees, TLC

Workers == Permutations(Worker)

\* What the theorems of ParallelWalkProofs ask of a tree, every one of the runs has.
ASSUME RulesIgnoreNames == SameUnderEveryName

ASSUME ScansRunToTheEnd == NoScanIsCutShort
=============================================================================

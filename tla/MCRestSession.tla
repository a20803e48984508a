---------------------------- MODULE MCRestSession ----------------------------
EXTENDS RestSession, TLC

TaskSymmetry == Permutations(Task)

=============================================================================

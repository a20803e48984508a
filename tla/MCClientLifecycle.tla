-------------------------- MODULE MCClientLifecycle --------------------------
EXTENDS ClientLifecycle, TLC

ClientSymmetry == Permutations(Task) \cup Permutations(Market) \cup Permutations(Order) \cup Permutations(Token)

=============================================================================

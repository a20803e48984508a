----------------------- MODULE MCOrderResponseSession -----------------------
EXTENDS OrderResponseSession, TLC

Symmetry == Permutations(Task) \cup Permutations(Conn) \cup Permutations(Order)

=============================================================================

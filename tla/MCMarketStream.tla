--------------------------- MODULE MCMarketStream ---------------------------
EXTENDS MarketStream, TLC

Symmetry == Permutations(Task) \cup Permutations(Conn) \cup Permutations(Token)

=============================================================================

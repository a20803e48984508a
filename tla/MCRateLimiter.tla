---------------------------- MODULE MCRateLimiter ----------------------------
EXTENDS RateLimiter, TLC

TaskSymmetry == Permutations(Task)

=============================================================================

--------------------------- MODULE MCOrderRecovery ---------------------------
(* Instances of OrderRecovery for TLC. *)
EXTENDS OrderRecovery

SingleState == <<1>>

Symmetry == Permutations(Task) \cup Permutations(Request)
=============================================================================

-------------------------- MODULE MCOrderReconciler --------------------------
(* Instances of OrderReconciler for TLC. *)
EXTENDS OrderReconciler

\* Two states of an order share a time stamp, and one carries none.
TiedTimes == <<1, 2, 2>>
TiedOrUntimed == <<1, NoTime, 2, 2>>

TaskSymmetry == Permutations(Task)
=============================================================================

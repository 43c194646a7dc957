-------------------------- MODULE MCTaskLifecycle ---------------------------
(* TaskLifecycle for TLC: workers are interchangeable. *)
EXTENDS TaskLifecycle, TLC

WorkerSymmetry == Permutations(Workers)
=============================================================================

----------------------------- MODULE MCTTLCache -----------------------------
(* Instances of TTLCache for TLC. *)
EXTENDS TTLCache, TLC

CONSTANTS p1, p2, k1, k2, k3, found

TwoProcs == {p1, p2}
OneKey == {k1}
ThreeKeys == {k1, k2, k3}
OnePayload == {found}

\* Goroutines are interchangeable.
ProcSymmetry == Permutations(Procs)
=============================================================================

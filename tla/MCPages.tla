------------------------------- MODULE MCPages -------------------------------
(* Pages, and the caches under them, for TLC. *)
EXTENDS Pages, TLC

CONSTANTS g1, g2, k1

TwoProcs == {g1, g2}
OneKey == {k1}
AllKinds == {"quote", "profile", "dns"}

\* The defaults, in their order: quotes live shorter than their failures,
\* profiles longer, and "not found" outlives both.
Ok == [quote |-> 1, profile |-> 2, dns |-> 1]
Fail == [quote |-> 2, profile |-> 1, dns |-> 1]
Gone == [quote |-> 3, profile |-> 3, dns |-> 3]

\* Quotes of a closed market are shown longer than they are kept, so are users;
\* a DNS page is kept as long as the least of its records at the most.
Ages == [quote |-> {1, 2}, profile |-> {1, 3}, dns |-> {2}]

ProcSymmetry == Permutations(Procs)
=============================================================================

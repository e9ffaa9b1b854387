----------------------------- MODULE MCSnapshot -----------------------------
(* Instances of Snapshot for TLC. *)
EXTENDS Snapshot

CONSTANTS k1

OneCache == <<"t86">>
TwoCaches == <<"t86", "vix">>
OneKey == {k1}
=============================================================================

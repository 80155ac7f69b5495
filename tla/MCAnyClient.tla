----------------------------- MODULE MCAnyClient -----------------------------
(* The relying party against arbitrary clients, for TLC.                    *)
EXTENDS AnyClient, TLC

CONSTANTS a, b, c1, c2, good, bad, site, other

Symmetry == Permutations(Clients)
=============================================================================

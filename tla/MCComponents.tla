---------------------------- MODULE MCComponents ----------------------------
(* Instance of Components for TLC; the sizes are in components.cfg.          *)
EXTENDS Components, TLC

CONSTANTS p1, p2,      \* commands on the chain, one of which may die
          v1, v2, v3,  \* models, for a cache of two
          low, high, high2

\* Two rates, one of them the sink's; two voices of the other.
Rates == [v \in {low, high, high2} |-> IF v = low THEN 40 ELSE 48]

Interchangeable == Permutations({p1, p2}) \cup Permutations({v1, v2, v3})
=============================================================================

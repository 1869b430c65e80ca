-------------------------------- MODULE Sums --------------------------------
(***************************************************************************)
(* Sums over the keys of a map of counters, as the code's loops add them   *)
(* up (internal/aggregate).                                                *)
(***************************************************************************)
EXTENDS Integers, FiniteSets

\* The sum of a function's values, as a number of pairs.
Total(f) == Cardinality(UNION {{t} \X (1..f[t]) : t \in DOMAIN f})
=============================================================================

--------------------------------- MODULE Sums ---------------------------------
(* The sum of a sequence of numbers, for costs, prices and histories.      *)
EXTENDS Integers, Sequences

Total(f) ==
    LET sum[i \in 0 .. Len(f)] == IF i = 0 THEN 0 ELSE sum[i - 1] + f[i]
    IN  sum[Len(f)]
=============================================================================

-------------------------------- MODULE Sums --------------------------------
(* Sums over a list, for the distribution and for the status.              *)
EXTENDS Naturals

\* The running sums of f[1], ..., f[n], from 0.
RunningSum(f, n) ==
    LET sum[k \in 0 .. n] == IF k = 0 THEN 0 ELSE sum[k - 1] + f[k]
    IN  sum
=============================================================================

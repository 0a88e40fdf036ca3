-------------------------------- MODULE Sums --------------------------------
(* Totals of amounts that are indexed 1 .. n, the way SUM() totals a column. *)
EXTENDS Integers

\* f[1] + ... + f[n]
SumTo(f, n) ==
    LET s[i \in 0 .. n] == IF i = 0 THEN 0 ELSE s[i - 1] + f[i]
    IN  s[n]
=============================================================================

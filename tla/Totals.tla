------------------------------- MODULE Totals -------------------------------
(* The sum of a function over a finite set.                                *)
EXTENDS FiniteSetsExt

Total(f, S) == MapThenSumSet(LAMBDA x : f[x], S)

=============================================================================

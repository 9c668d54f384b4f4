------------------------------ MODULE FunSums ------------------------------
(***************************************************************************)
(* Sums of the values of an integer function, over 1 .. n and over finite  *)
(* sets.  The contracts never compute such a sum: they keep a counter (the *)
(* supply of a token, the totals of the REX pool, the totals of the votes) *)
(* and adjust it at every operation.  The sums are what the counters are   *)
(* compared with.                                                          *)
(*                                                                         *)
(* The partial sums are a recursive function, not a recursive operator, so *)
(* that theorems can be stated about them (module FunSumsProofs).          *)
(***************************************************************************)
EXTENDS Integers, Folds

\* <<0, f[1], f[1] + f[2], ...>> as a function on 0 .. n
PrefixSums(f, n) ==
    LET p[i \in 0 .. n] == IF i = 0 THEN 0 ELSE p[i - 1] + f[i] IN p

\* f[1] + ... + f[n]
SumTo(f, n) == PrefixSums(f, n)[n]

\* the sum of f over a finite set
SumOver(f, S) ==
    MapThenFoldSet(LAMBDA x, y : x + y, 0, LAMBDA x : f[x], LAMBDA T : CHOOSE x \in T : TRUE, S)
============================================================================

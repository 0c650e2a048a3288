------------------------------- MODULE Powers -------------------------------
(***************************************************************************)
(* Powers of a natural number, by recursion: the weights of a byte at its  *)
(* places in a number.  (The provers know nothing of the operator of       *)
(* Naturals.)                                                              *)
(***************************************************************************)
EXTENDS Naturals

Pow(b, n) == LET p[k \in Nat] == IF k = 0 THEN 1 ELSE b * p[k - 1] IN p[n]
=============================================================================

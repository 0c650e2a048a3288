--------------------------- MODULE MCShareSession ---------------------------
(* An instance of ShareSession: a pool whose connections differ in both      *)
(* things it assigns to them.                                                 *)
EXTENDS ShareSession, TLC

MCEn1   == [c \in Conns |-> <<c % Base>>]
MCWidth == [c \in Conns |-> c]
\* The workers differ in nothing but their share of the nonces.
Symmetry == Permutations(Workers)
=============================================================================

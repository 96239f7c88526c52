---------------------------- MODULE MCRegistration ----------------------------
(***************************************************************************)
(* A small instance of Registration for TLC: one node that tries twice and   *)
(* another that tries once.                                                  *)
(***************************************************************************)
EXTENDS Registration, TLC

CONSTANTS a1, a2, a3, k1, k2, s1, s2, b0, b1

\* Sessions and bits may be exchanged.
Symmetric == Permutations({s1, s2}) \cup Permutations({b0, b1})

TwoNodes == (a1 :> k1) @@ (a2 :> k1) @@ (a3 :> k2)
==============================================================================

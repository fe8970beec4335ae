------------------------------ MODULE MCIdent -------------------------------
(* Model values and small instances of Ident for TLC.                      *)
EXTENDS Ident, TLC

CONSTANTS a1, a2, a3, p1, p2, p3, i1, i2

(* Two proofs that begin with the same 16 characters, and another one.     *)
SharedPrefix == p1 :> i1 @@ p2 :> i1 @@ p3 :> i2

Symmetric == Permutations(Addresses) \cup Permutations({p1, p2})
=============================================================================

--------------------------- MODULE MCAccountStore ---------------------------
(* Small instances of AccountStore for TLC. *)
EXTENDS AccountStore

CONSTANTS ann, bob, a1, a2, a3, m1, m2, pw1, pw2, noPw, gone, p1, p2
=============================================================================

----------------------------- MODULE MCSessions -----------------------------
(***************************************************************************)
(* Sessions with two requests at once and a guest whose claims run out.    *)
(***************************************************************************)
EXTENDS Sessions, TLC

MCClaims == [c \in Jwt |-> [genuine |-> TRUE, exp |-> 1, sub |-> c, scopes |-> {"read"}]]

Interchangeable == Permutations(Request)
=============================================================================

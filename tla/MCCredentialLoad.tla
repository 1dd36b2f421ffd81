-------------------------- MODULE MCCredentialLoad --------------------------
(***************************************************************************)
(* Two auth files; two logins of one user and one of another.              *)
(***************************************************************************)
EXTENDS CredentialLoad, TLC

CONSTANTS u1, u2, s1, s2, s3

MCUsers == {u1, u2}
MCSessions == {s1, s2, s3}
MCOwner == (s1 :> u1) @@ (s2 :> u1) @@ (s3 :> u2)
MCFiles == <<"one", "two">>
OneFile == <<"one">>

OneLifetime == {3}
TwoLifetimes == {1, 3}

Symmetry == Permutations({s1, s2})
=============================================================================

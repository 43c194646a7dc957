------------------------------ MODULE MCAccounts ------------------------------
(* A small plant: two usernames, one of them a seed, and two roles.        *)
EXTENDS Accounts, TLC

CONSTANTS u1, u2, u3, ann, bob, administrator, operator, i1, q1, r1, r2, t1, t2

MCIds == {u1, u2}
MCNames == {ann, bob}
MCSeeds == {ann}
MCRoles == {administrator, operator}
MCAdministering == {administrator}

Symmetric == Permutations({u1, u2}) \cup Permutations({t1, t2}) \cup Permutations({r1, r2})
===============================================================================

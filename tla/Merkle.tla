------------------------------- MODULE Merkle --------------------------------
(***************************************************************************)
(* The Merkle tree over event hashes (proof/merkle.py).  SHA-256 is taken  *)
(* to have no collisions: a node is the term that was hashed, leaves and   *)
(* inner nodes with prefixes of their own.                                 *)
(***************************************************************************)
EXTENDS Integers, Sequences

EmptyRoot  == <<"empty">>
Leaf(hash) == <<"leaf", hash>>
Node(l, r) == <<"node", l, r>>

(* The largest power of two below n, for n > 1. *)
Split(n) ==
    LET powers == {k \in 1..(n - 1) : \E e \in 0..n : k = 2^e}
    IN  CHOOSE k \in powers : \A other \in powers : other <= k

(* The root of each run of n neighbouring leaves, by the place of the first. *)
Roots(hashes) ==
    LET root[n \in Nat] ==
            [lo \in Nat |-> IF n <= 1 THEN Leaf(hashes[lo])
                            ELSE Node(root[Split(n)][lo], root[n - Split(n)][lo + Split(n)])]
    IN  root

MerkleRoot(hashes) ==
    IF hashes = <<>> THEN EmptyRoot ELSE Roots(hashes)[Len(hashes)][1]

(* The siblings on the way from a leaf up to the root, with their sides. *)
Paths(hashes, index) ==
    LET walk[n \in Nat] ==
            [lo \in Nat |->
                IF n <= 1 THEN <<>>
                ELSE IF index < lo + Split(n)
                     THEN Append(walk[Split(n)][lo],
                                 <<"right", Roots(hashes)[n - Split(n)][lo + Split(n)]>>)
                     ELSE Append(walk[n - Split(n)][lo + Split(n)],
                                 <<"left", Roots(hashes)[Split(n)][lo]>>)]
    IN  walk

InclusionProof(hashes, index) == Paths(hashes, index)[Len(hashes)][1]

(* What is reached from a leaf after so many steps of a path. *)
Climbed(hash, path) ==
    LET up[k \in Nat] ==
            IF k = 0 THEN Leaf(hash)
            ELSE IF path[k][1] = "left" THEN Node(path[k][2], up[k - 1])
                                        ELSE Node(up[k - 1], path[k][2])
    IN  up

VerifyInclusion(hash, path, root) == Climbed(hash, path)[Len(path)] = root
=============================================================================

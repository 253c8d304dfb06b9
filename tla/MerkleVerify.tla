---------------------------- MODULE MerkleVerify ----------------------------
(***************************************************************************)
(* The loop of compute_merkle_root in crates/shred/src/lib.rs, run on a    *)
(* leaf, an index and a proof that need not belong together: the leader's  *)
(* tree has `size' leaves, the proof is the one of leaf `owner', and the   *)
(* shred says that it is number `claimed'.                                 *)
(***************************************************************************)
EXTENDS Merkle

CONSTANT MaxLeaves      \* bound on the size of a tree (64 in the code)

ASSUME MaxLeavesAssumption == MaxLeaves \in Nat \ {0}

VARIABLES size, owner, content, claimed, index, node, proof, verdict

merkle_vars == <<size, owner, content, claimed, index, node, proof, verdict>>

\* The header of a shred is hashed with it, so the leaves are distinct.
leaves_of(n) == [j \in 1 .. n |-> Leaf(j - 1)]

Foreign == -1       \* a content that is in no tree

MerkleInit ==
    /\ size \in 1 .. MaxLeaves
    /\ owner \in 0 .. size - 1
    /\ content \in (0 .. size - 1) \cup {Foreign}
    /\ claimed \in 0 .. 2 * MaxLeaves
    /\ index = claimed
    /\ node = Leaf(content)
    /\ proof = merkle_proof(build_tree(leaves_of(size)), owner)
    /\ verdict = "none"

\* One iteration: the parity of the index says on which side the sibling is.
Fold ==
    /\ verdict = "none"
    /\ proof # <<>>
    /\ node' = IF index % 2 = 0
               THEN Node(Trunc(node), Head(proof))
               ELSE Node(Head(proof), Trunc(node))
    /\ index' = index \div 2
    /\ proof' = Tail(proof)
    /\ UNCHANGED <<size, owner, content, claimed, verdict>>

\* Mutant: the index may have bits left.
Mutant_NoIndexCheck ==
    /\ verdict = "none"
    /\ proof = <<>>
    /\ verdict' = "root"
    /\ UNCHANGED <<size, owner, content, claimed, index, node, proof>>

\* After the loop: the index must be used up.
Finish ==
    /\ verdict = "none"
    /\ proof = <<>>
    /\ verdict' = IF index # 0 THEN "mismatch" ELSE "root"
    /\ UNCHANGED <<size, owner, content, claimed, index, node, proof>>

MerkleNext == Fold \/ Finish

MerkleSpec == MerkleInit /\ [][MerkleNext]_merkle_vars

-----------------------------------------------------------------------------
\* 2 to the power h.
powers[h \in Nat] == IF h = 0 THEN 1 ELSE 2 * powers[h - 1]

\* The shred folds to the root the leader signed.
verifies == verdict = "root" /\ node = build_tree(leaves_of(size)).root

(***************************************************************************)
(* Proof and position are bound to each other: a shred with its own index  *)
(* and proof folds to the signed root for every size of the set, also      *)
(* where a layer has an odd number of nodes; a shred that verifies under   *)
(* an index of the set is the one the leader put there; and in a set whose *)
(* size is a power of two no index past the end verifies at all.           *)
(***************************************************************************)
PositionBound ==
    /\ verdict # "none" /\ content = owner /\ claimed = owner => verifies
    /\ verifies =>
          /\ claimed < size => content = claimed
          /\ (\E h \in 0 .. MaxLeaves : size = powers[h]) => claimed < size

=============================================================================

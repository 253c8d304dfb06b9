------------------------------- MODULE Merkle -------------------------------
(***************************************************************************)
(* The Merkle trees of crates/shred (build_tree and merkle_proof on the    *)
(* leader's side, compute_merkle_root on the listener's) and of            *)
(* aggregate_root in crates/listener, over symbolic hashes: a hash is the  *)
(* term it was computed from, so two hashes are equal iff their inputs are.*)
(***************************************************************************)
EXTENDS Integers, SequencesExt

\* SHA-256 under the two domain prefixes; children are cut to 20 bytes.
Leaf(x)    == <<"leaf", x>>
Trunc(h)   == <<"trunc", h>>
Node(l, r) == <<"node", l, r>>

\* Mutant: an odd node at the end of a layer is lost.
Mutant_DropOdd(layer) ==
    [j \in 1 .. Len(layer) \div 2 |-> Node(Trunc(layer[2*j - 1]), Trunc(layer[2*j]))]

\* The next layer: neighbours are paired, an odd node at the end with itself.
next_layer(layer) ==
    [j \in 1 .. (Len(layer) + 1) \div 2 |->
        LET a == layer[2*j - 1]
            b == IF 2*j <= Len(layer) THEN layer[2*j] ELSE a
        IN  Node(Trunc(a), Trunc(b))]

\* Layer n above the leaves.
layers(leaves) ==
    LET layer[n \in Nat] == IF n = 0 THEN leaves ELSE next_layer(layer[n - 1])
    IN  layer

\* The first layer that has no more than one node.
height(leaves) ==
    CHOOSE h \in 0 .. Len(leaves) :
        /\ Len(layers(leaves)[h]) <= 1
        /\ \A g \in 0 .. h - 1 : Len(layers(leaves)[g]) > 1

build_levels(leaves) == [n \in 1 .. height(leaves) + 1 |-> layers(leaves)[n - 1]]

build_tree(leaves) ==
    LET levels == build_levels(leaves)
    IN  [levels |-> levels, root |-> Last(levels)[1]]

ZeroRoot == <<"zero">>

\* The ladder of aggregate_root is the one of build_tree.
aggregate_root(roots) == IF roots = <<>> THEN ZeroRoot ELSE Last(build_levels(roots))[1]

\* index ^ 1
sibling_of(i) == IF i % 2 = 0 THEN i + 1 ELSE i - 1

\* Where the path from leaf `index' (from 0) is in layer n.
path(index) ==
    LET place[n \in Nat] == IF n = 0 THEN index ELSE place[n - 1] \div 2
    IN  place

\* Siblings of the path from leaf `index' up; an absent one is the last node.
merkle_proof(tree, index) ==
    [n \in 1 .. Len(tree.levels) - 1 |->
        LET level   == tree.levels[n]
            sibling == sibling_of(path(index)[n - 1])
        IN  Trunc(IF sibling < Len(level) THEN level[sibling + 1] ELSE Last(level))]

=============================================================================

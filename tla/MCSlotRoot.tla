----------------------------- MODULE MCSlotRoot -----------------------------
(***************************************************************************)
(* FEC roots for SlotRoot: four roots of trees of two leaves, and the node *)
(* over two of them, which is the root of a tree of four leaves.           *)
(***************************************************************************)
EXTENDS SlotRoot

MCRoot(n)  == Node(Trunc(Leaf(2*n)), Trunc(Leaf(2*n + 1)))
MCSetRoots == {MCRoot(n) : n \in 1 .. 4} \cup {Node(Trunc(MCRoot(1)), Trunc(MCRoot(2)))}

=============================================================================

------------------------------ MODULE SlotRoot ------------------------------
(***************************************************************************)
(* The slot_root of SlotFinalized, computed by two listeners whose lists   *)
(* of FEC roots grow independently, as the sets each of them saw differ.   *)
(* No list holds a root twice: a root covers the fec_set_index of its set. *)
(* A FEC root is the hash at the top of its own tree, under the NODE       *)
(* prefix that the ladder over the roots uses too.                         *)
(***************************************************************************)
EXTENDS Merkle

CONSTANT SetRoots       \* the roots of the FEC sets of the slot

VARIABLES mine, theirs

slot_root_vars == <<mine, theirs>>

SlotRootInit == mine = <<>> /\ theirs = <<>>

\* fec_roots.push
extended(list) == {Append(list, root) : root \in SetRoots \ Range(list)}

SlotRootNext ==
    \/ mine' \in extended(mine) /\ UNCHANGED theirs
    \/ theirs' \in extended(theirs) /\ UNCHANGED mine

SlotRootSpec == SlotRootInit /\ [][SlotRootNext]_slot_root_vars

\* The event always covers a set: the marked one.
agree == mine # <<>> /\ theirs # <<>> /\ aggregate_root(mine) = aggregate_root(theirs)

(***************************************************************************)
(* Listeners that agree on slot_root, with ladders of the same height (as  *)
(* all lists of one length have, and lists of 3 and 4 roots, or 5 to 8),   *)
(* agree on every FEC root and on their order: the odd node that is paired *)
(* with itself is never taken for two roots.                               *)
(***************************************************************************)
SlotRootBinding == agree /\ height(mine) = height(theirs) => mine = theirs

(***************************************************************************)
(* "A 2-KiB witness commits to the entire slot" (lib.rs:60-61): listeners  *)
(* that agree on slot_root agree on the list.  The ladder hashes neither   *)
(* the number of roots nor the layer, so it does not hold when a FEC root  *)
(* is the node over two others.                                            *)
(***************************************************************************)
SlotRootCommits == agree => mine = theirs

=============================================================================

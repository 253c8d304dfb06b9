------------------------------- MODULE FecSet -------------------------------
(***************************************************************************)
(* build_fec_set of crates/shred/src/fec_set.rs: the leader's side.  The   *)
(* payload fits in the set (the function refuses a longer one), and only   *)
(* its Merkle root is kept of it; module Merkle has the tree.              *)
(***************************************************************************)
EXTENDS Shred, Sequences

\* The parameters that a listener can tell apart.
FecSetParams ==
    [slot : Slots, fec_set_index : FecSetIndices, last : BOOLEAN,
     merkle_root : MerkleRoots, signing_key : Pubkeys]

\* A variant byte counts at most fifteen proof entries, and a shred's place in
\* its set is a u32.
ASSUME SetSizeAssumption == SHREDS_PER_FEC <= 2 ^ 15 /\ SHREDS_PER_FEC <= U32

\* Entries of a proof in a tree of SHREDS_PER_FEC leaves, PROOF_ENTRIES_FOR_32_32.
PROOF_ENTRIES ==
    CHOOSE h \in 0 .. 15 : 2 ^ h >= SHREDS_PER_FEC /\ \A g \in 0 .. h - 1 : 2 ^ g < SHREDS_PER_FEC

header(p, kind, index) ==
    [wellformed |-> TRUE, slot |-> p.slot, kind |-> kind, index |-> index,
     fec_set_index |-> p.fec_set_index, proof_size |-> PROOF_ENTRIES,
     merkle_root |-> p.merkle_root, signer |-> p.signing_key, last_flag |-> FALSE]

\* Mutant: data shreds are numbered from 0 in every set.
Mutant_IndexFromZero(p, i) ==
    [header(p, "Data", i) EXCEPT !.last_flag = p.last]

\* Data shred i of the set; params.flags goes into every data shred.
data_shred(p, i) ==
    [header(p, "Data", p.fec_set_index + i) EXCEPT !.last_flag = p.last]

\* Coding shred j of the set; its place in the set is its position field.
code_shred(p, j) == header(p, "Code", j)

\* The data shreds and then the coding shreds, all under one signed root.
build_fec_set(p) ==
    [n \in 1 .. SHREDS_PER_FEC |->
        IF n <= DATA_SHREDS_PER_FEC
        THEN data_shred(p, n - 1)
        ELSE code_shred(p, n - 1 - DATA_SHREDS_PER_FEC)]

=============================================================================

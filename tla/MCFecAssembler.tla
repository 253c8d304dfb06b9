--------------------------- MODULE MCFecAssembler ---------------------------
(***************************************************************************)
(* Small instances of FecAssembler: FEC sets of 2 data and 2 coding shreds *)
(* (32 and 32 in the code), so a Merkle proof has 2 entries, and a slot of *)
(* two or three FEC sets starting at shreds 0, 2 and 4.                    *)
(***************************************************************************)
EXTENDS FecAssemblerRefinement

\* The keys and roots of the instances; a value outside them is "None".
MCPubkeys == {"leader", "stranger"}
MCRoots   == {"a", "b", "c", "x"}
MCLeader  == [s \in Slots |-> "leader"]

shred(s, kind, index, fec, root, last) ==
    [wellformed |-> TRUE, slot |-> s, kind |-> kind, index |-> index,
     fec_set_index |-> fec, proof_size |-> 2, merkle_root |-> root,
     signer |-> "leader", last_flag |-> last]

\* The four shreds of the set of slot s that starts at index fec.
fec_set(s, fec, root, last) ==
    {shred(s, "Data", fec, fec, root, FALSE),
     shred(s, "Data", fec + 1, fec, root, last),
     shred(s, "Code", 0, fec, root, FALSE),
     shred(s, "Code", 1, fec, root, FALSE)}

\* The block of slot s as an honest leader sends it, cut into two or three sets.
two_sets(s)   == fec_set(s, 0, "a", FALSE) \cup fec_set(s, 2, "b", TRUE)
three_sets(s) == fec_set(s, 0, "a", FALSE) \cup fec_set(s, 2, "b", FALSE)
                     \cup fec_set(s, 4, "c", TRUE)

(***************************************************************************)
(* Datagrams that are no part of the block: one that does not parse, one   *)
(* signed by another key, an index below the start of its set (it wraps),  *)
(* an index past the end of the set under a short and under a long proof.  *)
(***************************************************************************)
out_of_range(s) == [shred(s, "Code", 3, 2, "b", FALSE) EXCEPT !.proof_size = 3]

noise(s) ==
    {[shred(s, "Data", 0, 0, "a", TRUE) EXCEPT !.wellformed = FALSE],
     [shred(s, "Data", 1, 0, "x", TRUE) EXCEPT !.signer = "stranger"],
     shred(s, "Data", 1, 2, "b", TRUE),
     shred(s, "Code", 3, 0, "a", FALSE),
     out_of_range(s)}

\* A second block the leader signed for the same slot, ending with set fec.
equivocation(s, fec) ==
    {shred(s, "Data", fec, fec, "x", FALSE), shred(s, "Data", fec + 1, fec, "x", TRUE)}

MCHonest == UNION {two_sets(s) : s \in Slots}

MCSigned == UNION {two_sets(s) \cup equivocation(s, 0) \cup {out_of_range(s)} : s \in Slots}

MCAll == UNION {three_sets(s) \cup noise(s) \cup equivocation(s, 2) : s \in Slots}

\* Slot 1 as in MCSigned with a coding shred less per set; slot 2 has one set,
\* with an index and a root of slot 1.
MCTwoSlots ==
    {d \in two_sets(1) : d.kind = "Data" \/ d.index = 0}
        \cup equivocation(1, 0) \cup {out_of_range(1)}
        \cup {shred(2, "Data", 2, 2, "b", TRUE), shred(2, "Code", 1, 2, "b", FALSE)}

=============================================================================

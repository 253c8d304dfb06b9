----------------------- MODULE FecAssemblerRefinement -----------------------
(***************************************************************************)
(* The assembler implements SlotAttestation.                               *)
(***************************************************************************)
EXTENDS FecAssembler

committed_roots == [k \in FecKey |-> states[k].merkle_root]

recovered == {k \in FecKey : states[k].reconstructed}

Attestation == INSTANCE SlotAttestation
    WITH root      <- committed_roots,
         available <- recovered,
         attested  <- finalizations

(***************************************************************************)
(* Every ingest is a step of SlotAttestation or leaves its view alone: a   *)
(* root is committed once, a set is recovered once and after its root, and *)
(* the one SlotFinalized of a slot lists recovered sets under their roots. *)
(***************************************************************************)
Implements == Attestation!Spec

=============================================================================

------------------------------- MODULE MCDemo -------------------------------
(***************************************************************************)
(* The demos with sets of eight data and eight coding shreds.              *)
(***************************************************************************)
EXTENDS Demo

params(fec, root, last) ==
    [slot |-> slot, fec_set_index |-> fec, last |-> last,
     merkle_root |-> root, signing_key |-> "leader"]

MCSetA      == params(0, "a", FALSE)
MCSetB      == params(DATA_SHREDS_PER_FEC, "b", TRUE)
MCLeader    == [s \in Slots |-> "leader"]
MCDatagrams == {build_fec_set(p)[n] : p \in {MCSetA, MCSetB}, n \in 1 .. SHREDS_PER_FEC}

=============================================================================

---------------------------- MODULE SlotVerifier ----------------------------
(***************************************************************************)
(* verify_slot_delta of crates/attest/src/lib.rs: does the attested delta  *)
(* agree with a list of claimed account transitions?                       *)
(***************************************************************************)
EXTENDS LtHash, SequencesExt

Option == AccountForHash \cup {NoAccount}

AccountTransition == [old : Option, new : Option]

\* Mutant: only the new side of a transition is summed up.
Mutant_NewSideOnly(ts) ==
    FoldLeft(LAMBDA h, t : IF t.new = NoAccount THEN h ELSE mix_in(h, hash_account(t.new)),
             identity, ts)

\* The sum of h(new) - h(old) over the list.
recompute(ts) == FoldLeft(LAMBDA h, t : mix(h, t.old, t.new), identity, ts)

\* The checks in their order; `intact' says that the limb count is right.
verify_slot_delta(intact, attested, ts) ==
    IF ~intact THEN "MalformedDelta"
    ELSE IF \E n \in DOMAIN ts : ts[n].old = NoAccount /\ ts[n].new = NoAccount
    THEN "EmptyTransition"
    ELSE IF recompute(ts) = attested THEN "Ok" ELSE "DeltaMismatch"

=============================================================================

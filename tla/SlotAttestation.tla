-------------------------- MODULE SlotAttestation --------------------------
(***************************************************************************)
(* What a consumer of the assembler may rely on, with no shreds in sight.  *)
(* For every FEC set the assembler commits to one root, once; a committed  *)
(* set may become available; a slot is attested at most once, by the roots *)
(* of one or more of its available sets.  The set that becomes available   *)
(* may be the one an attestation was waiting for: both happen in one step. *)
(***************************************************************************)
EXTENDS Sequences

CONSTANTS Slots, FecSetIndices, MerkleRoots, NoRoot

VARIABLES
    root,           \* the root a set is committed to, or NoRoot
    available,      \* the sets whose content can be produced
    attested        \* per slot, the attestations given (none or one)

avars == <<root, available, attested>>

Key == Slots \X FecSetIndices

Init ==
    /\ root = [k \in Key |-> NoRoot]
    /\ available = {}
    /\ attested = [s \in Slots |-> <<>>]

\* An attestation of slot s covering the sets S, all of them in `avail'.
AttestIn(s, S, avail) ==
    /\ attested[s] = <<>>
    /\ S # {}
    /\ \A i \in S : <<s, i>> \in avail
    /\ attested' = [attested EXCEPT ![s] = Append(@, [i \in S |-> root[<<s, i>>]])]

Commit(k, r) ==
    /\ root[k] = NoRoot
    /\ root' = [root EXCEPT ![k] = r]
    /\ UNCHANGED <<available, attested>>

Recover(k) ==
    /\ root[k] # NoRoot
    /\ k \notin available
    /\ available' = available \cup {k}
    /\ \/ UNCHANGED attested
       \/ \E S \in SUBSET FecSetIndices : AttestIn(k[1], S, available')
    /\ UNCHANGED root

Attest(s) ==
    /\ \E S \in SUBSET FecSetIndices : AttestIn(s, S, available)
    /\ UNCHANGED <<root, available>>

Next ==
    \/ \E k \in Key : Recover(k) \/ \E r \in MerkleRoots : Commit(k, r)
    \/ \E s \in Slots : Attest(s)

Spec == Init /\ [][Next]_avars

=============================================================================

------------------------------- MODULE LtHash -------------------------------
(***************************************************************************)
(* The lattice hash of crates/lthash/src/lib.rs.                           *)
(*                                                                         *)
(* The hash of an account is 1024 limbs of Blake3 output, added limb by    *)
(* limb modulo 2^16.  The hashes of different accounts are taken to be     *)
(* independent, which is what Blake3's collision resistance gives, so a    *)
(* sum of hashes is known by how often each account state occurs in it,    *)
(* modulo 2^16: a hash here is that function.                              *)
(***************************************************************************)
EXTENDS Integers

CONSTANTS
    AccountKeys,    \* the pubkeys of the accounts
    AccountForHash, \* the account states: pubkey, lamports, and all the rest
    NoAccount,      \* the None of Option<AccountForHash>
    LIMB            \* modulus of a limb, 2^16 in the code

ASSUME LimbAssumption == LIMB \in Nat \ {0, 1}
ASSUME AccountAssumption ==
    \A a \in AccountForHash : a.pubkey \in AccountKeys /\ a.lamports \in Nat
ASSUME NoAccountAssumption == NoAccount \notin AccountForHash

identity == [a \in AccountForHash |-> 0]

mix_in(h, other)  == [a \in AccountForHash |-> (h[a] + other[a]) % LIMB]

mix_out(h, other) == [a \in AccountForHash |-> (h[a] - other[a]) % LIMB]

\* Mutant: the data of the account is not hashed.
Mutant_IgnoresContent(acct) ==
    IF acct.lamports = 0
    THEN identity
    ELSE [a \in AccountForHash |->
            IF a.pubkey = acct.pubkey /\ a.lamports = acct.lamports THEN 1 ELSE 0]

\* A tombstone does not count.
hash_account(acct) ==
    IF acct.lamports = 0
    THEN identity
    ELSE [a \in AccountForHash |-> IF a = acct THEN 1 ELSE 0]

\* Mutant: the old state of a closed account is not taken out.
Mutant_KeepsClosed(delta, old, new) ==
    IF old # NoAccount /\ new # NoAccount
    THEN mix_in(mix_out(delta, hash_account(old)), hash_account(new))
    ELSE IF new # NoAccount THEN mix_in(delta, hash_account(new)) ELSE delta

\* SlotDelta::mix: the old state, if any, is taken out and the new one put in.
mix(delta, old, new) ==
    LET out == IF old = NoAccount THEN delta ELSE mix_out(delta, hash_account(old))
    IN  IF new = NoAccount THEN out ELSE mix_in(out, hash_account(new))

=============================================================================

------------------------------- MODULE Attest -------------------------------
(***************************************************************************)
(* crates/attest/src/lib.rs and its browser wrapper in crates/wasm-verify: *)
(* an observer of a slot mixes every account change into a SlotDelta and   *)
(* publishes it; a verifier is handed that attestation and a list of       *)
(* claimed transitions, and decides whether the two agree.                 *)
(***************************************************************************)
EXTENDS SlotVerifier, FiniteSets

CONSTANTS
    Starts,         \* the account sets a slot may start from
    MaxChanges,     \* bound on the changes of a slot
    MaxClaims       \* bound on the length of a claimed transition list

VARIABLES
    start,          \* the accounts before the slot
    accounts,       \* the accounts now
    log,            \* the transitions of the slot, in order
    delta,          \* SlotDelta.delta
    attestation,    \* delta_lthash as the verifier gets it
    claims,         \* the transitions handed to the verifier
    verdict,        \* what the verifier returned
    exit            \* of the verify-slot command

vars == <<start, accounts, log, delta, attestation, claims, verdict, exit>>

\* The states account p can be in; one that does not exist is NoAccount.
states_of(p) == {a \in AccountForHash : a.pubkey = p} \cup {NoAccount}

ASSUME AccountKeysAssumption == IsFiniteSet(AccountKeys)
ASSUME StartsAssumption ==
    /\ Starts \subseteq [AccountKeys -> Option]
    /\ \A f \in Starts : \A p \in AccountKeys : f[p] \in states_of(p)

Init ==
    /\ start \in Starts
    /\ accounts = start
    /\ log = <<>>
    /\ delta = identity
    /\ attestation = "none"
    /\ claims = <<>>
    /\ verdict = "none"
    /\ exit = "none"

\* An account is created, modified or closed in the slot.
Change(p, new) ==
    /\ attestation = "none"
    /\ Len(log) < MaxChanges
    /\ accounts[p] # NoAccount \/ new # NoAccount
    /\ accounts' = [accounts EXCEPT ![p] = new]
    /\ log' = Append(log, [old |-> accounts[p], new |-> new])
    /\ delta' = mix(delta, accounts[p], new)
    /\ UNCHANGED <<start, attestation, claims, verdict, exit>>

\* Attestation::from_delta; on its way the limb list may lose its length.
Publish(intact) ==
    /\ attestation = "none"
    /\ attestation' = IF intact THEN "delta" ELSE "malformed"
    /\ UNCHANGED <<start, accounts, log, delta, claims, verdict, exit>>

-----------------------------------------------------------------------------
Verify(ts) ==
    /\ attestation # "none"
    /\ verdict = "none"
    /\ claims' = ts
    /\ verdict' = verify_slot_delta(attestation = "delta", delta, ts)
    /\ UNCHANGED <<start, accounts, log, delta, attestation, exit>>

\* verifySlotDelta refuses an account whose owner or pubkey is not 32 bytes.
VerifyJs(ts, convertible) ==
    /\ attestation # "none"
    /\ verdict = "none"
    /\ claims' = ts
    /\ verdict' = IF convertible THEN verify_slot_delta(attestation = "delta", delta, ts) ELSE "ParseError"
    /\ UNCHANGED <<start, accounts, log, delta, attestation, exit>>

(***************************************************************************)
(* The verify-slot command of crates/cli/src/main.rs: the true transitions *)
(* with "ok", and with "tamper" another content in one new state.  The     *)
(* three accounts of the command are the changes of the slot here.         *)
(***************************************************************************)
tampered ==
    UNION {{[log EXCEPT ![n] = [@ EXCEPT !.new = a]] :
              a \in {b \in AccountForHash : b # log[n].new
                                            /\ b.pubkey = log[n].new.pubkey
                                            /\ b.lamports = log[n].new.lamports
                                            /\ b.lamports > 0}} :
           n \in {m \in DOMAIN log : log[m].new # NoAccount}}

CmdVerifySlot(ts) ==
    /\ attestation = "delta"
    /\ verdict = "none"
    /\ claims' = ts
    /\ verdict' = verify_slot_delta(TRUE, delta, ts)
    /\ exit' = CASE verdict' = "Ok" -> "SUCCESS"
                 [] verdict' = "DeltaMismatch" -> "2"
                 [] OTHER -> "FAILURE"
    /\ UNCHANGED <<start, accounts, log, delta, attestation>>

Next ==
    \/ \E p \in AccountKeys : \E new \in states_of(p) : Change(p, new)
    \/ \E intact \in BOOLEAN : Publish(intact)
    \/ \E n \in 0 .. MaxClaims : \E ts \in [1 .. n -> AccountTransition] :
          \/ Verify(ts)
          \/ \E convertible \in BOOLEAN : VerifyJs(ts, convertible)
    \/ \E ts \in {log} \cup tampered : CmdVerifySlot(ts)

Spec == Init /\ [][Next]_vars

-----------------------------------------------------------------------------
\* The hash of a whole account set.
state_lthash(accts) ==
    FoldLeft(LAMBDA h, a : IF a = NoAccount THEN h ELSE mix_in(h, hash_account(a)),
             identity, SetToSeq({accts[p] : p \in AccountKeys}))

(***************************************************************************)
(* "new_state_lthash = old_state_lthash + delta": whatever changes an      *)
(* account goes through in the slot, closing and reviving included, the    *)
(* delta is the difference of the account sets.                            *)
(***************************************************************************)
DeltaTracksState == state_lthash(accounts) = mix_in(state_lthash(start), delta)

\* A tombstone and a missing account are the same to the hash.
live(a) == IF a = NoAccount \/ a.lamports = 0 THEN NoAccount ELSE a

same_transitions(ts, us) ==
    /\ Len(ts) = Len(us)
    /\ \A t \in Range(ts) \cup Range(us) :
          Cardinality({n \in DOMAIN ts : ts[n] = t}) = Cardinality({n \in DOMAIN us : us[n] = t})

\* The net changes of the slot.
net_changes ==
    {[old |-> live(start[p]), new |-> live(accounts[p])] :
        p \in {q \in AccountKeys : live(start[q]) # live(accounts[q])}}

\* One transition per account, of one account, that changes it.
proper(ts) ==
    LET key(t) == IF t.old # NoAccount THEN t.old.pubkey ELSE t.new.pubkey
    IN  /\ \A n \in DOMAIN ts :
              /\ live(ts[n].old) # live(ts[n].new)
              /\ ts[n].old = NoAccount \/ ts[n].new = NoAccount
                    \/ ts[n].old.pubkey = ts[n].new.pubkey
        /\ \A m, n \in DOMAIN ts : key(ts[m]) = key(ts[n]) => m = n

(***************************************************************************)
(* The verifier tells the truth from everything else: the transitions of   *)
(* the slot verify in any order, and a list of one effective transition    *)
(* per account that verifies is exactly the net change of the slot; no     *)
(* other old state, new state, extra or missing account passes.            *)
(***************************************************************************)
VerifiedIsTruth ==
    /\ verdict = "DeltaMismatch" => ~same_transitions(claims, log)
    /\ verdict = "Ok" /\ proper(claims) =>
          {[old |-> live(claims[n].old), new |-> live(claims[n].new)] : n \in DOMAIN claims}
              = net_changes

\* The claims are the transitions of the slot and one more, at n.
adds(n) == same_transitions(RemoveAt(claims, n), log)

\* The claims are the transitions of the slot with another new state at n.
alters(n) ==
    /\ Len(claims) = Len(log)
    /\ claims[n].old = log[n].old
    /\ \A m \in DOMAIN log \ {n} : claims[m] = log[m]

(***************************************************************************)
(* "A single bit changed in any of the account state transitions" and      *)
(* "adding a transition that wasn't actually in the slot" show, as far as  *)
(* they do: a new state that is replaced or a transition that is added     *)
(* passes only if it trades a tombstone for nothing or nothing for a       *)
(* tombstone, or changes nothing.  And verify-slot exits with 2 on a       *)
(* tampered list, 0 on the true one.                                       *)
(***************************************************************************)
TamperNoticed ==
    /\ verdict = "Ok" =>
          \A n \in DOMAIN claims :
              /\ alters(n) => live(claims[n].new) = live(log[n].new)
              /\ adds(n) => live(claims[n].old) = live(claims[n].new)
    /\ exit # "none" => exit = IF claims = log THEN "SUCCESS" ELSE "2"

=============================================================================

----------------------------- MODULE RpcAttest -----------------------------
(***************************************************************************)
(* The rpc-attest command of crates/cli/src/main.rs: take a snapshot of an *)
(* account, poll getSlot until wait_slots have passed, take a second one,  *)
(* attest the difference, verify it, and verify that a tampered copy of    *)
(* the second snapshot is refused.                                         *)
(*                                                                         *)
(* The chain is external.  It moves on while the command runs, and every   *)
(* request may be answered by another node, up to MaxLag slots behind.     *)
(***************************************************************************)
EXTENDS SlotVerifier

CONSTANTS
    pubkey,         \* the account that is attested
    Flip,           \* account state -> the state with data[0] flipped
    wait_slots,
    MaxLag,         \* bound on how far behind the tip a node answers
    FirstSlots      \* bound on the slots before the first snapshot

ASSUME WaitAssumption == wait_slots \in Nat \ {0}
ASSUME LagAssumption == MaxLag \in Nat
ASSUME FlipAssumption ==
    Flip \in [AccountForHash -> Option] /\ \A a \in AccountForHash : Flip[a] # a

VARIABLES
    chain,          \* the account after each slot, from slot 1; the last is the tip
    pc,             \* step of the command, or its end
    snap_old, snap_new

rpc_vars == <<chain, pc, snap_old, snap_new>>

\* What an RPC node can hold: accounts without lamports are gone from it.
OnChain == {a \in AccountForHash : a.pubkey = pubkey /\ a.lamports > 0} \cup {NoAccount}

NoSnapshot == [slot |-> 0, account |-> NoAccount]

target_slot == snap_old.slot + wait_slots

RpcInit ==
    /\ chain \in {<<a>> : a \in OnChain}
    /\ pc = "snapshot_old"
    /\ snap_old = NoSnapshot
    /\ snap_new = NoSnapshot

Ended == pc \in {"success", "failure", "unexpected"}

\* The chain gets a slot; the bound leaves every node time to reach the target.
Advance(a) ==
    /\ ~Ended
    /\ Len(chain) < IF pc = "snapshot_old" THEN FirstSlots ELSE target_slot + MaxLag
    /\ chain' = Append(chain, a)
    /\ UNCHANGED <<pc, snap_old, snap_new>>

\* The slots a node may answer from.
served == {s \in DOMAIN chain : s >= Len(chain) - MaxLag}

\* A transport error, an RPC error or an answer that does not decode.
RpcFails ==
    /\ pc \in {"snapshot_old", "poll", "snapshot_new"}
    /\ pc' = "failure"
    /\ UNCHANGED <<chain, snap_old, snap_new>>

snapshot(s) == [slot |-> s, account |-> chain[s]]

\* fetch_snapshot: a missing account ends the command.
FetchOld(s) ==
    /\ pc = "snapshot_old"
    /\ pc' = IF chain[s] = NoAccount THEN "failure" ELSE "poll"
    /\ snap_old' = IF chain[s] = NoAccount THEN snap_old ELSE snapshot(s)
    /\ UNCHANGED <<chain, snap_new>>

\* Mutant: the slot the target is compared with is read once, before the loop.
Mutant_PollsForever(s) ==
    /\ pc = "poll"
    /\ pc' = IF snap_old.slot >= target_slot THEN "snapshot_new" ELSE "poll"
    /\ UNCHANGED <<chain, snap_old, snap_new>>

\* Mutant: any answer ends the loop.
Mutant_NoWait(s) ==
    /\ pc = "poll"
    /\ pc' = "snapshot_new"
    /\ UNCHANGED <<chain, snap_old, snap_new>>

\* One turn of the loop; below the target it sleeps and asks again.
Poll(s) ==
    /\ pc = "poll"
    /\ pc' = IF s >= target_slot THEN "snapshot_new" ELSE "poll"
    /\ UNCHANGED <<chain, snap_old, snap_new>>

FetchNew(s) ==
    /\ pc = "snapshot_new"
    /\ pc' = IF chain[s] = NoAccount THEN "failure" ELSE "verify"
    /\ snap_new' = IF chain[s] = NoAccount THEN snap_new ELSE snapshot(s)
    /\ UNCHANGED <<chain, snap_old>>

slot_delta == mix(identity, snap_old.account, snap_new.account)

claim(new) == <<[old |-> snap_old.account, new |-> new]>>

\* Both verifications.  Flip gives NoAccount for an account without data.
Verify ==
    LET truthful == verify_slot_delta(TRUE, slot_delta, claim(snap_new.account))
        tampered == Flip[snap_new.account]
    IN  /\ pc = "verify"
        /\ pc' = IF truthful # "Ok" THEN "unexpected"
                 ELSE IF tampered = NoAccount THEN "success"
                 ELSE IF verify_slot_delta(TRUE, slot_delta, claim(tampered)) = "DeltaMismatch"
                 THEN "success" ELSE "unexpected"
        /\ UNCHANGED <<chain, snap_old, snap_new>>

Command == Verify \/ \E s \in served : FetchOld(s) \/ Poll(s) \/ FetchNew(s)

RpcNext == Command \/ RpcFails \/ \E a \in OnChain : Advance(a)

(***************************************************************************)
(* The command runs on and the chain moves; a request is answered or fails.*)
(* Nothing makes a request fail: only the other steps are fair.            *)
(***************************************************************************)
RpcFairness ==
    /\ WF_rpc_vars(Command)
    /\ WF_rpc_vars(\E a \in OnChain : Advance(a))

RpcSpec == RpcInit /\ [][RpcNext]_rpc_vars /\ RpcFairness

-----------------------------------------------------------------------------
(***************************************************************************)
(* Neither "UNEXPECTED MISMATCH on truthful run" nor "UNEXPECTED ok on     *)
(* tampered run" is ever reached, whichever nodes answered: also when the  *)
(* second snapshot is older than the first, or the account came back.      *)
(***************************************************************************)
NeverUnexpected == pc # "unexpected"

\* The command ends, however the nodes' answers jump back and forth.
CommandEnds == <>Ended

(***************************************************************************)
(* "fetch a real mainnet account at slot S0 and S0+wait_slots", as far as  *)
(* it holds: the slot of the second snapshot is not compared with the      *)
(* target, so the snapshot may fall short of it by the lag of the node.    *)
(***************************************************************************)
SecondSnapshotWithinLag == pc = "verify" => snap_new.slot + MaxLag >= target_slot

=============================================================================

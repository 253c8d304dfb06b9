-------------------------- MODULE RpcAttestProofs --------------------------
(***************************************************************************)
(* The rpc-attest command: its verdicts are never unexpected, and the      *)
(* second snapshot misses the target by at most the lag of a node, for     *)
(* every set of account states, every LIMB, every chain and every lag.     *)
(***************************************************************************)
EXTENDS RpcAttest, TLAPS

\* The sum over a list of one transition is that transition.
LEMMA One ==
    ASSUME NEW t
    PROVE  recompute(<<t>>) = mix(identity, t.old, t.new)
<1> DEFINE q == <<t>>
           body(g) == [s \in SUBSET DOMAIN q |->
                 IF s = {} THEN identity
                 ELSE mix(g[s \ {Max(s)}], q[Max(s)].old, q[Max(s)].new)]
           iter == CHOOSE g : g = body(g)
           sum == mix(identity, t.old, t.new)
           w == [s \in SUBSET DOMAIN q |-> IF s = {} THEN identity ELSE sum]
<1>1. recompute(q) = iter[DOMAIN q]
  BY DEF recompute, FoldLeft, MapThenFoldSet
<1>2. DOMAIN q = {1} /\ q[1] = t
  OBVIOUS
<1>3. Max({1}) = 1
  BY DEF Max
<1> HIDE DEF q
<1>4. \A s \in SUBSET DOMAIN q : s # {} => s = {1}
  BY <1>2
<1>5. w = body(w)
  <2>1. ASSUME NEW s \in SUBSET DOMAIN q, s # {}
        PROVE  mix(w[s \ {Max(s)}], q[Max(s)].old, q[Max(s)].new) = sum
    <3>1. s \ {Max(s)} = {} /\ q[Max(s)] = t
      BY <1>2, <1>3, <1>4, <2>1
    <3>2. w[{}] = identity
      OBVIOUS
    <3> QED BY <3>1, <3>2
  <2> HIDE DEF sum
  <2>2. \A s \in SUBSET DOMAIN q :
           w[s] = IF s = {} THEN identity
                  ELSE mix(w[s \ {Max(s)}], q[Max(s)].old, q[Max(s)].new)
    BY <2>1
  <2> QED BY <2>2
<1>6. iter = body(iter)
  <2> HIDE DEF w, body
  <2> QED BY <1>5
<1>7. iter[{1}] = mix(iter[{1} \ {Max({1})}], q[Max({1})].old, q[Max({1})].new)
  <2> HIDE DEF iter
  <2> QED BY <1>2, <1>6
<1>8. iter[{}] = identity
  <2> HIDE DEF iter
  <2> QED BY <1>6
<1>9. {1} \ {Max({1})} = {}
  BY <1>3
<1> HIDE DEF iter
<1> QED BY <1>1, <1>2, <1>3, <1>7, <1>8, <1>9 DEF q

-----------------------------------------------------------------------------
\* What is added to a hash at one account state shows there.
LEMMA OneMore ==
    ASSUME NEW h \in 0 .. LIMB - 1
    PROVE  (h + 1) % LIMB # (h + 0) % LIMB
<1>1. LIMB \in Nat /\ LIMB > 1
  BY LimbAssumption
<1>2. (h + 0) % LIMB = h
  BY <1>1
<1>3. CASE h = LIMB - 1
  <2>1. (h + 1) % LIMB = 0
    BY <1>1, <1>3
  <2> QED BY <1>1, <1>2, <1>3, <2>1
<1>4. CASE h < LIMB - 1
  <2>1. (h + 1) % LIMB = h + 1
    BY <1>1, <1>4
  <2> QED BY <1>1, <1>2, <2>1
<1> QED BY <1>1, <1>3, <1>4

\* A limb is reduced, whatever went into it.
LEMMA Reduced ==
    ASSUME NEW k \in Int
    PROVE  k % LIMB \in 0 .. LIMB - 1
BY LimbAssumption

(***************************************************************************)
(* Two deltas from the same live old state to different new states are     *)
(* different, as long as the first new state is a live account.            *)
(***************************************************************************)
LEMMA OtherNewStateShows ==
    ASSUME NEW old \in AccountForHash, old.lamports > 0,
           NEW a \in AccountForHash, a.lamports > 0,
           NEW b \in AccountForHash, b # a
    PROVE  mix(identity, old, a) # mix(identity, old, b)
<1> DEFINE out == mix_out(identity, hash_account(old))
<1>1. mix(identity, old, a) = mix_in(out, hash_account(a))
      /\ mix(identity, old, b) = mix_in(out, hash_account(b))
  BY NoAccountAssumption DEF mix
<1>2. hash_account(a)[a] = 1
  BY AccountAssumption DEF hash_account
<1>3. hash_account(b)[a] = 0
  BY AccountAssumption DEF hash_account, identity
<1>4. out[a] \in 0 .. LIMB - 1
  <2>1. hash_account(old)[a] \in Int /\ identity[a] \in Int
    BY AccountAssumption DEF hash_account, identity
  <2>2. out[a] = (identity[a] - hash_account(old)[a]) % LIMB
    BY DEF mix_out
  <2> QED BY <2>1, <2>2, Reduced
<1> HIDE DEF out
<1>5. mix_in(out, hash_account(a))[a] = (out[a] + 1) % LIMB
      /\ mix_in(out, hash_account(b))[a] = (out[a] + 0) % LIMB
  BY <1>2, <1>3 DEF mix_in
<1> QED BY <1>1, <1>4, <1>5, OneMore

-----------------------------------------------------------------------------
\* A snapshot that was taken: of the account, which was there.
Taken(snap) ==
    /\ snap.slot \in Nat
    /\ snap.account \in AccountForHash
    /\ snap.account.lamports > 0

(***************************************************************************)
(* Why the properties are kept: the snapshots in hand are of live          *)
(* accounts, and once the loop has been left the tip is at the target,     *)
(* which a second snapshot then misses by no more than the lag.            *)
(***************************************************************************)
IInv ==
    /\ chain \in Seq(OnChain)
    /\ pc \in {"snapshot_old", "poll", "snapshot_new", "verify", "success", "failure", "unexpected"}
    /\ pc \in {"poll", "snapshot_new", "verify"} => Taken(snap_old)
    /\ pc \in {"snapshot_new", "verify"} => Len(chain) >= target_slot
    /\ pc = "verify" => Taken(snap_new)
    /\ NeverUnexpected
    /\ SecondSnapshotWithinLag

LEMMA Initially == RpcInit => IInv
<1> SUFFICES ASSUME RpcInit PROVE IInv
  OBVIOUS
<1>1. chain \in Seq(OnChain)
  <2>1. PICK a \in OnChain : chain = <<a>>
    BY DEF RpcInit
  <2> HIDE DEF OnChain
  <2> QED BY <2>1
<1> QED BY <1>1 DEF RpcInit, IInv, NeverUnexpected, SecondSnapshotWithinLag

\* What a node answers with.
LEMMA Answer ==
    ASSUME chain \in Seq(OnChain), NEW s \in served
    PROVE  /\ s \in Nat /\ s <= Len(chain) /\ s + MaxLag >= Len(chain)
           /\ chain[s] # NoAccount => Taken(snapshot(s))
<1>1. s \in 1 .. Len(chain) /\ chain[s] \in OnChain /\ Len(chain) \in Nat
  BY DEF served
<1>2. s + MaxLag >= Len(chain)
  BY <1>1, LagAssumption DEF served
<1>3. ASSUME chain[s] # NoAccount
      PROVE  Taken(snapshot(s))
  BY <1>1, <1>3 DEF Taken, snapshot, OnChain
<1> QED BY <1>1, <1>2, <1>3

LEMMA AdvanceKeeps ==
    ASSUME IInv, NEW a \in OnChain, Advance(a)
    PROVE  IInv'
<1>1. chain' \in Seq(OnChain) /\ Len(chain') = Len(chain) + 1 /\ Len(chain) \in Nat
  BY DEF IInv, Advance
<1>2. pc \in {"snapshot_new", "verify"} => target_slot \in Nat
  BY WaitAssumption DEF IInv, Taken, target_slot
<1>3. pc \in {"snapshot_new", "verify"} => Len(chain') >= target_slot
  BY <1>1, <1>2 DEF IInv
<1> QED BY <1>1, <1>3 DEF IInv, Advance, Taken, NeverUnexpected, SecondSnapshotWithinLag, target_slot

LEMMA FetchOldKeeps ==
    ASSUME IInv, NEW s \in served, FetchOld(s)
    PROVE  IInv'
<1>1. chain[s] # NoAccount => Taken(snapshot(s))
  BY Answer DEF IInv
<1>2. CASE chain[s] = NoAccount
  BY <1>2 DEF IInv, FetchOld, NeverUnexpected, SecondSnapshotWithinLag
<1>3. CASE chain[s] # NoAccount
  BY <1>1, <1>3 DEF IInv, FetchOld, NeverUnexpected, SecondSnapshotWithinLag, Taken
<1> QED BY <1>2, <1>3

LEMMA PollKeeps ==
    ASSUME IInv, NEW s \in served, Poll(s)
    PROVE  IInv'
<1>1. s \in Nat /\ s <= Len(chain) /\ Len(chain) \in Nat
  BY Answer DEF IInv
<1>2. target_slot \in Nat
  BY WaitAssumption DEF IInv, Taken, target_slot, Poll
<1>3. s >= target_slot => Len(chain) >= target_slot
  BY <1>1, <1>2
<1> QED BY <1>3 DEF IInv, Poll, Taken, NeverUnexpected, SecondSnapshotWithinLag, target_slot

LEMMA FetchNewKeeps ==
    ASSUME IInv, NEW s \in served, FetchNew(s)
    PROVE  IInv'
<1>1. /\ s \in Nat /\ s + MaxLag >= Len(chain) /\ Len(chain) \in Nat
      /\ chain[s] # NoAccount => Taken(snapshot(s))
  BY Answer DEF IInv
<1>2. target_slot \in Nat /\ Len(chain) >= target_slot
  BY WaitAssumption DEF IInv, Taken, target_slot, FetchNew
<1>3. s + MaxLag >= target_slot
  BY <1>1, <1>2, LagAssumption
<1>4. CASE chain[s] = NoAccount
  BY <1>4 DEF IInv, FetchNew, NeverUnexpected, SecondSnapshotWithinLag
<1>5. CASE chain[s] # NoAccount
  <2>1. snap_new' = snapshot(s) /\ Taken(snap_new)' /\ snap_new'.slot = s
    BY <1>1, <1>5 DEF FetchNew, Taken, snapshot
  <2> QED BY <1>3, <1>5, <2>1
          DEF IInv, FetchNew, Taken, NeverUnexpected, SecondSnapshotWithinLag, target_slot
<1> QED BY <1>4, <1>5

\* The delta that was attested verifies, and that with a tampered account does not.
LEMMA VerifySucceeds ==
    ASSUME IInv, Verify
    PROVE  pc' = "success"
<1> DEFINE old == snap_old.account
           new == snap_new.account
<1>1. /\ old \in AccountForHash /\ old.lamports > 0 /\ old # NoAccount
      /\ new \in AccountForHash /\ new.lamports > 0 /\ new # NoAccount
  BY NoAccountAssumption DEF IInv, Verify, Taken
<1>2. ASSUME NEW b
      PROVE  recompute(claim(b)) = mix(identity, old, b)
  BY One DEF claim
<1>3. ASSUME NEW b
      PROVE  ~ \E n \in DOMAIN claim(b) : claim(b)[n].old = NoAccount /\ claim(b)[n].new = NoAccount
  BY <1>1 DEF claim
<1>4. verify_slot_delta(TRUE, slot_delta, claim(new)) = "Ok"
  BY <1>2, <1>3 DEF verify_slot_delta, slot_delta
<1>5. ASSUME Flip[new] # NoAccount
      PROVE  verify_slot_delta(TRUE, slot_delta, claim(Flip[new])) = "DeltaMismatch"
  <2>1. Flip[new] \in AccountForHash /\ Flip[new] # new
    BY <1>1, <1>5, FlipAssumption DEF Option
  <2>2. mix(identity, old, new) # mix(identity, old, Flip[new])
    BY <1>1, <2>1, OtherNewStateShows
  <2> QED BY <1>2, <1>3, <2>2 DEF verify_slot_delta, slot_delta
<1> QED BY <1>4, <1>5 DEF Verify

LEMMA VerifyKeeps ==
    ASSUME IInv, Verify
    PROVE  IInv'
<1>1. pc' = "success" /\ chain' = chain
  BY VerifySucceeds DEF Verify
<1> QED BY <1>1 DEF IInv, NeverUnexpected, SecondSnapshotWithinLag

LEMMA FailsKeeps ==
    ASSUME IInv, RpcFails
    PROVE  IInv'
BY DEF IInv, RpcFails, NeverUnexpected, SecondSnapshotWithinLag

\* The invariant holds in every state the command and the chain can reach.
THEOREM Invariance == RpcSpec => []IInv
<1>1. IInv /\ [RpcNext]_rpc_vars => IInv'
  <2> SUFFICES ASSUME IInv, [RpcNext]_rpc_vars PROVE IInv'
    OBVIOUS
  <2>1. CASE Verify
    BY <2>1, VerifyKeeps
  <2>2. CASE \E s \in served : FetchOld(s)
    BY <2>2, FetchOldKeeps
  <2>3. CASE \E s \in served : Poll(s)
    BY <2>3, PollKeeps
  <2>4. CASE \E s \in served : FetchNew(s)
    BY <2>4, FetchNewKeeps
  <2>5. CASE RpcFails
    BY <2>5, FailsKeeps
  <2>6. CASE \E a \in OnChain : Advance(a)
    BY <2>6, AdvanceKeeps
  <2>7. CASE UNCHANGED rpc_vars
    BY <2>7 DEF rpc_vars, IInv, Taken, NeverUnexpected, SecondSnapshotWithinLag, target_slot, OnChain
  <2> QED BY <2>1, <2>2, <2>3, <2>4, <2>5, <2>6, <2>7 DEF RpcNext, Command
<1> QED BY <1>1, Initially, PTL DEF RpcSpec

(***************************************************************************)
(* Whichever nodes answered, the truthful run verifies and the tampered    *)
(* one is refused: the unexpected outcomes of the command are unreachable, *)
(* for every set of account states and every way to flip one.              *)
(***************************************************************************)
THEOREM Expected == RpcSpec => []NeverUnexpected
<1>1. IInv => NeverUnexpected
  BY DEF IInv
<1> QED BY <1>1, Invariance, PTL

(***************************************************************************)
(* The second snapshot falls short of target_slot by at most the lag of    *)
(* the node that answered, for every lag and every wait_slots.             *)
(***************************************************************************)
THEOREM WithinLag == RpcSpec => []SecondSnapshotWithinLag
<1>1. IInv => SecondSnapshotWithinLag
  BY DEF IInv
<1> QED BY <1>1, Invariance, PTL

=============================================================================

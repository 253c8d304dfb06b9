---------------------------- MODULE FecAssembler ----------------------------
(***************************************************************************)
(* FecAssembler of crates/listener/src/lib.rs: raw shreds go in through    *)
(* ingest, are grouped by (slot, fec_set_index), and events come out.  A   *)
(* FEC set is reconstructed at its 32nd distinct shred; a slot is          *)
(* finalized when the LAST_SHRED_IN_SLOT marker was seen and every FEC set *)
(* seen up to the marked one is reconstructed.                             *)
(*                                                                         *)
(* There is one action per way through ingest.  The network is the choice  *)
(* of the next datagram: any datagram, any number of times, in any order,  *)
(* or never, which is what UDP promises.                                   *)
(***************************************************************************)
EXTENDS Shred, Das, Sequences, FiniteSets

CONSTANTS
    Datagrams,      \* the datagrams that may arrive
    Leader,         \* the leader schedule: slot -> pubkey
    NoLeader,       \* the resolver's None
    NoRoot,         \* merkle_root = None
    NoShard,        \* an empty entry of `shards'
    NoIndex         \* last_fec_set_index = None

ASSUME DatagramsAssumption == Datagrams \subseteq Datagram
ASSUME LeaderAssumption == Leader \in [Slots -> Pubkeys]
ASSUME NoneAssumption ==
    /\ NoLeader \notin Pubkeys
    /\ NoRoot \notin MerkleRoots
    /\ NoShard \notin Datagrams
    /\ NoIndex \notin FecSetIndices

VARIABLES
    states,         \* FecKey -> FecState
    slots,          \* slot -> SlotState
    events,         \* what the last call of ingest returned
    finalizations   \* history: per slot, the fec_roots of each SlotFinalized returned

vars == <<states, slots, events, finalizations>>

-----------------------------------------------------------------------------
(***************************************************************************)
(* State.  An entry missing from the code's hash maps is one that still    *)
(* has its initial value here.                                             *)
(***************************************************************************)
FecKey == Slots \X FecSetIndices

ShardIndices == 0 .. SHREDS_PER_FEC - 1

\* Mutant: the confidence is computed before the new shred is counted.
Mutant_BeforeCount(n) == DasConfidence(n - 1, DATA_SHREDS_PER_FEC, SHREDS_PER_FEC)

\* das_confidence with the code's two constants.
das_confidence(n) == DasConfidence(n, DATA_SHREDS_PER_FEC, SHREDS_PER_FEC)

Unset   == <<0, 1>>        \* f64::default()
Certain == <<1, 1>>

FecState ==
    [merkle_root   : MerkleRoots \cup {NoRoot},
     shards        : [ShardIndices -> Datagrams \cup {NoShard}],
     distinct_seen : Nat,
     reconstructed : BOOLEAN,
     das_confidence_at_reconstruct : {Unset, Certain}]

SlotState ==
    [seen_fec_indices          : SUBSET FecSetIndices,
     reconstructed_fec_indices : SUBSET FecSetIndices,
     last_shred_seen           : BOOLEAN,
     last_fec_set_index        : FecSetIndices \cup {NoIndex},
     finalized                 : BOOLEAN]

NewFecState ==
    [merkle_root   |-> NoRoot,
     shards        |-> [i \in ShardIndices |-> NoShard],
     distinct_seen |-> 0,
     reconstructed |-> FALSE,
     das_confidence_at_reconstruct |-> Unset]

NewSlotState ==
    [seen_fec_indices          |-> {},
     reconstructed_fec_indices |-> {},
     last_shred_seen           |-> FALSE,
     last_fec_set_index        |-> NoIndex,
     finalized                 |-> FALSE]

Init ==
    /\ states = [k \in FecKey |-> NewFecState]
    /\ slots = [s \in Slots |-> NewSlotState]
    /\ events = <<>>
    /\ finalizations = [s \in Slots |-> <<>>]

-----------------------------------------------------------------------------
(***************************************************************************)
(* Events.  slot_root is a function of fec_roots (module Merkle), and      *)
(* fec_roots is kept as a map from fec_set_index to root: the code lists   *)
(* it in ascending order of the index.                                     *)
(***************************************************************************)
Rejected(reason) == [type |-> "Rejected", reason |-> reason]

Started(k, root) == [type |-> "Started", key |-> k, merkle_root |-> root]

ShredAccepted(k, n, i) ==
    [type |-> "ShredAccepted", key |-> k,
     shreds_present |-> n, erasure_shard_index |-> i]

Reconstructed(k, root, das) ==
    [type |-> "Reconstructed", key |-> k,
     merkle_root |-> root, das_confidence |-> das]

SlotFinalized(s, roots, total, das) ==
    [type |-> "SlotFinalized", slot |-> s, fec_roots |-> roots,
     total_shreds_observed |-> total, slot_das_confidence |-> das]

-----------------------------------------------------------------------------
(***************************************************************************)
(* try_finalize_slot                                                       *)
(***************************************************************************)
\* The FEC sets of the slot that are checked and reported.
indices_to_check(ss) ==
    {i \in ss.seen_fec_indices : i <= ss.last_fec_set_index}

\* Mutant: a slot that was finalized before may be finalized again.
Mutant_FinalizeAgain(ss) ==
    /\ ss.last_shred_seen
    /\ ss.last_fec_set_index # NoIndex
    /\ indices_to_check(ss) \subseteq ss.reconstructed_fec_indices
    /\ ss.last_fec_set_index \in ss.seen_fec_indices

\* Mutant: some set up to the marked one suffices.
Mutant_FinalizeOnLastSet(ss) ==
    /\ ~ss.finalized
    /\ ss.last_shred_seen
    /\ ss.last_fec_set_index # NoIndex
    /\ ss.last_fec_set_index \in ss.reconstructed_fec_indices

\* The early returns of try_finalize_slot, in their order.
may_finalize(ss) ==
    /\ ~ss.finalized
    /\ ss.last_shred_seen
    /\ ss.last_fec_set_index # NoIndex
    /\ indices_to_check(ss) \subseteq ss.reconstructed_fec_indices
    /\ ss.last_fec_set_index \in ss.seen_fec_indices

\* The event built for slot s out of its entry ss and the FEC states st.
finalization(s, ss, st) ==
    LET covered == indices_to_check(ss)
    IN  SlotFinalized(s,
            [i \in covered |-> st[<<s, i>>].merkle_root],
            SumFunction([i \in covered |-> st[<<s, i>>].distinct_seen]),
            SlotDasConfidence(
                [i \in covered |-> st[<<s, i>>].das_confidence_at_reconstruct]))

\* The loop that collects the roots gives up at a set without an entry or a root.
all_rooted(s, ss, st) ==
    \A i \in indices_to_check(ss) : st[<<s, i>>].merkle_root # NoRoot

\* Mutant: the finalization is reported before the events that led to it.
Mutant_FinalizedFirst(s, ss, st, evs) ==
    IF may_finalize(ss)
    THEN LET ev == finalization(s, ss, st)
         IN  /\ slots' = [slots EXCEPT ![s] = [ss EXCEPT !.finalized = TRUE]]
             /\ finalizations' = [finalizations EXCEPT ![s] = Append(@, ev.fec_roots)]
             /\ events' = <<ev>> \o evs
    ELSE /\ slots' = [slots EXCEPT ![s] = ss]
         /\ events' = evs
         /\ UNCHANGED finalizations

(***************************************************************************)
(* The end of an ingest that calls try_finalize_slot: ss is the entry of   *)
(* slot s as this ingest updated it, st the FEC states, evs the events so  *)
(* far.  The slot is flagged finalized before its event is put together.   *)
(***************************************************************************)
try_finalize_slot(s, ss, st, evs) ==
    IF may_finalize(ss)
    THEN /\ slots' = [slots EXCEPT ![s] = [ss EXCEPT !.finalized = TRUE]]
         /\ IF all_rooted(s, ss, st)
            THEN LET ev == finalization(s, ss, st)
                 IN  /\ finalizations' = [finalizations EXCEPT ![s] = Append(@, ev.fec_roots)]
                     /\ events' = Append(evs, ev)
            ELSE /\ events' = evs
                 /\ UNCHANGED finalizations
    ELSE /\ slots' = [slots EXCEPT ![s] = ss]
         /\ events' = evs
         /\ UNCHANGED finalizations

-----------------------------------------------------------------------------
(***************************************************************************)
(* ingest.  The resolver answers `leader' for the slot of datagram d.      *)
(***************************************************************************)
\* Mutant: the key forgets the slot.
Mutant_KeyWithoutSlot(d) == <<CHOOSE s \in Slots : TRUE, d.fec_set_index>>

key_of(d) == <<d.slot, d.fec_set_index>>

\* The three rejections before the shred is known to be the leader's.
IngestUnparsable(d) ==
    /\ ~d.wellformed
    /\ events' = <<Rejected("parse")>>
    /\ UNCHANGED <<states, slots, finalizations>>

IngestNoLeader(d, leader) ==
    /\ d.wellformed
    /\ leader = NoLeader
    /\ events' = <<Rejected("no leader")>>
    /\ UNCHANGED <<states, slots, finalizations>>

IngestUnverified(d, leader) ==
    /\ d.wellformed
    /\ leader # NoLeader
    /\ ~verify_shred(d, leader)
    /\ events' = <<Rejected("verify")>>
    /\ UNCHANGED <<states, slots, finalizations>>

\* Mutant: the marker replaces the index instead of taking the maximum.
Mutant_MarkerOverwrites(last, i) == i

\* The maximum of the marked index so far, if any, and i.
raised(last, i) == IF last = NoIndex \/ last < i THEN i ELSE last

(***************************************************************************)
(* The slot entry after the bookkeeping every verified shred causes,       *)
(* whatever happens to it afterwards.                                      *)
(***************************************************************************)
slot_bookkeeping(ss, d) ==
    [seen_fec_indices          |-> ss.seen_fec_indices \cup {d.fec_set_index},
     reconstructed_fec_indices |-> ss.reconstructed_fec_indices,
     last_shred_seen           |-> ss.last_shred_seen \/ is_last_in_slot(d),
     last_fec_set_index        |-> IF is_last_in_slot(d)
                                   THEN raised(ss.last_fec_set_index, d.fec_set_index)
                                   ELSE ss.last_fec_set_index,
     finalized                 |-> ss.finalized]

\* An ingest that updates the slot entry and never reaches try_finalize_slot.
BookkeepOnly(d) ==
    /\ slots' = [slots EXCEPT ![d.slot] = slot_bookkeeping(@, d)]
    /\ UNCHANGED finalizations

\* Mutant: a shred of a set that is already done returns without the check.
Mutant_NoCheckWhenDone(d, leader) ==
    /\ verify_shred(d, leader)
    /\ states[key_of(d)].reconstructed
    /\ BookkeepOnly(d)
    /\ events' = <<>>
    /\ UNCHANGED states

\* A shred of a set that is already reconstructed may still finalize the slot.
IngestIntoReconstructed(d, leader) ==
    /\ verify_shred(d, leader)
    /\ states[key_of(d)].reconstructed
    /\ try_finalize_slot(d.slot, slot_bookkeeping(slots[d.slot], d), states, <<>>)
    /\ UNCHANGED states

\* Mutant: the root of a later shred is never compared.
Mutant_AnyRoot(st, d) == FALSE

root_diverges(st, d) ==
    st.merkle_root # NoRoot /\ st.merkle_root # d.merkle_root

IngestDivergentRoot(d, leader) ==
    /\ verify_shred(d, leader)
    /\ ~states[key_of(d)].reconstructed
    /\ root_diverges(states[key_of(d)], d)
    /\ events' = <<Rejected("merkle root diverges")>>
    /\ BookkeepOnly(d)
    /\ UNCHANGED states

\* The shred belongs to a set in progress and agrees with its root.
belongs(d, leader) ==
    /\ verify_shred(d, leader)
    /\ ~states[key_of(d)].reconstructed
    /\ ~root_diverges(states[key_of(d)], d)

\* The set with its root captured, and the Started event if this shred did it.
with_root(st, d) == [st EXCEPT !.merkle_root = d.merkle_root]

started(st, d) ==
    IF st.merkle_root = NoRoot THEN <<Started(key_of(d), d.merkle_root)>> ELSE <<>>

\* A Merkle path longer than the set needs admits an index past its end.
IngestOutOfRange(d, leader) ==
    /\ belongs(d, leader)
    /\ erasure_shard_index(d) >= SHREDS_PER_FEC
    /\ states' = [states EXCEPT ![key_of(d)] = with_root(@, d)]
    /\ events' = Append(started(states[key_of(d)], d), Rejected("index out of range"))
    /\ BookkeepOnly(d)

IngestDuplicate(d, leader) ==
    /\ belongs(d, leader)
    /\ erasure_shard_index(d) \in ShardIndices
    /\ states[key_of(d)].shards[erasure_shard_index(d)] # NoShard
    /\ events' = <<>>
    /\ BookkeepOnly(d)
    /\ UNCHANGED states

\* Mutant: a shard that is already present counts again.
Mutant_CountsDuplicates(st, d) == erasure_shard_index(d) \in ShardIndices

is_new_shard(st, d) ==
    /\ erasure_shard_index(d) \in ShardIndices
    /\ st.shards[erasure_shard_index(d)] = NoShard

\* The set with the shard stored.
with_shard(st, d) ==
    [with_root(st, d) EXCEPT !.shards = [@ EXCEPT ![erasure_shard_index(d)] = d],
                             !.distinct_seen = @ + 1]

accepted(st, d) ==
    Append(started(st, d),
           ShredAccepted(key_of(d), st.distinct_seen + 1, erasure_shard_index(d)))

\* Mutant: reconstruction waits for one shred more than it needs.
Mutant_LateThreshold(st) == st.distinct_seen > DATA_SHREDS_PER_FEC

\* DATA_SHREDS_THRESHOLD equals DATA_SHREDS_PER_FEC.
has_enough(st) == st.distinct_seen >= DATA_SHREDS_PER_FEC

IngestAccepted(d, leader) ==
    /\ belongs(d, leader)
    /\ is_new_shard(states[key_of(d)], d)
    /\ ~has_enough(with_shard(states[key_of(d)], d))
    /\ states' = [states EXCEPT ![key_of(d)] = with_shard(@, d)]
    /\ events' = accepted(states[key_of(d)], d)
    /\ BookkeepOnly(d)

\* Mutant: the slot is not told that the set is reconstructed.
Mutant_SlotNotTold(ss, d) == ss

mark_reconstructed(ss, d) ==
    [ss EXCEPT !.reconstructed_fec_indices = @ \cup {d.fec_set_index}]

(***************************************************************************)
(* The shred that completes the set.  Reed-Solomon recovers 64 equally     *)
(* long shards from any 32 of them, so the Err branch of reconstruct is    *)
(* not taken; the recovered bytes are dropped by the code.                 *)
(***************************************************************************)
IngestReconstructs(d, leader) ==
    /\ belongs(d, leader)
    /\ is_new_shard(states[key_of(d)], d)
    /\ has_enough(with_shard(states[key_of(d)], d))
    /\ LET k   == key_of(d)
           st  == with_shard(states[k], d)
           das == das_confidence(st.distinct_seen)
           st2 == [states EXCEPT ![k] =
                      [st EXCEPT !.reconstructed = TRUE,
                                 !.das_confidence_at_reconstruct = das]]
           ss  == mark_reconstructed(slot_bookkeeping(slots[d.slot], d), d)
       IN  /\ states' = st2
           /\ try_finalize_slot(d.slot, ss, st2,
                 Append(accepted(states[k], d),
                        Reconstructed(k, st.merkle_root, das)))

ingest(d, leader) ==
    \/ IngestUnparsable(d)
    \/ IngestNoLeader(d, leader)
    \/ IngestUnverified(d, leader)
    \/ IngestIntoReconstructed(d, leader)
    \/ IngestDivergentRoot(d, leader)
    \/ IngestOutOfRange(d, leader)
    \/ IngestDuplicate(d, leader)
    \/ IngestAccepted(d, leader)
    \/ IngestReconstructs(d, leader)

\* A resolver knows the leader of a slot or answers None (module LeaderResolver).
leader_for_slot(s) == {Leader[s], NoLeader}

Next == \E d \in Datagrams : \E leader \in leader_for_slot(d.slot) : ingest(d, leader)

Spec == Init /\ [][Next]_vars

-----------------------------------------------------------------------------
(***************************************************************************)
(* Properties.                                                             *)
(***************************************************************************)
\* The positions of `shards' that are filled.
present(st) == {i \in ShardIndices : st.shards[i] # NoShard}

\* What fec_roots of a SlotFinalized event may be: roots of some of the sets.
FecRoots == UNION {[S -> MerkleRoots] : S \in SUBSET FecSetIndices}

(***************************************************************************)
(* Type invariant: the entries of both maps keep the shape of FecState and *)
(* SlotState; the confidence is only ever the default or 1.0.              *)
(***************************************************************************)
TypeOK ==
    /\ states \in [FecKey -> FecState]
    /\ slots \in [Slots -> SlotState]
    /\ finalizations \in [Slots -> Seq(FecRoots)]

(***************************************************************************)
(* Every shard an assembler keeps for a set was signed by the leader of    *)
(* the slot, belongs to that set, sits at its own index and carries the    *)
(* one root captured from the first shred: shreds of two equivocating      *)
(* blocks are never mixed in what is handed to Reed-Solomon.               *)
(***************************************************************************)
ShardsOfOneBlock ==
    \A k \in FecKey : \A i \in present(states[k]) :
        LET d == states[k].shards[i]
        IN  /\ verify_shred(d, Leader[k[1]])
            /\ key_of(d) = k
            /\ erasure_shard_index(d) = i
            /\ d.merkle_root = states[k].merkle_root

(***************************************************************************)
(* distinct_seen counts the filled shards, duplicates and rejected shreds  *)
(* excluded, and a set is reconstructed exactly from the moment 32 are     *)
(* present: it never holds 32 shards without being reconstructed and never *)
(* takes another one afterwards.                                           *)
(***************************************************************************)
ReconstructedAtThreshold ==
    \A k \in FecKey :
        LET st == states[k]
        IN  /\ st.distinct_seen = Cardinality(present(st))
            /\ st.distinct_seen <= DATA_SHREDS_PER_FEC
            /\ st.reconstructed <=> st.distinct_seen = DATA_SHREDS_PER_FEC
            /\ st.das_confidence_at_reconstruct =
                   IF st.reconstructed THEN Certain ELSE Unset

(***************************************************************************)
(* The slot entry and the FEC entries, two maps ingest updates at          *)
(* different points and returns between, tell the same story: a set is     *)
(* listed as seen iff its root was captured, as reconstructed iff it is,   *)
(* and the marked set is one of those seen.                                *)
(***************************************************************************)
SlotAgreesWithSets ==
    \A s \in Slots :
        /\ \A i \in FecSetIndices :
              /\ i \in slots[s].seen_fec_indices
                     <=> states[<<s, i>>].merkle_root # NoRoot
              /\ i \in slots[s].reconstructed_fec_indices
                     <=> states[<<s, i>>].reconstructed
        /\ slots[s].last_shred_seen <=> slots[s].last_fec_set_index # NoIndex
        /\ slots[s].last_shred_seen
               => slots[s].last_fec_set_index \in slots[s].seen_fec_indices

(***************************************************************************)
(* try_finalize_slot is called on two of the paths of ingest only.  No     *)
(* slot is ever left with the marker seen and every set up to it           *)
(* reconstructed, but not finalized: no other path can complete a slot.    *)
(***************************************************************************)
NoMissedFinalization == \A s \in Slots : ~may_finalize(slots[s])

(***************************************************************************)
(* SlotFinalized is returned once, when the slot's flag is set, and the    *)
(* flag is never set without the event being returned.                     *)
(***************************************************************************)
FinalizedOnce ==
    \A s \in Slots : Len(finalizations[s]) = IF slots[s].finalized THEN 1 ELSE 0

(***************************************************************************)
(* What a SlotFinalized event said stays true: it covers at least one set, *)
(* and every set it covers is reconstructed under the very root it         *)
(* reported, whatever arrives later.                                       *)
(***************************************************************************)
FinalizationSound ==
    \A s \in Slots : \A n \in DOMAIN finalizations[s] :
        LET roots == finalizations[s][n]
        IN  /\ DOMAIN roots # {}
            /\ \A i \in DOMAIN roots :
                   /\ states[<<s, i>>].reconstructed
                   /\ states[<<s, i>>].merkle_root = roots[i]

(***************************************************************************)
(* What an ingest may never undo: a captured root, a stored shard, a       *)
(* reconstruction, the finalized flag, a returned finalization; and the    *)
(* marked index only grows.                                                *)
(***************************************************************************)
Irrevocable ==
    [][/\ \A k \in FecKey :
             /\ states[k].merkle_root \in {NoRoot, states'[k].merkle_root}
             /\ states[k].reconstructed => states'[k] = states[k]
             /\ \A i \in present(states[k]) :
                    states'[k].shards[i] = states[k].shards[i]
       /\ \A s \in Slots :
             /\ slots[s].finalized =>
                    slots'[s].finalized /\ finalizations'[s] = finalizations[s]
             /\ slots[s].last_shred_seen =>
                    slots[s].last_fec_set_index <= slots'[s].last_fec_set_index
      ]_vars

=============================================================================

------------------------- MODULE FecAssemblerProofs -------------------------
(***************************************************************************)
(* Proofs about FecAssembler for every number of slots, FEC sets, shreds,  *)
(* roots and keys, and every set of datagrams.                             *)
(***************************************************************************)
EXTENDS FecAssembler, FiniteSetTheorems, WellFoundedInduction, TLAPS

-----------------------------------------------------------------------------
(***************************************************************************)
(* What the operators on the entries compute.                              *)
(***************************************************************************)
\* A datagram names a slot and a FEC set that have an entry in both maps.
LEMMA DatagramFields ==
    ASSUME NEW d \in Datagrams
    PROVE  /\ d.slot \in Slots
           /\ d.fec_set_index \in FecSetIndices
           /\ d.fec_set_index \in Nat
           /\ d.merkle_root \in MerkleRoots
           /\ d # NoShard
           /\ key_of(d) = <<d.slot, d.fec_set_index>>
           /\ key_of(d) \in FecKey
BY DatagramsAssumption, NoneAssumption, FecSetIndicesAssumption
   DEF Datagram, key_of, FecKey

\* Capturing the root changes nothing else of the entry.
LEMMA WithRoot ==
    ASSUME NEW st \in FecState, NEW d \in Datagrams
    PROVE  /\ with_root(st, d) \in FecState
           /\ with_root(st, d).merkle_root = d.merkle_root
           /\ with_root(st, d).shards = st.shards
           /\ with_root(st, d).distinct_seen = st.distinct_seen
           /\ with_root(st, d).reconstructed = st.reconstructed
           /\ with_root(st, d).das_confidence_at_reconstruct
                = st.das_confidence_at_reconstruct
BY DatagramFields DEF with_root, FecState

\* Storing a shard fills one position, captures the root and counts one more.
LEMMA WithShard ==
    ASSUME NEW st \in FecState, NEW d \in Datagrams,
           erasure_shard_index(d) \in ShardIndices
    PROVE  /\ with_shard(st, d) \in FecState
           /\ with_shard(st, d).merkle_root = d.merkle_root
           /\ with_shard(st, d).shards
                = [st.shards EXCEPT ![erasure_shard_index(d)] = d]
           /\ with_shard(st, d).distinct_seen = st.distinct_seen + 1
           /\ with_shard(st, d).reconstructed = st.reconstructed
           /\ with_shard(st, d).das_confidence_at_reconstruct
                = st.das_confidence_at_reconstruct
<1>1. [st.shards EXCEPT ![erasure_shard_index(d)] = d]
          \in [ShardIndices -> Datagrams \cup {NoShard}]
  BY DEF FecState
<1>2. st.distinct_seen + 1 \in Nat
  BY DEF FecState
<1> QED
  BY WithRoot, <1>1, <1>2 DEF with_shard, FecState

\* The mark is one of the two indices and at least as large as both.
LEMMA Raised ==
    ASSUME NEW last \in FecSetIndices \cup {NoIndex}, NEW i \in FecSetIndices
    PROVE  /\ raised(last, i) \in FecSetIndices
           /\ raised(last, i) \in {last, i}
           /\ i <= raised(last, i)
           /\ last \in FecSetIndices => last <= raised(last, i)
<1>1. i \in Nat
  BY FecSetIndicesAssumption
<1>2. CASE last = NoIndex
  BY <1>1, <1>2, NoneAssumption DEF raised
<1>3. CASE last \in FecSetIndices
  <2>1. last \in Nat /\ last # NoIndex
    BY <1>3, FecSetIndicesAssumption, NoneAssumption
  <2>2. CASE last < i
    BY <1>1, <2>1, <2>2 DEF raised
  <2>3. CASE ~(last < i)
    BY <1>1, <1>3, <2>1, <2>3 DEF raised
  <2> QED BY <2>2, <2>3
<1> QED BY <1>2, <1>3

\* The bookkeeping adds the set to those seen and can only raise the mark.
LEMMA Bookkeeping ==
    ASSUME NEW ss \in SlotState, NEW d \in Datagrams
    PROVE  LET sb == slot_bookkeeping(ss, d)
           IN  /\ sb \in SlotState
               /\ sb.seen_fec_indices = ss.seen_fec_indices \cup {d.fec_set_index}
               /\ sb.reconstructed_fec_indices = ss.reconstructed_fec_indices
               /\ sb.finalized = ss.finalized
               /\ is_last_in_slot(d) =>
                     /\ sb.last_shred_seen
                     /\ sb.last_fec_set_index \in FecSetIndices
                     /\ sb.last_fec_set_index \in {ss.last_fec_set_index, d.fec_set_index}
                     /\ d.fec_set_index <= sb.last_fec_set_index
                     /\ ss.last_fec_set_index \in FecSetIndices =>
                            ss.last_fec_set_index <= sb.last_fec_set_index
               /\ ~is_last_in_slot(d) =>
                     /\ sb.last_shred_seen <=> ss.last_shred_seen
                     /\ sb.last_fec_set_index = ss.last_fec_set_index
<1> DEFINE i == d.fec_set_index
           r == raised(ss.last_fec_set_index, i)
<1>1. ss.last_fec_set_index \in FecSetIndices \cup {NoIndex} /\ i \in FecSetIndices
  BY DatagramFields DEF SlotState
<1>2. /\ r \in FecSetIndices
      /\ r \in {ss.last_fec_set_index, i}
      /\ i <= r
      /\ ss.last_fec_set_index \in FecSetIndices => ss.last_fec_set_index <= r
  BY <1>1, Raised
<1> HIDE DEF r
<1>3. slot_bookkeeping(ss, d).last_fec_set_index
         = IF is_last_in_slot(d) THEN r ELSE ss.last_fec_set_index
  BY DEF slot_bookkeeping, r
<1>4. slot_bookkeeping(ss, d) \in SlotState
  BY <1>1, <1>2, <1>3 DEF slot_bookkeeping, SlotState, is_last_in_slot
<1> QED
  BY <1>1, <1>2, <1>3, <1>4 DEF slot_bookkeeping, SlotState

-----------------------------------------------------------------------------
(***************************************************************************)
(* The inductive invariant.                                                *)
(***************************************************************************)
\* One FEC entry: the shards of one block, counted, reconstructed on time.
SetInv(k, st) ==
    /\ st \in FecState
    /\ \A i \in present(st) :
          /\ verify_shred(st.shards[i], Leader[k[1]])
          /\ key_of(st.shards[i]) = k
          /\ erasure_shard_index(st.shards[i]) = i
          /\ st.shards[i].merkle_root = st.merkle_root
    /\ st.distinct_seen = Cardinality(present(st))
    /\ st.distinct_seen <= DATA_SHREDS_PER_FEC
    /\ st.reconstructed <=> st.distinct_seen = DATA_SHREDS_PER_FEC
    /\ st.das_confidence_at_reconstruct = IF st.reconstructed THEN Certain ELSE Unset

\* The properties of all entries and of the slots, with NoMissedFinalization.
IInv ==
    /\ TypeOK
    /\ ShardsOfOneBlock
    /\ ReconstructedAtThreshold
    /\ SlotAgreesWithSets
    /\ NoMissedFinalization
    /\ FinalizedOnce
    /\ FinalizationSound

\* The per-set half of the invariant, one entry at a time.
LEMMA SetInvIsInvariant ==
    (TypeOK /\ ShardsOfOneBlock /\ ReconstructedAtThreshold)
        => \A k \in FecKey : SetInv(k, states[k])
BY DEF TypeOK, ShardsOfOneBlock, ReconstructedAtThreshold, SetInv

\* A filled position is a position; there are finitely many.
LEMMA PresentFinite ==
    ASSUME NEW st
    PROVE  IsFiniteSet(present(st))
<1>1. SHREDS_PER_FEC - 1 \in Int
  BY DataShredsAssumption, CodingShredsAssumption DEF SHREDS_PER_FEC
<1>2. IsFiniteSet(ShardIndices)
  BY <1>1, FS_Interval DEF ShardIndices
<1> QED BY <1>2, FS_Subset DEF present

\* A set that stores a shard has captured a root.
LEMMA StoredMeansRooted ==
    ASSUME NEW k \in FecKey, NEW st, SetInv(k, st), st.merkle_root = NoRoot
    PROVE  present(st) = {} /\ ~st.reconstructed /\ st.distinct_seen = 0
<1>1. ASSUME NEW i \in present(st) PROVE FALSE
  <2>1. st.shards[i] \in Datagrams
    BY <1>1 DEF SetInv, FecState, present
  <2> QED BY <1>1, <2>1, DatagramFields, NoneAssumption DEF SetInv
<1>2. present(st) = {}
  BY <1>1
<1>3. st.distinct_seen = 0
  BY <1>2, FS_EmptySet DEF SetInv
<1> QED BY <1>2, <1>3, DataShredsAssumption DEF SetInv

\* The leader that verify_shred accepts is the one of the schedule.
LEMMA VerifiedByLeader ==
    ASSUME NEW d \in Datagrams, NEW leader \in leader_for_slot(d.slot),
           verify_shred(d, leader)
    PROVE  leader = Leader[d.slot]
BY DatagramsAssumption, NoneAssumption DEF leader_for_slot, verify_shred, Datagram

-----------------------------------------------------------------------------
(***************************************************************************)
(* What one ingest does to the entry of the shred's own FEC set.           *)
(***************************************************************************)
\* The positions d fills in a set with root r: its own, if it is one of the
\* set's and d carries that root.
fills(d, r) == {i \in ShardIndices : i = erasure_shard_index(d) /\ d.merkle_root = r}

\* st2 is what may become of the entry st of d's FEC set.
SetEffect(d, st, st2) ==
    /\ SetInv(key_of(d), st2)
    /\ st2.merkle_root # NoRoot
    /\ st.merkle_root \in {NoRoot, st2.merkle_root}
    /\ st.merkle_root = NoRoot => ~st2.reconstructed
    /\ st.reconstructed => st2 = st
    /\ \A i \in present(st) : st2.shards[i] = st.shards[i]
    /\ ~st.reconstructed => present(st2) = present(st) \cup fills(d, st2.merkle_root)

\* The paths that leave the entry alone meet a set that has a root.
LEMMA SetUnchanged ==
    ASSUME NEW d \in Datagrams, NEW st, SetInv(key_of(d), st), st.merkle_root # NoRoot,
           st.reconstructed \/ fills(d, st.merkle_root) \subseteq present(st)
    PROVE  SetEffect(d, st, st)
BY DEF SetEffect

\* Capturing the root alone, when the index is out of range.
LEMMA SetRooted ==
    ASSUME NEW d \in Datagrams, NEW st, SetInv(key_of(d), st),
           ~st.reconstructed, ~root_diverges(st, d),
           erasure_shard_index(d) \notin ShardIndices
    PROVE  SetEffect(d, st, with_root(st, d)) /\ ~with_root(st, d).reconstructed
<1> DEFINE st2 == with_root(st, d)
<1>1. st \in FecState
  BY DEF SetInv
<1>2. /\ st2 \in FecState
      /\ st2.merkle_root = d.merkle_root
      /\ st2.shards = st.shards
      /\ st2.distinct_seen = st.distinct_seen
      /\ st2.reconstructed = st.reconstructed
      /\ st2.das_confidence_at_reconstruct = st.das_confidence_at_reconstruct
  BY <1>1, WithRoot
<1> HIDE DEF st2
<1>3. present(st2) = present(st)
  BY <1>2 DEF present
<1>4. st.merkle_root \in {NoRoot, d.merkle_root}
  BY DEF root_diverges
<1>5. st.merkle_root = NoRoot => present(st) = {}
  BY StoredMeansRooted, DatagramFields
<1>6. SetInv(key_of(d), st2)
  BY <1>2, <1>3, <1>4, <1>5 DEF SetInv
<1>7. st2.merkle_root # NoRoot
  BY <1>2, DatagramFields, NoneAssumption
<1>8. present(st2) = present(st) \cup fills(d, st2.merkle_root)
  BY <1>3 DEF fills
<1> QED
  BY <1>2, <1>4, <1>6, <1>7, <1>8 DEF SetEffect, st2

\* Storing a new shard: the facts both remaining paths need.
LEMMA ShardStored ==
    ASSUME NEW d \in Datagrams, NEW st, SetInv(key_of(d), st),
           verify_shred(d, Leader[d.slot]),
           ~st.reconstructed, ~root_diverges(st, d), is_new_shard(st, d)
    PROVE  LET st1 == with_shard(st, d)
           IN  /\ st1 \in FecState
               /\ \A i \in present(st1) :
                     /\ verify_shred(st1.shards[i], Leader[key_of(d)[1]])
                     /\ key_of(st1.shards[i]) = key_of(d)
                     /\ erasure_shard_index(st1.shards[i]) = i
                     /\ st1.shards[i].merkle_root = st1.merkle_root
               /\ \A i \in present(st) : st1.shards[i] = st.shards[i]
               /\ present(st1) = present(st) \cup fills(d, st1.merkle_root)
               /\ st1.distinct_seen = Cardinality(present(st1))
               /\ st1.distinct_seen <= DATA_SHREDS_PER_FEC
               /\ st1.merkle_root # NoRoot
               /\ st.merkle_root \in {NoRoot, st1.merkle_root}
               /\ ~st1.reconstructed
               /\ st1.das_confidence_at_reconstruct = Unset
<1> DEFINE e == erasure_shard_index(d)
           st1 == with_shard(st, d)
<1>1. st \in FecState
  BY DEF SetInv
<1>2. e \in ShardIndices /\ e \notin present(st)
  BY DEF is_new_shard, present
<1>3. /\ st1 \in FecState
      /\ st1.merkle_root = d.merkle_root
      /\ st1.shards = [st.shards EXCEPT ![e] = d]
      /\ st1.distinct_seen = st.distinct_seen + 1
      /\ st1.reconstructed = st.reconstructed
      /\ st1.das_confidence_at_reconstruct = st.das_confidence_at_reconstruct
  BY <1>1, <1>2, WithShard
<1> HIDE DEF st1
<1>4. /\ st1.shards[e] = d
      /\ \A i \in ShardIndices \ {e} : st1.shards[i] = st.shards[i]
  BY <1>1, <1>2, <1>3 DEF FecState
<1>5. present(st1) = present(st) \cup {e}
  BY <1>2, <1>4, DatagramFields DEF present
<1>6. st.merkle_root \in {NoRoot, d.merkle_root}
  BY DEF root_diverges
<1>7. st.merkle_root = NoRoot => present(st) = {}
  BY StoredMeansRooted, DatagramFields
<1>8. ASSUME NEW i \in present(st1)
      PROVE  /\ verify_shred(st1.shards[i], Leader[key_of(d)[1]])
             /\ key_of(st1.shards[i]) = key_of(d)
             /\ erasure_shard_index(st1.shards[i]) = i
             /\ st1.shards[i].merkle_root = st1.merkle_root
  <2>1. CASE i = e
    BY <1>3, <1>4, <2>1, DatagramFields
  <2>2. CASE i # e
    <3>1. i \in present(st) /\ st1.shards[i] = st.shards[i]
      BY <1>4, <1>5, <1>8, <2>2 DEF present
    <3>2. st.merkle_root = d.merkle_root
      BY <1>6, <1>7, <3>1
    <3> QED BY <1>3, <3>1, <3>2 DEF SetInv
  <2> QED BY <2>1, <2>2
<1>9. \A i \in present(st) : st1.shards[i] = st.shards[i]
  BY <1>2, <1>4 DEF present
<1>10. st1.distinct_seen = Cardinality(present(st1))
  BY <1>2, <1>3, <1>5, PresentFinite, FS_AddElement DEF SetInv
<1>11. st1.distinct_seen <= DATA_SHREDS_PER_FEC
  BY <1>1, <1>3, DataShredsAssumption DEF SetInv, FecState
<1>12. st1.merkle_root # NoRoot
  BY <1>3, DatagramFields, NoneAssumption
<1>13. present(st1) = present(st) \cup fills(d, st1.merkle_root)
  BY <1>2, <1>3, <1>5 DEF fills
<1> QED
  BY <1>3, <1>6, <1>8, <1>9, <1>10, <1>11, <1>12, <1>13 DEF SetInv, st1

\* A new shard that does not complete the set.
LEMMA SetAccepts ==
    ASSUME NEW d \in Datagrams, NEW st, SetInv(key_of(d), st),
           verify_shred(d, Leader[d.slot]),
           ~st.reconstructed, ~root_diverges(st, d), is_new_shard(st, d),
           ~has_enough(with_shard(st, d))
    PROVE  SetEffect(d, st, with_shard(st, d)) /\ ~with_shard(st, d).reconstructed
<1> DEFINE st1 == with_shard(st, d)
<1>1. st1.distinct_seen # DATA_SHREDS_PER_FEC
  BY DataShredsAssumption DEF has_enough
<1> QED
  BY <1>1, ShardStored DEF SetEffect, SetInv

\* The entry IngestReconstructs leaves behind.
completed(st, d) ==
    [with_shard(st, d) EXCEPT
        !.reconstructed = TRUE,
        !.das_confidence_at_reconstruct =
            das_confidence(with_shard(st, d).distinct_seen)]

\* A new shard that completes the set.
LEMMA SetCompletes ==
    ASSUME NEW d \in Datagrams, NEW st, SetInv(key_of(d), st),
           verify_shred(d, Leader[d.slot]),
           ~st.reconstructed, ~root_diverges(st, d), is_new_shard(st, d),
           has_enough(with_shard(st, d))
    PROVE  SetEffect(d, st, completed(st, d)) /\ completed(st, d).reconstructed
<1> DEFINE st1 == with_shard(st, d)
           st2 == completed(st, d)
<1>1. st1 \in FecState /\ st1.distinct_seen <= DATA_SHREDS_PER_FEC
  BY ShardStored
<1>2. st1.distinct_seen = DATA_SHREDS_PER_FEC
  BY <1>1, DataShredsAssumption DEF has_enough, FecState
<1>3. das_confidence(st1.distinct_seen) = Certain
  <2>1. st1.distinct_seen >= DATA_SHREDS_PER_FEC
    BY DEF has_enough
  <2> QED BY <2>1, Zenon DEF das_confidence, DasConfidence, Certain
<1>4. /\ st2 \in FecState
      /\ st2.merkle_root = st1.merkle_root
      /\ st2.shards = st1.shards
      /\ st2.distinct_seen = st1.distinct_seen
      /\ st2.reconstructed
      /\ st2.das_confidence_at_reconstruct = Certain
  <2> HIDE DEF st1
  <2>1. st2 = [st1 EXCEPT !.reconstructed = TRUE,
                          !.das_confidence_at_reconstruct = Certain]
    BY <1>3 DEF completed, st1
  <2> QED BY <1>1, <2>1 DEF FecState
<1>5. present(st2) = present(st1)
  BY <1>4 DEF present
<1> HIDE DEF st2
<1>6. SetInv(key_of(d), st2)
  BY <1>2, <1>4, <1>5, ShardStored, DataShredsAssumption DEF SetInv
<1>7. st.merkle_root # NoRoot
  <2>1. st \in FecState /\ erasure_shard_index(d) \in ShardIndices
    BY DEF SetInv, is_new_shard
  <2>2. st1.distinct_seen = st.distinct_seen + 1 /\ st.distinct_seen \in Nat
    BY <2>1, WithShard DEF FecState
  <2>3. st.distinct_seen # 0
    BY <1>2, <2>2, DataShredsAssumption
  <2> QED BY <2>3, StoredMeansRooted, DatagramFields
<1>8. present(st2) = present(st) \cup fills(d, st2.merkle_root)
  BY <1>4, <1>5, ShardStored
<1> QED
  BY <1>4, <1>6, <1>7, <1>8, ShardStored DEF SetEffect, st2

-----------------------------------------------------------------------------
(***************************************************************************)
(* What one ingest does to the entry of the shred's slot.                  *)
(***************************************************************************)
\* The slot half of the invariant that does not speak of events.
SlotInv(s, ss, st) ==
    /\ ss \in SlotState
    /\ \A i \in FecSetIndices :
          /\ i \in ss.seen_fec_indices <=> st[<<s, i>>].merkle_root # NoRoot
          /\ i \in ss.reconstructed_fec_indices <=> st[<<s, i>>].reconstructed
    /\ ss.last_shred_seen <=> ss.last_fec_set_index # NoIndex
    /\ ss.last_shred_seen => ss.last_fec_set_index \in ss.seen_fec_indices

\* The entry the slot gets before try_finalize_slot looks at it.
updated(d, ss, st2) ==
    IF st2.reconstructed
    THEN mark_reconstructed(slot_bookkeeping(ss, d), d)
    ELSE slot_bookkeeping(ss, d)

\* Marking a set reconstructed changes nothing else of the slot entry.
LEMMA MarkReconstructed ==
    ASSUME NEW ss \in SlotState, NEW d \in Datagrams
    PROVE  LET sm == mark_reconstructed(ss, d)
           IN  /\ sm \in SlotState
               /\ sm.seen_fec_indices = ss.seen_fec_indices
               /\ sm.reconstructed_fec_indices
                    = ss.reconstructed_fec_indices \cup {d.fec_set_index}
               /\ sm.last_shred_seen <=> ss.last_shred_seen
               /\ sm.last_fec_set_index = ss.last_fec_set_index
               /\ sm.finalized = ss.finalized
BY DatagramFields DEF mark_reconstructed, SlotState

\* The updated entry agrees with the updated FEC entry.
LEMMA SlotUpdated ==
    ASSUME NEW d \in Datagrams, NEW st \in [FecKey -> FecState], NEW st2 \in FecState,
           NEW ss, SlotInv(d.slot, ss, st),
           SetEffect(d, st[key_of(d)], st2)
    PROVE  LET sn == updated(d, ss, st2)
           IN  /\ SlotInv(d.slot, sn, [st EXCEPT ![key_of(d)] = st2])
               /\ sn.finalized = ss.finalized
               /\ ss.last_shred_seen =>
                     /\ sn.last_shred_seen
                     /\ ss.last_fec_set_index <= sn.last_fec_set_index
<1> DEFINE sb == slot_bookkeeping(ss, d)
           sn == updated(d, ss, st2)
           f  == d.fec_set_index
           stn == [st EXCEPT ![key_of(d)] = st2]
<1>1. ss \in SlotState
  BY DEF SlotInv
<1>2. /\ sb \in SlotState
      /\ sb.seen_fec_indices = ss.seen_fec_indices \cup {f}
      /\ sb.reconstructed_fec_indices = ss.reconstructed_fec_indices
      /\ sb.finalized = ss.finalized
      /\ is_last_in_slot(d) =>
            /\ sb.last_shred_seen
            /\ sb.last_fec_set_index \in FecSetIndices
            /\ sb.last_fec_set_index \in {ss.last_fec_set_index, f}
            /\ f <= sb.last_fec_set_index
            /\ ss.last_fec_set_index \in FecSetIndices =>
                   ss.last_fec_set_index <= sb.last_fec_set_index
      /\ ~is_last_in_slot(d) =>
            /\ sb.last_shred_seen <=> ss.last_shred_seen
            /\ sb.last_fec_set_index = ss.last_fec_set_index
  BY <1>1, Bookkeeping
<1> HIDE DEF sb
<1>3. /\ sn \in SlotState
      /\ sn.seen_fec_indices = ss.seen_fec_indices \cup {f}
      /\ sn.reconstructed_fec_indices
            = ss.reconstructed_fec_indices \cup IF st2.reconstructed THEN {f} ELSE {}
      /\ sn.finalized = ss.finalized
      /\ sn.last_shred_seen <=> sb.last_shred_seen
      /\ sn.last_fec_set_index = sb.last_fec_set_index
  <2>1. CASE st2.reconstructed
    BY <1>2, <2>1, MarkReconstructed DEF updated, sb
  <2>2. CASE ~st2.reconstructed
    BY <1>2, <2>2 DEF updated, sb
  <2> QED BY <2>1, <2>2
<1> HIDE DEF sn
<1>4. /\ stn[key_of(d)] = st2
      /\ \A i \in FecSetIndices \ {f} : stn[<<d.slot, i>>] = st[<<d.slot, i>>]
  BY DatagramFields DEF FecKey
<1>5. ASSUME NEW i \in FecSetIndices
      PROVE  /\ i \in sn.seen_fec_indices <=> stn[<<d.slot, i>>].merkle_root # NoRoot
             /\ i \in sn.reconstructed_fec_indices <=> stn[<<d.slot, i>>].reconstructed
  <2>1. CASE i = f
    BY <1>3, <1>4, <2>1, DatagramFields DEF SetEffect, SlotInv
  <2>2. CASE i # f
    BY <1>3, <1>4, <2>2 DEF SlotInv
  <2> QED BY <2>1, <2>2
<1>6. sn.last_shred_seen <=> sn.last_fec_set_index # NoIndex
  BY <1>2, <1>3, NoneAssumption DEF SlotInv
<1>7. sn.last_shred_seen => sn.last_fec_set_index \in sn.seen_fec_indices
  <2>1. CASE is_last_in_slot(d)
    BY <1>2, <1>3, <1>6, <2>1, NoneAssumption DEF SlotInv
  <2>2. CASE ~is_last_in_slot(d)
    BY <1>2, <1>3, <2>2 DEF SlotInv
  <2> QED BY <2>1, <2>2
<1>8. ss.last_shred_seen =>
         /\ sn.last_shred_seen
         /\ ss.last_fec_set_index <= sn.last_fec_set_index
  <2> SUFFICES ASSUME ss.last_shred_seen
               PROVE  /\ sn.last_shred_seen
                      /\ ss.last_fec_set_index <= sn.last_fec_set_index
    OBVIOUS
  <2>1. ss.last_fec_set_index \in FecSetIndices /\ ss.last_fec_set_index \in Nat
    BY <1>1, FecSetIndicesAssumption DEF SlotInv, SlotState
  <2>2. CASE is_last_in_slot(d)
    BY <1>2, <1>3, <2>1, <2>2
  <2>3. CASE ~is_last_in_slot(d)
    BY <1>2, <1>3, <2>1, <2>3
  <2> QED BY <2>2, <2>3
<1> QED
  BY <1>3, <1>5, <1>6, <1>7, <1>8 DEF SlotInv, sn

\* A shred that leaves its set unreconstructed cannot complete the slot.
LEMMA CannotComplete ==
    ASSUME NEW d \in Datagrams, NEW st \in [FecKey -> FecState], NEW st2 \in FecState,
           NEW ss, SlotInv(d.slot, ss, st), ~may_finalize(ss),
           SetEffect(d, st[key_of(d)], st2), ~st2.reconstructed
    PROVE  ~may_finalize(slot_bookkeeping(ss, d))
<1> DEFINE sb == slot_bookkeeping(ss, d)
           f  == d.fec_set_index
<1>1. ss \in SlotState
  BY DEF SlotInv
<1>2. /\ sb \in SlotState
      /\ sb.seen_fec_indices = ss.seen_fec_indices \cup {f}
      /\ sb.reconstructed_fec_indices = ss.reconstructed_fec_indices
      /\ sb.finalized = ss.finalized
      /\ is_last_in_slot(d) => f <= sb.last_fec_set_index
      /\ ~is_last_in_slot(d) =>
            /\ sb.last_shred_seen <=> ss.last_shred_seen
            /\ sb.last_fec_set_index = ss.last_fec_set_index
  BY <1>1, Bookkeeping
<1> HIDE DEF sb
<1>3. SUFFICES ASSUME may_finalize(sb) PROVE FALSE
  BY DEF sb
<1>4. f \notin ss.reconstructed_fec_indices
  BY DatagramFields DEF SlotInv, SetEffect
<1>5. CASE is_last_in_slot(d)
  <2>1. f \in indices_to_check(sb)
    BY <1>2, <1>5 DEF indices_to_check
  <2> QED BY <1>2, <1>3, <1>4, <2>1 DEF may_finalize
<1>6. CASE ~is_last_in_slot(d)
  <2>1. indices_to_check(ss) \subseteq indices_to_check(sb)
    BY <1>2, <1>6 DEF indices_to_check
  <2>2. ss.last_shred_seen /\ ss.last_fec_set_index # NoIndex /\ ~ss.finalized
    BY <1>2, <1>3, <1>6 DEF may_finalize
  <2>3. indices_to_check(ss) \subseteq ss.reconstructed_fec_indices
    BY <1>2, <1>3, <2>1 DEF may_finalize
  <2>4. ss.last_fec_set_index \in ss.seen_fec_indices
    BY <2>2 DEF SlotInv
  <2> QED BY <2>2, <2>3, <2>4 DEF may_finalize
<1> QED BY <1>5, <1>6

-----------------------------------------------------------------------------
(***************************************************************************)
(* The shape of every step that is not a rejection of a foreign shred.     *)
(***************************************************************************)
Effect(d, st2, sn) ==
    /\ SetEffect(d, states[key_of(d)], st2)
    /\ states' = [states EXCEPT ![key_of(d)] = st2]
    /\ sn = updated(d, slots[d.slot], st2)
    /\ may_finalize(sn) => st2.reconstructed
    /\ \/ /\ ~may_finalize(sn)
          /\ slots' = [slots EXCEPT ![d.slot] = sn]
          /\ finalizations' = finalizations
       \/ /\ may_finalize(sn)
          /\ slots' = [slots EXCEPT ![d.slot] = [sn EXCEPT !.finalized = TRUE]]
          /\ finalizations' = [finalizations EXCEPT ![d.slot] =
                                  Append(@, finalization(d.slot, sn, states').fec_roots)]

Inert == UNCHANGED <<states, slots, finalizations>>

\* What ingest says of the set itself when its entry st becomes st2.
SetEvents(d, st, st2, evs) ==
    \/ /\ st2 = st
       /\ evs = <<>> \/ \E reason : evs = <<Rejected(reason)>>
    \/ /\ ~st.reconstructed
       /\ st2 = with_root(st, d)
       /\ \E reason : evs = Append(started(st, d), Rejected(reason))
    \/ /\ ~st.reconstructed
       /\ st2 = with_shard(st, d)
       /\ evs = accepted(st, d)
    \/ /\ ~st.reconstructed
       /\ st2 = completed(st, d)
       /\ \E das : evs = Append(accepted(st, d), Reconstructed(key_of(d), st2.merkle_root, das))

\* The events of the set, followed by that of the slot if it is finalized.
Announces(d, sn, evs) ==
    events' = IF may_finalize(sn)
              THEN Append(evs, finalization(d.slot, sn, states')) ELSE evs

\* The slot entry of every slot satisfies its half of the invariant.
LEMMA SlotInvIsInvariant ==
    (TypeOK /\ SlotAgreesWithSets) => \A s \in Slots : SlotInv(s, slots[s], states)
BY DEF TypeOK, SlotAgreesWithSets, SlotInv

\* The paths that never call try_finalize_slot have the shape of an Effect.
LEMMA BookkeepEffect ==
    ASSUME IInv, NEW d \in Datagrams, NEW st2,
           SetEffect(d, states[key_of(d)], st2), ~st2.reconstructed,
           states' = [states EXCEPT ![key_of(d)] = st2],
           BookkeepOnly(d)
    PROVE  \E sn : Effect(d, st2, sn) /\ Announces(d, sn, events')
<1>1. states \in [FecKey -> FecState] /\ st2 \in FecState /\ d.slot \in Slots
  BY DatagramFields DEF IInv, TypeOK, SetEffect, SetInv
<1>2. SlotInv(d.slot, slots[d.slot], states) /\ ~may_finalize(slots[d.slot])
  BY <1>1, SlotInvIsInvariant DEF IInv, NoMissedFinalization
<1>3. ~may_finalize(slot_bookkeeping(slots[d.slot], d))
  BY <1>1, <1>2, CannotComplete
<1>4. updated(d, slots[d.slot], st2) = slot_bookkeeping(slots[d.slot], d)
  BY DEF updated
<1>5. Effect(d, st2, slot_bookkeeping(slots[d.slot], d))
  BY <1>3, <1>4 DEF Effect, BookkeepOnly
<1> QED BY <1>3, <1>5 DEF Announces

\* The paths that call try_finalize_slot have the shape of an Effect.
LEMMA FinalizeEffect ==
    ASSUME IInv, NEW d \in Datagrams, NEW st2, NEW evs,
           SetEffect(d, states[key_of(d)], st2), st2.reconstructed,
           states' = [states EXCEPT ![key_of(d)] = st2],
           try_finalize_slot(d.slot, updated(d, slots[d.slot], st2), states', evs)
    PROVE  \E sn : Effect(d, st2, sn) /\ Announces(d, sn, evs)
<1> DEFINE sn == updated(d, slots[d.slot], st2)
<1>1. /\ states \in [FecKey -> FecState]
      /\ st2 \in FecState
      /\ d.slot \in Slots
      /\ SlotInv(d.slot, slots[d.slot], states)
  BY DatagramFields, SlotInvIsInvariant DEF IInv, TypeOK, SetEffect, SetInv
<1>2. SlotInv(d.slot, sn, states')
  BY <1>1, SlotUpdated
<1>3. all_rooted(d.slot, sn, states')
  <2> HIDE DEF sn
  <2>1. indices_to_check(sn) \subseteq sn.seen_fec_indices \cap FecSetIndices
    BY <1>2 DEF SlotInv, SlotState, indices_to_check
  <2> QED BY <1>2, <2>1 DEF all_rooted, SlotInv
<1>4. Effect(d, st2, sn)
  BY <1>3 DEF Effect, try_finalize_slot
<1>5. Announces(d, sn, evs)
  BY <1>3 DEF Announces, try_finalize_slot
<1> QED BY <1>4, <1>5

(***************************************************************************)
(* An ingest is inert when verify_shred rejects the shred and an Effect    *)
(* otherwise, and says so in its events.                                   *)
(***************************************************************************)
LEMMA IngestOutcome ==
    ASSUME IInv, NEW d \in Datagrams, NEW leader \in leader_for_slot(d.slot),
           ingest(d, leader)
    PROVE  IF verify_shred(d, leader)
           THEN \E st2, sn, evs : /\ Effect(d, st2, sn)
                                  /\ SetEvents(d, states[key_of(d)], st2, evs)
                                  /\ Announces(d, sn, evs)
           ELSE Inert /\ \E reason : events' = <<Rejected(reason)>>
<1> DEFINE k == key_of(d)
           st == states[k]
<1>1. /\ k \in FecKey
      /\ d.slot \in Slots
      /\ states \in [FecKey -> FecState]
      /\ slots[d.slot] \in SlotState
      /\ SetInv(k, st)
      /\ SlotInv(d.slot, slots[d.slot], states)
  BY DatagramFields, SetInvIsInvariant, SlotInvIsInvariant DEF IInv, TypeOK
<1>2. UNCHANGED states => states' = [states EXCEPT ![k] = st]
  BY <1>1
<1>3. CASE IngestUnparsable(d) \/ IngestNoLeader(d, leader) \/ IngestUnverified(d, leader)
  <2>1. ~verify_shred(d, leader)
    BY <1>3, NoneAssumption, DatagramsAssumption
       DEF IngestUnparsable, IngestNoLeader, IngestUnverified, verify_shred, Datagram
  <2> QED
    BY <1>3, <2>1 DEF IngestUnparsable, IngestNoLeader, IngestUnverified, Inert
<1>4. CASE IngestIntoReconstructed(d, leader)
  <2> DEFINE sb == slot_bookkeeping(slots[d.slot], d)
  <2>1. verify_shred(d, leader) /\ st.reconstructed /\ UNCHANGED states
    BY <1>4 DEF IngestIntoReconstructed
  <2>2. st.merkle_root # NoRoot
    BY <1>1, <2>1, StoredMeansRooted
  <2>3. SetEffect(d, st, st)
    BY <1>1, <2>1, <2>2, SetUnchanged
  <2>4. sb \in SlotState /\ d.fec_set_index \in sb.reconstructed_fec_indices
    BY <1>1, <2>1, Bookkeeping, DatagramFields DEF SlotInv
  <2>5. mark_reconstructed(sb, d) = sb
    <3> HIDE DEF sb
    <3>1. sb.reconstructed_fec_indices \cup {d.fec_set_index} = sb.reconstructed_fec_indices
      BY <2>4
    <3> QED BY <2>4, <3>1 DEF mark_reconstructed, SlotState
  <2>6. updated(d, slots[d.slot], st) = sb
    BY <2>1, <2>5 DEF updated
  <2>7. states' = states
    BY <2>1
  <2>8. try_finalize_slot(d.slot, sb, states', <<>>)
    BY <1>4, <2>7 DEF IngestIntoReconstructed
  <2>9. \E sn : Effect(d, st, sn) /\ Announces(d, sn, <<>>)
    BY <1>2, <2>1, <2>3, <2>6, <2>8, FinalizeEffect
  <2>10. SetEvents(d, st, st, <<>>)
    BY DEF SetEvents
  <2> QED BY <2>1, <2>9, <2>10
<1>5. CASE IngestDivergentRoot(d, leader)
  <2>1. /\ verify_shred(d, leader)
        /\ st.merkle_root # NoRoot
        /\ st.merkle_root # d.merkle_root
        /\ ~st.reconstructed
        /\ UNCHANGED states
        /\ BookkeepOnly(d)
    BY <1>5 DEF IngestDivergentRoot, root_diverges
  <2>2. SetEffect(d, st, st)
    BY <1>1, <2>1, SetUnchanged DEF fills
  <2>3. \E sn : Effect(d, st, sn) /\ Announces(d, sn, events')
    BY <1>2, <2>1, <2>2, BookkeepEffect
  <2>4. SetEvents(d, st, st, events')
    BY <1>5 DEF SetEvents, IngestDivergentRoot
  <2> QED BY <2>1, <2>3, <2>4
<1>6. CASE IngestOutOfRange(d, leader)
  <2>1. /\ verify_shred(d, leader)
        /\ ~st.reconstructed /\ ~root_diverges(st, d)
        /\ erasure_shard_index(d) >= SHREDS_PER_FEC
        /\ states' = [states EXCEPT ![k] = with_root(st, d)]
        /\ BookkeepOnly(d)
    BY <1>6 DEF IngestOutOfRange, belongs
  <2>2. erasure_shard_index(d) \notin ShardIndices
    <3>1. SHREDS_PER_FEC \in Nat
      BY DataShredsAssumption, CodingShredsAssumption DEF SHREDS_PER_FEC
    <3> DEFINE e == erasure_shard_index(d)
    <3>2. e \in Nat => ~(e >= SHREDS_PER_FEC /\ e <= SHREDS_PER_FEC - 1)
      BY <3>1
    <3> QED BY <2>1, <3>1, <3>2 DEF ShardIndices
  <2>3. SetEffect(d, st, with_root(st, d)) /\ ~with_root(st, d).reconstructed
    BY <1>1, <2>1, <2>2, SetRooted
  <2>4. \E sn : Effect(d, with_root(st, d), sn) /\ Announces(d, sn, events')
    BY <2>1, <2>3, BookkeepEffect
  <2>5. SetEvents(d, st, with_root(st, d), events')
    BY <1>6, <2>1 DEF SetEvents, IngestOutOfRange
  <2> QED BY <2>1, <2>4, <2>5
<1>7. CASE IngestDuplicate(d, leader)
  <2>1. /\ verify_shred(d, leader)
        /\ ~st.reconstructed
        /\ erasure_shard_index(d) \in present(st)
        /\ UNCHANGED states
        /\ BookkeepOnly(d)
    BY <1>7 DEF IngestDuplicate, belongs, present
  <2>2. st.merkle_root # NoRoot
    BY <1>1, <2>1, StoredMeansRooted
  <2>3. SetEffect(d, st, st)
    BY <1>1, <2>1, <2>2, SetUnchanged DEF fills
  <2>4. \E sn : Effect(d, st, sn) /\ Announces(d, sn, events')
    BY <1>2, <2>1, <2>3, BookkeepEffect
  <2>5. SetEvents(d, st, st, events')
    BY <1>7 DEF SetEvents, IngestDuplicate
  <2> QED BY <2>1, <2>4, <2>5
<1>8. CASE IngestAccepted(d, leader)
  <2>1. /\ verify_shred(d, leader)
        /\ verify_shred(d, Leader[d.slot])
        /\ ~st.reconstructed /\ ~root_diverges(st, d) /\ is_new_shard(st, d)
        /\ ~has_enough(with_shard(st, d))
        /\ states' = [states EXCEPT ![k] = with_shard(st, d)]
        /\ BookkeepOnly(d)
    BY <1>8, VerifiedByLeader DEF IngestAccepted, belongs
  <2>2. SetEffect(d, st, with_shard(st, d)) /\ ~with_shard(st, d).reconstructed
    BY <1>1, <2>1, SetAccepts
  <2>3. \E sn : Effect(d, with_shard(st, d), sn) /\ Announces(d, sn, events')
    BY <2>1, <2>2, BookkeepEffect
  <2>4. SetEvents(d, st, with_shard(st, d), events')
    BY <1>8, <2>1 DEF SetEvents, IngestAccepted
  <2> QED BY <2>1, <2>3, <2>4
<1>9. CASE IngestReconstructs(d, leader)
  <2> DEFINE st2 == completed(st, d)
             sm  == mark_reconstructed(slot_bookkeeping(slots[d.slot], d), d)
  <2>1. /\ verify_shred(d, leader)
        /\ verify_shred(d, Leader[d.slot])
        /\ ~st.reconstructed /\ ~root_diverges(st, d) /\ is_new_shard(st, d)
        /\ has_enough(with_shard(st, d))
    BY <1>9, VerifiedByLeader DEF IngestReconstructs, belongs
  <2>2. SetEffect(d, st, st2) /\ st2.reconstructed
    BY <1>1, <2>1, SetCompletes
  <2>3. updated(d, slots[d.slot], st2) = sm
    BY <2>2 DEF updated
  <2>4. states' = [states EXCEPT ![k] = st2]
    BY <1>9 DEF IngestReconstructs, completed
  <2> DEFINE evs == Append(accepted(st, d),
                           Reconstructed(k, with_shard(st, d).merkle_root,
                                         das_confidence(with_shard(st, d).distinct_seen)))
  <2>5. try_finalize_slot(d.slot, sm, states', evs)
    BY <1>9 DEF IngestReconstructs
  <2>6. \E sn : Effect(d, st2, sn) /\ Announces(d, sn, evs)
    BY <2>2, <2>3, <2>4, <2>5, FinalizeEffect
  <2>7. st2.merkle_root = with_shard(st, d).merkle_root
    <3>1. with_shard(st, d) \in FecState
      BY <1>1, <2>1, ShardStored
    <3> QED BY <3>1 DEF completed, FecState
  <2>8. SetEvents(d, st, st2, evs)
    BY <2>1, <2>7 DEF SetEvents
  <2> QED BY <2>1, <2>6, <2>8
<1> QED
  BY <1>3, <1>4, <1>5, <1>6, <1>7, <1>8, <1>9 DEF ingest

\* What an ingest does, without what it says.
LEMMA IngestEffect ==
    ASSUME IInv, NEW d \in Datagrams, NEW leader \in leader_for_slot(d.slot),
           ingest(d, leader)
    PROVE  IF verify_shred(d, leader) THEN \E st2, sn : Effect(d, st2, sn) ELSE Inert
BY IngestOutcome

-----------------------------------------------------------------------------
(***************************************************************************)
(* An Effect preserves the invariant.                                      *)
(***************************************************************************)
\* The facts about an Effect that the conjuncts of the invariant need.
LEMMA EffectFacts ==
    ASSUME IInv, NEW d \in Datagrams, NEW st2, NEW sn, Effect(d, st2, sn)
    PROVE  /\ states' \in [FecKey -> FecState]
           /\ states'[key_of(d)] = st2
           /\ \A k \in FecKey \ {key_of(d)} : states'[k] = states[k]
           /\ \A k \in FecKey : states[k].reconstructed => states'[k] = states[k]
           /\ SlotInv(d.slot, sn, states')
           /\ sn.finalized = slots[d.slot].finalized
           /\ slots[d.slot].last_shred_seen =>
                 /\ sn.last_shred_seen
                 /\ slots[d.slot].last_fec_set_index <= sn.last_fec_set_index
           /\ slots' \in [Slots -> SlotState]
           /\ \A s \in Slots \ {d.slot} : slots'[s] = slots[s]
           /\ finalizations[d.slot] \in Seq(FecRoots)
           /\ \A s \in Slots \ {d.slot} : finalizations'[s] = finalizations[s]
<1>1. /\ states \in [FecKey -> FecState]
      /\ slots \in [Slots -> SlotState]
      /\ finalizations \in [Slots -> Seq(FecRoots)]
      /\ d.slot \in Slots
      /\ key_of(d) \in FecKey
  BY DatagramFields DEF IInv, TypeOK
<1>2. /\ st2 \in FecState
      /\ SetEffect(d, states[key_of(d)], st2)
      /\ states' = [states EXCEPT ![key_of(d)] = st2]
      /\ sn = updated(d, slots[d.slot], st2)
  BY DEF Effect, SetEffect, SetInv
<1>3. SlotInv(d.slot, slots[d.slot], states)
  BY <1>1, SlotInvIsInvariant DEF IInv
<1>4. /\ SlotInv(d.slot, sn, states')
      /\ sn.finalized = slots[d.slot].finalized
      /\ slots[d.slot].last_shred_seen =>
            /\ sn.last_shred_seen
            /\ slots[d.slot].last_fec_set_index <= sn.last_fec_set_index
  <2> DEFINE su == updated(d, slots[d.slot], st2)
  <2>1. /\ SlotInv(d.slot, su, [states EXCEPT ![key_of(d)] = st2])
        /\ su.finalized = slots[d.slot].finalized
        /\ slots[d.slot].last_shred_seen =>
              /\ su.last_shred_seen
              /\ slots[d.slot].last_fec_set_index <= su.last_fec_set_index
    BY <1>1, <1>2, <1>3, SlotUpdated
  <2> QED BY <1>2, <2>1
<1>5. sn \in SlotState /\ [sn EXCEPT !.finalized = TRUE] \in SlotState
  BY <1>4 DEF SlotInv, SlotState
<1>6. slots' \in [Slots -> SlotState] /\ \A s \in Slots \ {d.slot} : slots'[s] = slots[s]
  BY <1>1, <1>5 DEF Effect
<1>7. \A s \in Slots \ {d.slot} : finalizations'[s] = finalizations[s]
  BY <1>1 DEF Effect
<1>8. /\ states' \in [FecKey -> FecState]
      /\ states'[key_of(d)] = st2
      /\ \A k \in FecKey \ {key_of(d)} : states'[k] = states[k]
  BY <1>1, <1>2
<1>9. \A k \in FecKey : states[k].reconstructed => states'[k] = states[k]
  BY <1>2, <1>8 DEF SetEffect
<1> QED BY <1>1, <1>4, <1>6, <1>7, <1>8, <1>9

\* The finalized flag is the only field the second alternative changes.
LEMMA FlagSet ==
    ASSUME NEW ss \in SlotState
    PROVE  LET sf == [ss EXCEPT !.finalized = TRUE]
           IN  /\ sf \in SlotState
               /\ sf.seen_fec_indices = ss.seen_fec_indices
               /\ sf.reconstructed_fec_indices = ss.reconstructed_fec_indices
               /\ sf.last_shred_seen = ss.last_shred_seen
               /\ sf.last_fec_set_index = ss.last_fec_set_index
               /\ sf.finalized = TRUE
BY DEF SlotState

\* The roots an event reports are roots of reconstructed sets, at least one.
LEMMA ReportedRoots ==
    ASSUME NEW s \in Slots, NEW st \in [FecKey -> FecState], NEW ss,
           SlotInv(s, ss, st), may_finalize(ss),
           NEW roots, roots = finalization(s, ss, st).fec_roots
    PROVE  /\ roots \in FecRoots
           /\ DOMAIN roots # {}
           /\ \A i \in DOMAIN roots :
                 /\ i \in FecSetIndices
                 /\ st[<<s, i>>].reconstructed
                 /\ st[<<s, i>>].merkle_root = roots[i]
<1> DEFINE C == indices_to_check(ss)
<1>1. roots = [i \in C |-> st[<<s, i>>].merkle_root]
  BY DEF finalization, SlotFinalized
<1>2. ss \in SlotState
  BY DEF SlotInv
<1>3. C \subseteq FecSetIndices /\ C \subseteq ss.seen_fec_indices
  BY <1>2 DEF indices_to_check, SlotState
<1>4. ss.last_fec_set_index \in C
  <2>1. ss.last_fec_set_index \in ss.seen_fec_indices
    BY DEF may_finalize
  <2>2. ss.last_fec_set_index \in Nat
    BY <1>2, <2>1, FecSetIndicesAssumption DEF SlotState
  <2> QED BY <2>1, <2>2 DEF indices_to_check
<1>5. ASSUME NEW i \in C
      PROVE  /\ st[<<s, i>>].merkle_root \in MerkleRoots
             /\ st[<<s, i>>].reconstructed
  <2>1. <<s, i>> \in FecKey /\ i \in FecSetIndices
    BY <1>3 DEF FecKey
  <2>2. st[<<s, i>>] \in FecState
    BY <2>1
  <2>3. st[<<s, i>>].merkle_root # NoRoot
    BY <1>3, <2>1 DEF SlotInv
  <2>4. st[<<s, i>>].reconstructed
    BY <2>1 DEF SlotInv, may_finalize
  <2> QED BY <2>2, <2>3, <2>4 DEF FecState
<1>6. roots \in [C -> MerkleRoots]
  BY <1>1, <1>5
<1>7. roots \in FecRoots
  BY <1>3, <1>6 DEF FecRoots
<1> QED BY <1>1, <1>3, <1>4, <1>5, <1>7

\* An Effect preserves every conjunct of the invariant.
LEMMA EffectPreserves ==
    ASSUME IInv, NEW d \in Datagrams, NEW st2, NEW sn, Effect(d, st2, sn)
    PROVE  IInv'
<1> DEFINE s0 == d.slot
           k0 == key_of(d)
           roots == finalization(s0, sn, states').fec_roots
<1>1. /\ states' \in [FecKey -> FecState]
      /\ states'[k0] = st2
      /\ \A k \in FecKey \ {k0} : states'[k] = states[k]
      /\ \A k \in FecKey : states[k].reconstructed => states'[k] = states[k]
      /\ SlotInv(s0, sn, states')
      /\ sn.finalized = slots[s0].finalized
      /\ slots' \in [Slots -> SlotState]
      /\ \A s \in Slots \ {s0} : slots'[s] = slots[s]
      /\ finalizations[s0] \in Seq(FecRoots)
      /\ \A s \in Slots \ {s0} : finalizations'[s] = finalizations[s]
  BY EffectFacts
<1>2. /\ s0 \in Slots
      /\ k0 = <<s0, d.fec_set_index>>
      /\ slots \in [Slots -> SlotState]
      /\ finalizations \in [Slots -> Seq(FecRoots)]
      /\ sn \in SlotState
  BY <1>1, DatagramFields DEF IInv, TypeOK, SlotInv
<1>3. SlotInv(s0, slots'[s0], states')
  <2>1. CASE slots' = [slots EXCEPT ![s0] = sn]
    BY <1>1, <1>2, <2>1
  <2>2. CASE slots' = [slots EXCEPT ![s0] = [sn EXCEPT !.finalized = TRUE]]
    <3> DEFINE sf == [sn EXCEPT !.finalized = TRUE]
    <3>1. /\ sf \in SlotState
          /\ sf.seen_fec_indices = sn.seen_fec_indices
          /\ sf.reconstructed_fec_indices = sn.reconstructed_fec_indices
          /\ sf.last_shred_seen = sn.last_shred_seen
          /\ sf.last_fec_set_index = sn.last_fec_set_index
      BY <1>2, FlagSet
    <3> HIDE DEF sf
    <3>2. SlotInv(s0, sf, states')
      BY <1>1, <3>1 DEF SlotInv
    <3>3. slots'[s0] = sf
      BY <1>2, <2>2 DEF sf
    <3> QED BY <3>2, <3>3
  <2> QED BY <2>1, <2>2 DEF Effect
<1>4. \/ /\ ~may_finalize(sn)
         /\ slots'[s0] = sn
         /\ finalizations' = finalizations
      \/ /\ may_finalize(sn)
         /\ slots'[s0].finalized = TRUE
         /\ slots[s0].finalized = FALSE
         /\ finalizations' = [finalizations EXCEPT ![s0] = Append(@, roots)]
         /\ roots \in FecRoots
         /\ DOMAIN roots # {}
         /\ \A i \in DOMAIN roots :
               /\ i \in FecSetIndices
               /\ states'[<<s0, i>>].reconstructed
               /\ states'[<<s0, i>>].merkle_root = roots[i]
  <2>1. CASE /\ ~may_finalize(sn)
             /\ slots' = [slots EXCEPT ![s0] = sn]
             /\ finalizations' = finalizations
    BY <1>2, <2>1
  <2>2. CASE /\ may_finalize(sn)
             /\ slots' = [slots EXCEPT ![s0] = [sn EXCEPT !.finalized = TRUE]]
             /\ finalizations' = [finalizations EXCEPT ![s0] = Append(@, roots)]
    <3>1. slots'[s0].finalized = TRUE
      BY <1>2, <2>2, FlagSet
    <3>2. slots[s0].finalized = FALSE
      BY <1>1, <1>2, <2>2 DEF may_finalize, SlotState
    <3>3. /\ roots \in FecRoots
          /\ DOMAIN roots # {}
          /\ \A i \in DOMAIN roots :
                /\ i \in FecSetIndices
                /\ states'[<<s0, i>>].reconstructed
                /\ states'[<<s0, i>>].merkle_root = roots[i]
      <4>1. SlotInv(s0, sn, states') /\ may_finalize(sn) /\ s0 \in Slots
        BY <1>1, <1>2, <2>2
      <4>2. states' \in [FecKey -> FecState]
        BY <1>1
      <4>3. roots = finalization(s0, sn, states').fec_roots
        OBVIOUS
      <4> HIDE DEF roots
      <4> QED BY <4>1, <4>2, <4>3, ReportedRoots
    <3> QED BY <2>2, <3>1, <3>2, <3>3
  <2> QED BY <2>1, <2>2 DEF Effect
<1> HIDE DEF roots
<1>5. TypeOK'
  <2>1. finalizations' \in [Slots -> Seq(FecRoots)]
    <3>1. CASE finalizations' = finalizations
      BY <1>2, <3>1
    <3>2. CASE /\ finalizations' = [finalizations EXCEPT ![s0] = Append(@, roots)]
               /\ roots \in FecRoots
      <4>1. Append(finalizations[s0], roots) \in Seq(FecRoots)
        BY <1>1, <3>2
      <4> QED BY <1>2, <3>2, <4>1
    <3> QED BY <1>4, <3>1, <3>2
  <2> QED BY <1>1, <2>1 DEF TypeOK
<1>6. \A k \in FecKey : SetInv(k, states'[k])
  BY <1>1, SetInvIsInvariant DEF IInv, Effect, SetEffect
<1>7. ShardsOfOneBlock' /\ ReconstructedAtThreshold'
  BY <1>6 DEF SetInv, ShardsOfOneBlock, ReconstructedAtThreshold
<1>8. SlotAgreesWithSets'
  <2>1. ASSUME NEW s \in Slots PROVE SlotInv(s, slots'[s], states')
    <3>1. CASE s = s0
      BY <1>3, <3>1
    <3>2. CASE s # s0
      <4>1. SlotInv(s, slots[s], states) /\ slots'[s] = slots[s]
        BY <1>1, <3>2, SlotInvIsInvariant DEF IInv
      <4>2. \A i \in FecSetIndices : states'[<<s, i>>] = states[<<s, i>>]
        BY <1>1, <1>2, <3>2 DEF FecKey
      <4> QED BY <4>1, <4>2 DEF SlotInv
    <3> QED BY <3>1, <3>2
  <2> QED BY <2>1 DEF SlotAgreesWithSets, SlotInv
<1>9. NoMissedFinalization'
  <2>1. ASSUME NEW s \in Slots PROVE ~may_finalize(slots'[s])
    <3>1. CASE s = s0
      BY <1>4, <3>1 DEF may_finalize
    <3>2. CASE s # s0
      BY <1>1, <3>2 DEF IInv, NoMissedFinalization
    <3> QED BY <3>1, <3>2
  <2> QED BY <2>1 DEF NoMissedFinalization
<1>10. FinalizedOnce'
  <2>1. ASSUME NEW s \in Slots
        PROVE  Len(finalizations'[s]) = IF slots'[s].finalized THEN 1 ELSE 0
    <3>1. CASE s = s0
      <4>1. CASE finalizations' = finalizations /\ slots'[s0] = sn
        BY <1>1, <1>2, <3>1, <4>1 DEF IInv, FinalizedOnce
      <4>2. CASE /\ slots'[s0].finalized = TRUE
                 /\ slots[s0].finalized = FALSE
                 /\ finalizations' = [finalizations EXCEPT ![s0] = Append(@, roots)]
                 /\ roots \in FecRoots
        <5>1. Len(finalizations[s0]) = 0
          BY <1>2, <4>2 DEF IInv, FinalizedOnce
        <5>2. finalizations'[s0] = Append(finalizations[s0], roots)
          BY <1>2, <4>2
        <5>3. Len(finalizations'[s0]) = 1
          BY <1>1, <4>2, <5>1, <5>2
        <5> QED BY <3>1, <4>2, <5>3
      <4> QED BY <1>4, <4>1, <4>2
    <3>2. CASE s # s0
      BY <1>1, <3>2 DEF IInv, FinalizedOnce
    <3> QED BY <3>1, <3>2
  <2> QED BY <2>1 DEF FinalizedOnce
<1>11. FinalizationSound'
  <2>1. ASSUME NEW s \in Slots, NEW n \in DOMAIN finalizations'[s]
        PROVE  /\ DOMAIN finalizations'[s][n] # {}
               /\ \A i \in DOMAIN finalizations'[s][n] :
                     /\ states'[<<s, i>>].reconstructed
                     /\ states'[<<s, i>>].merkle_root = finalizations'[s][n][i]
    <3>1. ASSUME n \in DOMAIN finalizations[s], finalizations'[s][n] = finalizations[s][n]
          PROVE  /\ DOMAIN finalizations'[s][n] # {}
                 /\ \A i \in DOMAIN finalizations'[s][n] :
                       /\ states'[<<s, i>>].reconstructed
                       /\ states'[<<s, i>>].merkle_root = finalizations'[s][n][i]
      <4>1. finalizations[s][n] \in FecRoots
        BY <1>2, <3>1
      <4>2. \A i \in DOMAIN finalizations[s][n] : <<s, i>> \in FecKey
        BY <4>1 DEF FecRoots, FecKey
      <4> QED BY <1>1, <3>1, <4>2 DEF IInv, FinalizationSound
    <3>2. CASE finalizations'[s] = finalizations[s]
      BY <2>1, <3>1, <3>2
    <3>3. CASE /\ s = s0
               /\ finalizations' = [finalizations EXCEPT ![s0] = Append(@, roots)]
               /\ DOMAIN roots # {}
               /\ \A i \in DOMAIN roots :
                     /\ states'[<<s0, i>>].reconstructed
                     /\ states'[<<s0, i>>].merkle_root = roots[i]
      <4>1. finalizations'[s] = Append(finalizations[s], roots)
        BY <1>2, <3>3
      <4>2. CASE n = Len(finalizations[s]) + 1
        BY <1>2, <3>3, <4>1, <4>2
      <4>3. CASE n # Len(finalizations[s]) + 1
        <5>1. n \in DOMAIN finalizations[s] /\ finalizations'[s][n] = finalizations[s][n]
          BY <1>2, <2>1, <4>1, <4>3
        <5> QED BY <3>1, <5>1
      <4> QED BY <4>2, <4>3
    <3> QED BY <1>1, <1>4, <3>2, <3>3
  <2> QED BY <2>1 DEF FinalizationSound
<1> QED BY <1>5, <1>7, <1>8, <1>9, <1>10, <1>11 DEF IInv

-----------------------------------------------------------------------------
(***************************************************************************)
(* The theorems.                                                           *)
(***************************************************************************)
\* The empty assembler satisfies the invariant.
LEMMA InitIInv == Init => IInv
<1> SUFFICES ASSUME Init PROVE IInv
  OBVIOUS
<1>1. NewFecState \in FecState /\ NewSlotState \in SlotState
  BY DEF NewFecState, FecState, NewSlotState, SlotState
<1>2. TypeOK
  BY <1>1 DEF Init, TypeOK
<1>3. present(NewFecState) = {}
  BY DEF present, NewFecState
<1>4. ShardsOfOneBlock
  BY <1>3 DEF Init, ShardsOfOneBlock
<1>5. ReconstructedAtThreshold
  <2>1. Cardinality(present(NewFecState)) = 0
    BY <1>3, FS_EmptySet
  <2> QED BY <2>1, DataShredsAssumption DEF Init, ReconstructedAtThreshold, NewFecState
<1>6. SlotAgreesWithSets
  <2>1. /\ NewFecState.merkle_root = NoRoot
        /\ ~NewFecState.reconstructed
        /\ NewSlotState.seen_fec_indices = {}
        /\ NewSlotState.reconstructed_fec_indices = {}
        /\ ~NewSlotState.last_shred_seen
        /\ NewSlotState.last_fec_set_index = NoIndex
    BY DEF NewFecState, NewSlotState
  <2>2. \A s \in Slots : \A i \in FecSetIndices : states[<<s, i>>] = NewFecState
    BY DEF Init, FecKey
  <2>3. \A s \in Slots : slots[s] = NewSlotState
    BY DEF Init
  <2> QED BY <2>1, <2>2, <2>3 DEF SlotAgreesWithSets
<1>7. NoMissedFinalization
  BY DEF Init, NoMissedFinalization, NewSlotState, may_finalize
<1>8. FinalizedOnce
  BY DEF Init, FinalizedOnce, NewSlotState
<1>9. FinalizationSound
  BY DEF Init, FinalizationSound
<1> QED BY <1>2, <1>4, <1>5, <1>6, <1>7, <1>8, <1>9 DEF IInv

\* A step that touches neither map nor the history preserves the invariant.
LEMMA InertPreserves == IInv /\ Inert => IInv'
BY DEF IInv, Inert, TypeOK, ShardsOfOneBlock, ReconstructedAtThreshold,
       SlotAgreesWithSets, NoMissedFinalization, FinalizedOnce, FinalizationSound

\* Every step is inert or an Effect.
LEMMA StepEffect ==
    ASSUME IInv, [Next]_vars
    PROVE  Inert \/ \E d \in Datagrams : \E st2, sn : Effect(d, st2, sn)
<1>1. CASE Next
  <2>1. PICK d \in Datagrams : \E leader \in leader_for_slot(d.slot) : ingest(d, leader)
    BY <1>1 DEF Next
  <2>2. PICK leader \in leader_for_slot(d.slot) : ingest(d, leader)
    BY <2>1
  <2>3. Inert \/ \E st2, sn : Effect(d, st2, sn)
    BY <2>2, IngestEffect
  <2> QED BY <2>3
<1>2. CASE UNCHANGED vars
  BY <1>2 DEF vars, Inert
<1> QED BY <1>1, <1>2

\* The invariant is inductive.
LEMMA NextIInv == IInv /\ [Next]_vars => IInv'
<1> SUFFICES ASSUME IInv, [Next]_vars PROVE IInv'
  OBVIOUS
<1>1. CASE Inert
  BY <1>1, InertPreserves
<1>2. CASE \E d \in Datagrams : \E st2, sn : Effect(d, st2, sn)
  BY <1>2, EffectPreserves
<1> QED BY <1>1, <1>2, StepEffect

(***************************************************************************)
(* Every reachable state of the assembler satisfies the invariant.         *)
(***************************************************************************)
THEOREM Invariance == Spec => []IInv
BY InitIInv, NextIInv, PTL DEF Spec

(***************************************************************************)
(* The entries of both maps keep their type, and the confidence stored at  *)
(* reconstruction is 1.                                                    *)
(***************************************************************************)
THEOREM TypeCorrect == Spec => []TypeOK
<1>1. IInv => TypeOK
  BY DEF IInv
<1> QED BY Invariance, <1>1, PTL

(***************************************************************************)
(* Reed-Solomon is only ever given shreds of one block, signed by the      *)
(* leader of the slot, whatever an equivocating leader sends.              *)
(***************************************************************************)
THEOREM OneBlock == Spec => []ShardsOfOneBlock
<1>1. IInv => ShardsOfOneBlock
  BY DEF IInv
<1> QED BY Invariance, <1>1, PTL

(***************************************************************************)
(* A set is reconstructed exactly when the threshold of distinct shreds is *)
(* reached, and counts every stored shard once.                            *)
(***************************************************************************)
THEOREM Threshold == Spec => []ReconstructedAtThreshold
<1>1. IInv => ReconstructedAtThreshold
  BY DEF IInv
<1> QED BY Invariance, <1>1, PTL

(***************************************************************************)
(* The slot entry agrees with the FEC entries of the slot.                 *)
(***************************************************************************)
THEOREM SlotAgreement == Spec => []SlotAgreesWithSets
<1>1. IInv => SlotAgreesWithSets
  BY DEF IInv
<1> QED BY Invariance, <1>1, PTL

(***************************************************************************)
(* A slot whose seen sets are all reconstructed up to the marked one is    *)
(* finalized: skipping try_finalize_slot on the other paths loses nothing. *)
(***************************************************************************)
THEOREM NothingMissed == Spec => []NoMissedFinalization
<1>1. IInv => NoMissedFinalization
  BY DEF IInv
<1> QED BY Invariance, <1>1, PTL

(***************************************************************************)
(* SlotFinalized is returned exactly once per finalized slot, and what it  *)
(* reported stays true.                                                    *)
(***************************************************************************)
THEOREM ExactlyOnce == Spec => [](FinalizedOnce /\ FinalizationSound)
<1>1. IInv => FinalizedOnce /\ FinalizationSound
  BY DEF IInv
<1> QED BY Invariance, <1>1, PTL

\* The step form of Irrevocable.
LEMMA IrrevocableStep ==
    ASSUME IInv, [Next]_vars
    PROVE  /\ \A k \in FecKey :
                /\ states[k].merkle_root \in {NoRoot, states'[k].merkle_root}
                /\ states[k].reconstructed => states'[k] = states[k]
                /\ \A i \in present(states[k]) :
                       states'[k].shards[i] = states[k].shards[i]
           /\ \A s \in Slots :
                /\ slots[s].finalized =>
                       slots'[s].finalized /\ finalizations'[s] = finalizations[s]
                /\ slots[s].last_shred_seen =>
                       slots[s].last_fec_set_index <= slots'[s].last_fec_set_index
<1>1. CASE Inert
  <2>1. \A s \in Slots : slots[s].last_shred_seen => slots[s].last_fec_set_index \in Nat
    BY SlotInvIsInvariant, FecSetIndicesAssumption DEF IInv, SlotInv, SlotState
  <2> QED BY <1>1, <2>1 DEF Inert
<1>2. ASSUME NEW d \in Datagrams, NEW st2, NEW sn, Effect(d, st2, sn)
      PROVE  /\ \A k \in FecKey :
                  /\ states[k].merkle_root \in {NoRoot, states'[k].merkle_root}
                  /\ states[k].reconstructed => states'[k] = states[k]
                  /\ \A i \in present(states[k]) :
                         states'[k].shards[i] = states[k].shards[i]
             /\ \A s \in Slots :
                  /\ slots[s].finalized =>
                         slots'[s].finalized /\ finalizations'[s] = finalizations[s]
                  /\ slots[s].last_shred_seen =>
                         slots[s].last_fec_set_index <= slots'[s].last_fec_set_index
  <2>1. /\ states'[key_of(d)] = st2
        /\ \A k \in FecKey \ {key_of(d)} : states'[k] = states[k]
        /\ \A k \in FecKey : states[k].reconstructed => states'[k] = states[k]
        /\ SlotInv(d.slot, sn, states')
        /\ sn.finalized = slots[d.slot].finalized
        /\ slots[d.slot].last_shred_seen =>
              slots[d.slot].last_fec_set_index <= sn.last_fec_set_index
        /\ \A s \in Slots \ {d.slot} :
              slots'[s] = slots[s] /\ finalizations'[s] = finalizations[s]
    BY <1>2, EffectFacts
  <2>2. SetEffect(d, states[key_of(d)], st2)
    BY <1>2 DEF Effect
  <2>3. ASSUME NEW k \in FecKey
        PROVE  /\ states[k].merkle_root \in {NoRoot, states'[k].merkle_root}
               /\ states[k].reconstructed => states'[k] = states[k]
               /\ \A i \in present(states[k]) :
                      states'[k].shards[i] = states[k].shards[i]
    <3>1. CASE k = key_of(d)
      BY <2>1, <2>2, <3>1 DEF SetEffect
    <3>2. CASE k # key_of(d)
      BY <2>1, <3>2
    <3> QED BY <3>1, <3>2
  <2>4. ASSUME NEW s \in Slots
        PROVE  /\ slots[s].finalized =>
                      slots'[s].finalized /\ finalizations'[s] = finalizations[s]
               /\ slots[s].last_shred_seen =>
                      slots[s].last_fec_set_index <= slots'[s].last_fec_set_index
    <3>1. CASE s = d.slot
      <4>1. slots \in [Slots -> SlotState] /\ sn \in SlotState
        BY <2>1 DEF IInv, TypeOK, SlotInv
      <4>2. CASE slots' = [slots EXCEPT ![s] = sn] /\ finalizations' = finalizations
        <5>1. slots'[s] = sn
          BY <4>1, <4>2
        <5> QED BY <2>1, <3>1, <4>2, <5>1
      <4>3. CASE may_finalize(sn) /\ slots' = [slots EXCEPT ![s] = [sn EXCEPT !.finalized = TRUE]]
        <5>1. ~slots[s].finalized
          BY <2>1, <3>1, <4>3 DEF may_finalize
        <5>2. slots'[s] = [sn EXCEPT !.finalized = TRUE]
          BY <4>1, <4>3
        <5>3. slots'[s].last_fec_set_index = sn.last_fec_set_index
          BY <4>1, <5>2, FlagSet
        <5> QED BY <2>1, <3>1, <5>1, <5>3
      <4> QED BY <1>2, <3>1, <4>2, <4>3 DEF Effect
    <3>2. CASE s # d.slot
      <4>1. slots'[s] = slots[s] /\ finalizations'[s] = finalizations[s]
        BY <2>1, <3>2
      <4>2. slots[s].last_shred_seen => slots[s].last_fec_set_index \in Nat
        BY SlotInvIsInvariant, FecSetIndicesAssumption DEF IInv, SlotInv, SlotState
      <4> QED BY <4>1, <4>2
    <3> QED BY <3>1, <3>2
  <2> QED BY <2>3, <2>4
<1> QED BY <1>1, <1>2, StepEffect

(***************************************************************************)
(* No ingest undoes a captured root, a stored shard, a reconstruction, a   *)
(* finalization, or lowers the marked index.                               *)
(***************************************************************************)
THEOREM NothingUndone == Spec => Irrevocable
<1>1. IInv /\ [Next]_vars =>
         [/\ \A k \in FecKey :
                /\ states[k].merkle_root \in {NoRoot, states'[k].merkle_root}
                /\ states[k].reconstructed => states'[k] = states[k]
                /\ \A i \in present(states[k]) :
                       states'[k].shards[i] = states[k].shards[i]
          /\ \A s \in Slots :
                /\ slots[s].finalized =>
                       slots'[s].finalized /\ finalizations'[s] = finalizations[s]
                /\ slots[s].last_shred_seen =>
                       slots[s].last_fec_set_index <= slots'[s].last_fec_set_index
         ]_vars
  BY IrrevocableStep
<1> QED BY Invariance, <1>1, PTL DEF Spec, Irrevocable

-----------------------------------------------------------------------------
(***************************************************************************)
(* The aggregates of a finalization.  The folds of the community modules   *)
(* are a CHOOSE of a function on sets; over a constant family such a       *)
(* function depends on the size of the set only.                           *)
(***************************************************************************)
\* A set of naturals that is not empty has a least member.
LEMMA Least ==
    ASSUME NEW S \in SUBSET Nat, S # {}
    PROVE  \E x \in S : \A y \in S : x <= y
<1>1. IsWellFoundedOn(OpToRel(<, Nat), Nat)
  BY NatLessThanWellFounded
<1>2. PICK x \in S : \A y \in S : ~ (<<y, x>> \in OpToRel(<, Nat))
  BY <1>1, WFMin
<1>3. ASSUME NEW y \in S PROVE x <= y
  <2>1. ~ (y < x)
    BY <1>2 DEF OpToRel
  <2> QED BY <2>1
<1> QED BY <1>3

\* g takes one step of h per element.
Stepwise(S, g, h) ==
    /\ g[{}] = h[0]
    /\ \A s \in SUBSET S : s # {} =>
          \E x \in s : \A n \in Nat : g[s \ {x}] = h[n] => g[s] = h[n + 1]

\* A function on sets that takes one step per element is known by counting.
LEMMA Counted ==
    ASSUME NEW S, IsFiniteSet(S), NEW g, NEW h, Stepwise(S, g, h)
    PROVE  g[S] = h[Cardinality(S)]
<1> DEFINE Bad == {n \in Nat : \E s \in SUBSET S : Cardinality(s) = n /\ g[s] # h[n]}
<1>1. Bad = {}
  <2> SUFFICES ASSUME Bad # {} PROVE FALSE
    OBVIOUS
  <2>1. PICK n \in Bad : \A y \in Bad : n <= y
    <3>1. Bad \in SUBSET Nat
      OBVIOUS
    <3> HIDE DEF Bad
    <3> QED BY <3>1, Least
  <2>2. PICK s \in SUBSET S : Cardinality(s) = n /\ g[s] # h[n]
    OBVIOUS
  <2>3. n \in Nat /\ IsFiniteSet(s)
    BY FS_Subset
  <2>4. s # {}
    BY <2>2, FS_EmptySet DEF Stepwise
  <2>5. PICK x \in s : \A m \in Nat : g[s \ {x}] = h[m] => g[s] = h[m + 1]
    BY <2>4 DEF Stepwise
  <2>6. Cardinality(s \ {x}) = n - 1 /\ n # 0
    BY <2>2, <2>3, <2>4, FS_RemoveElement, FS_EmptySet
  <2>7. n - 1 \in Nat /\ ~ (n <= n - 1) /\ (n - 1) + 1 = n
    BY <2>3, <2>6
  <2>8. n - 1 \notin Bad
    <3> HIDE DEF Bad
    <3> QED BY <2>1, <2>7
  <2>9. s \ {x} \in SUBSET S
    OBVIOUS
  <2>10. g[s \ {x}] = h[n - 1]
    BY <2>6, <2>7, <2>8, <2>9
  <2> QED BY <2>2, <2>5, <2>7, <2>10
<1>2. Cardinality(S) \in Nat /\ S \in SUBSET S
  BY FS_CardinalityType
<1> QED BY <1>1, <1>2

\* A member of a set that is not empty.
LEMMA Chosen ==
    ASSUME NEW s, s # {}
    PROVE  (CHOOSE x \in s : TRUE) \in s
OBVIOUS

\* The sum of the same number over a set.
LEMMA SumConstant ==
    ASSUME NEW S, IsFiniteSet(S), NEW c \in Nat, NEW f, f = [i \in S |-> c]
    PROVE  SumFunction(f) = c * Cardinality(S)
<1> DEFINE some(s) == CHOOSE x \in s : TRUE
           body(g) == [s \in SUBSET S |-> IF s = {} THEN 0 ELSE f[some(s)] + g[s \ {some(s)}]]
           it == CHOOSE g : g = body(g)
           w == [s \in SUBSET S |-> c * Cardinality(s)]
           h == [n \in Nat |-> c * n]
<1>1. SumFunction(f) = it[S]
  <2>1. DOMAIN f = S
    OBVIOUS
  <2> QED BY <2>1 DEF SumFunction, SumFunctionOnSet, FoldFunctionOnSet, MapThenFoldSet
<1>2. \A s \in SUBSET S : s # {} => some(s) \in s /\ f[some(s)] = c
  BY Chosen
<1>3. \A s \in SUBSET S : /\ IsFiniteSet(s) /\ Cardinality(s) \in Nat
                          /\ s \ {some(s)} \in SUBSET S
                          /\ s # {} => Cardinality(s) = Cardinality(s \ {some(s)}) + 1
  <2> SUFFICES ASSUME NEW s \in SUBSET S
               PROVE  /\ IsFiniteSet(s) /\ Cardinality(s) \in Nat
                      /\ s \ {some(s)} \in SUBSET S
                      /\ s # {} => Cardinality(s) = Cardinality(s \ {some(s)}) + 1
    OBVIOUS
  <2>1. IsFiniteSet(s) /\ Cardinality(s) \in Nat
    BY FS_Subset, FS_CardinalityType
  <2>2. ASSUME s # {} PROVE Cardinality(s) = Cardinality(s \ {some(s)}) + 1
    <3>1. Cardinality(s \ {some(s)}) = Cardinality(s) - 1
      BY <1>2, <2>1, <2>2, FS_RemoveElement
    <3> QED BY <2>1, <3>1
  <2> QED BY <2>1, <2>2
<1> HIDE DEF some
<1>4. \A n \in Nat : h[n] = c * n /\ h[n + 1] = c + h[n]
  OBVIOUS
<1>5. w = body(w)
  <2>1. ASSUME NEW s \in SUBSET S
        PROVE  w[s] = IF s = {} THEN 0 ELSE f[some(s)] + w[s \ {some(s)}]
    <3>1. CASE s = {}
      <4>1. w[s] = c * 0
        BY <3>1, FS_EmptySet
      <4> QED BY <3>1, <4>1
    <3>2. CASE s # {}
      <4> DEFINE n == Cardinality(s \ {some(s)})
      <4>1. n \in Nat /\ Cardinality(s) = n + 1 /\ w[s \ {some(s)}] = c * n
        BY <1>3, <3>2
      <4>2. w[s] = c * (n + 1)
        BY <4>1
      <4> HIDE DEF n, w
      <4>3. c * (n + 1) = c + c * n
        BY <4>1
      <4> QED BY <1>2, <3>2, <4>1, <4>2, <4>3
    <3> QED BY <3>1, <3>2
  <2> QED BY <2>1
<1>6. it = body(it)
  <2> HIDE DEF w, body
  <2> QED BY <1>5
<1> HIDE DEF it, w
<1>7. it[{}] = h[0]
  BY <1>4, <1>6
<1>8. ASSUME NEW s \in SUBSET S, s # {}
      PROVE  \E x \in s : \A n \in Nat : it[s \ {x}] = h[n] => it[s] = h[n + 1]
  <2>1. it[s] = c + it[s \ {some(s)}] /\ some(s) \in s
    BY <1>2, <1>6, <1>8
  <2> QED BY <1>4, <2>1
<1> HIDE DEF h
<1>9. it[S] = h[Cardinality(S)]
  <2>1. Stepwise(S, it, h)
    BY <1>7, <1>8 DEF Stepwise
  <2> QED BY <2>1, Counted
<1>10. Cardinality(S) \in Nat
  BY FS_CardinalityType
<1> QED BY <1>1, <1>4, <1>9, <1>10

\* One factor m per element.
times(g, S, m) ==
    [s \in SUBSET S |-> IF s = {} THEN 1 ELSE m * g[s \ {CHOOSE x \in s : TRUE}]]

power(m) == [n \in Nat |-> IF n = 0 \/ m = 1 THEN 1 ELSE 0]

LEMMA ProductConstant ==
    ASSUME NEW S, IsFiniteSet(S), NEW m \in {0, 1}
    PROVE  /\ \E w : w = times(w, S, m)
           /\ \A g : g = times(g, S, m) => g[S] = power(m)[Cardinality(S)]
<1> DEFINE some(s) == CHOOSE x \in s : TRUE
           w == [s \in SUBSET S |-> IF s = {} \/ m = 1 THEN 1 ELSE 0]
<1>1. \A s \in SUBSET S : s # {} => some(s) \in s
  BY Chosen
<1>2. \A g : times(g, S, m) =
              [s \in SUBSET S |-> IF s = {} THEN 1 ELSE m * g[s \ {some(s)}]]
  BY DEF times
<1> HIDE DEF some
<1>3. w = times(w, S, m)
  <2>1. ASSUME NEW s \in SUBSET S
        PROVE  w[s] = IF s = {} THEN 1 ELSE m * w[s \ {some(s)}]
    <3>1. s \ {some(s)} \in SUBSET S
      OBVIOUS
    <3>2. w[s \ {some(s)}] \in {0, 1} /\ (m = 1 => w[s \ {some(s)}] = 1)
      BY <3>1
    <3>3. w[s] = IF s = {} \/ m = 1 THEN 1 ELSE 0
      OBVIOUS
    <3> HIDE DEF w
    <3> QED BY <3>2, <3>3
  <2>2. w = [s \in SUBSET S |-> w[s]]
    OBVIOUS
  <2> HIDE DEF w
  <2>3. times(w, S, m) = [s \in SUBSET S |-> IF s = {} THEN 1 ELSE m * w[s \ {some(s)}]]
    BY <1>2
  <2> QED BY <2>1, <2>2, <2>3
<1> DEFINE h == power(m)
<1>4. h[0] = 1 /\ \A n \in Nat : h[n + 1] = m * h[n]
  BY DEF power
<1> HIDE DEF h
<1>5. ASSUME NEW g, g = times(g, S, m)
      PROVE  g[S] = h[Cardinality(S)]
  <2>1. \A s \in SUBSET S : g[s] = IF s = {} THEN 1 ELSE m * g[s \ {some(s)}]
    BY <1>2, <1>5
  <2>2. g[{}] = h[0]
    BY <1>4, <2>1
  <2>3. ASSUME NEW s \in SUBSET S, s # {}
        PROVE  \E x \in s : \A n \in Nat : g[s \ {x}] = h[n] => g[s] = h[n + 1]
    <3>1. some(s) \in s /\ g[s] = m * g[s \ {some(s)}]
      BY <1>1, <2>1, <2>3
    <3> QED BY <1>4, <3>1
  <2>4. Stepwise(S, g, h)
    BY <2>2, <2>3 DEF Stepwise
  <2> QED BY <2>4, Counted
<1> QED BY <1>3, <1>5 DEF h

\* The slot is as certain as its sets, if there is one.
LEMMA CertainTogether ==
    ASSUME NEW S, IsFiniteSet(S), S # {}, NEW f, f = [i \in S |-> <<1, 1>>]
    PROVE  SlotDasConfidence(f) = <<1, 1>>
<1> DEFINE some(s) == CHOOSE x \in s : TRUE
           missed(g) == [s \in SUBSET S |-> IF s = {} THEN 1
                           ELSE (f[some(s)][2] - f[some(s)][1]) * g[s \ {some(s)}]]
           whole(g) == [s \in SUBSET S |-> IF s = {} THEN 1 ELSE f[some(s)][2] * g[s \ {some(s)}]]
           undetect == (CHOOSE g : g = missed(g))[S]
           den == (CHOOSE g : g = whole(g))[S]
<1>1. SlotDasConfidence(f) = <<den - undetect, den>>
  <2>1. DOMAIN f = S
    OBVIOUS
  <2> QED BY <2>1 DEF SlotDasConfidence, FoldFunction, FoldFunctionOnSet, MapThenFoldSet
<1>2. \A s \in SUBSET S : s # {} => f[some(s)] = <<1, 1>>
  BY Chosen
<1>3. Cardinality(S) \in Nat /\ Cardinality(S) # 0
  BY FS_CardinalityType, FS_EmptySet
<1>4. undetect = 0
  <2>1. \A g : missed(g) = times(g, S, 0)
    BY <1>2 DEF times
  <2> HIDE DEF missed
  <2>2. PICK w : w = times(w, S, 0)
    BY ProductConstant
  <2> DEFINE it == CHOOSE g : g = missed(g)
  <2>3. it = missed(it)
    BY <2>1, <2>2
  <2> HIDE DEF it
  <2>4. it[S] = power(0)[Cardinality(S)]
    BY <2>1, <2>3, ProductConstant
  <2> QED BY <1>3, <2>4 DEF power, it
<1>5. den = 1
  <2>1. \A g : whole(g) = times(g, S, 1)
    BY <1>2 DEF times
  <2> HIDE DEF whole
  <2>2. PICK w : w = times(w, S, 1)
    BY ProductConstant
  <2> DEFINE it == CHOOSE g : g = whole(g)
  <2>3. it = whole(it)
    BY <2>1, <2>2
  <2> HIDE DEF it
  <2>4. it[S] = power(1)[Cardinality(S)]
    BY <2>1, <2>3, ProductConstant
  <2> QED BY <1>3, <2>4 DEF power, it
<1> HIDE DEF undetect, den
<1> QED BY <1>1, <1>4, <1>5

\* The slot reports 32 shreds per covered set, and certainty.
LEMMA AggregatesOf ==
    ASSUME NEW s \in Slots, NEW st, \A k \in FecKey : SetInv(k, st[k]),
           NEW ss, SlotInv(s, ss, st), may_finalize(ss),
           NEW ev, ev = finalization(s, ss, st)
    PROVE  /\ ev.slot_das_confidence = Certain
           /\ ev.total_shreds_observed = DATA_SHREDS_PER_FEC * Cardinality(DOMAIN ev.fec_roots)
<1> DEFINE S == indices_to_check(ss)
<1>1. /\ ss.seen_fec_indices \subseteq FecSetIndices
      /\ ss.last_fec_set_index \in ss.seen_fec_indices
      /\ ss.last_fec_set_index \in Nat
      /\ S \subseteq ss.reconstructed_fec_indices
  BY FecSetIndicesAssumption DEF SlotInv, SlotState, may_finalize
<1>2. S # {}
  BY <1>1 DEF indices_to_check
<1>3. IsFiniteSet(S)
  <2>1. S \subseteq 0 .. ss.last_fec_set_index
    <3>1. \A i \in S : i \in Nat /\ i <= ss.last_fec_set_index
      BY <1>1, FecSetIndicesAssumption DEF indices_to_check
    <3> HIDE DEF S
    <3> QED BY <1>1, <3>1
  <2>2. IsFiniteSet(0 .. ss.last_fec_set_index)
    BY <1>1, FS_Interval
  <2> QED BY <2>1, <2>2, FS_Subset
<1>4. ASSUME NEW i \in S
      PROVE  /\ st[<<s, i>>].distinct_seen = DATA_SHREDS_PER_FEC
             /\ st[<<s, i>>].das_confidence_at_reconstruct = <<1, 1>>
  <2>1. i \in FecSetIndices /\ <<s, i>> \in FecKey
    BY <1>1 DEF indices_to_check, FecKey
  <2>2. st[<<s, i>>].reconstructed
    BY <1>1, <2>1 DEF SlotInv
  <2> QED BY <2>1, <2>2 DEF SetInv, Certain
<1> DEFINE counts == [i \in S |-> st[<<s, i>>].distinct_seen]
           confs == [i \in S |-> st[<<s, i>>].das_confidence_at_reconstruct]
<1>5. counts = [i \in S |-> DATA_SHREDS_PER_FEC] /\ confs = [i \in S |-> <<1, 1>>]
  BY <1>4
<1>6. /\ ev.slot_das_confidence = SlotDasConfidence(confs)
      /\ ev.total_shreds_observed = SumFunction(counts)
      /\ DOMAIN ev.fec_roots = S
  BY DEF finalization, SlotFinalized
<1> HIDE DEF S, counts, confs
<1>7. SlotDasConfidence(confs) = <<1, 1>>
  BY <1>2, <1>3, <1>5, CertainTogether
<1>8. SumFunction(counts) = DATA_SHREDS_PER_FEC * Cardinality(S)
  BY <1>3, <1>5, SumConstant, DataShredsAssumption
<1> QED BY <1>6, <1>7, <1>8 DEF Certain

\* A sequence of events none of which finalizes a slot.
Ordinary(evs) == \E T : evs \in Seq(T) /\ \A e \in T : e.type # "SlotFinalized"

LEMMA OrdinaryOne ==
    ASSUME NEW e, e.type # "SlotFinalized"
    PROVE  Ordinary(<<e>>)
<1>1. \A q : q \in Seq({e}) => Ordinary(q)
  BY DEF Ordinary
<1>2. <<e>> \in Seq({e})
  OBVIOUS
<1> QED BY <1>1, <1>2

LEMMA OrdinaryMore ==
    ASSUME NEW evs, Ordinary(evs), NEW e, e.type # "SlotFinalized"
    PROVE  Ordinary(Append(evs, e))
<1>1. PICK T : evs \in Seq(T) /\ \A x \in T : x.type # "SlotFinalized"
  BY DEF Ordinary
<1>2. evs \in Seq(T \cup {e})
  BY <1>1
<1>3. Append(evs, e) \in Seq(T \cup {e})
  BY <1>2
<1> QED BY <1>1, <1>3 DEF Ordinary

LEMMA OrdinarySetEvents ==
    ASSUME NEW d, NEW st, NEW st2, NEW evs, SetEvents(d, st, st2, evs)
    PROVE  Ordinary(evs)
<1>1. Ordinary(<<>>)
  <2>1. \A q : q \in Seq({Rejected("parse")}) => Ordinary(q)
    BY DEF Ordinary, Rejected
  <2>2. <<>> \in Seq({Rejected("parse")})
    OBVIOUS
  <2> QED BY <2>1, <2>2
<1>2. /\ \A reason : Rejected(reason).type # "SlotFinalized"
      /\ \A k, x : Started(k, x).type # "SlotFinalized"
      /\ \A k, n, i : ShredAccepted(k, n, i).type # "SlotFinalized"
      /\ \A k, x, c : Reconstructed(k, x, c).type # "SlotFinalized"
  BY DEF Rejected, Started, ShredAccepted, Reconstructed
<1>3. Ordinary(started(st, d))
  BY <1>1, <1>2, OrdinaryOne DEF started
<1>4. Ordinary(accepted(st, d))
  BY <1>2, <1>3, OrdinaryMore DEF accepted
<1>5. CASE evs = <<>>
  BY <1>1, <1>5
<1>6. CASE \E reason : evs = <<Rejected(reason)>>
  BY <1>2, <1>6, OrdinaryOne
<1>7. CASE \E reason : evs = Append(started(st, d), Rejected(reason))
  BY <1>2, <1>3, <1>7, OrdinaryMore
<1>8. CASE evs = accepted(st, d)
  BY <1>4, <1>8
<1>9. CASE \E das : evs = Append(accepted(st, d), Reconstructed(key_of(d), st2.merkle_root, das))
  BY <1>2, <1>4, <1>9, OrdinaryMore
<1> QED BY <1>5, <1>6, <1>7, <1>8, <1>9 DEF SetEvents

\* What the code puts into a SlotFinalized event.
ReportedAggregates ==
    \A n \in DOMAIN events :
        LET ev == events[n]
        IN  ev.type = "SlotFinalized" =>
                /\ ev.slot_das_confidence = Certain
                /\ ev.total_shreds_observed =
                       DATA_SHREDS_PER_FEC * Cardinality(DOMAIN ev.fec_roots)

\* What an ingest returns, whatever it returned before.
LEMMA IngestAggregates ==
    ASSUME IInv, NEW d \in Datagrams, NEW leader \in leader_for_slot(d.slot), ingest(d, leader)
    PROVE  ReportedAggregates'
<1>1. CASE verify_shred(d, leader)
  <2>1. PICK st2, sn, evs : /\ Effect(d, st2, sn)
                            /\ SetEvents(d, states[key_of(d)], st2, evs)
                            /\ Announces(d, sn, evs)
    BY <1>1, IngestOutcome
  <2>2. PICK T : evs \in Seq(T) /\ \A x \in T : x.type # "SlotFinalized"
    BY <2>1, OrdinarySetEvents DEF Ordinary
  <2>3. \A n \in DOMAIN evs : evs[n].type # "SlotFinalized"
    BY <2>2
  <2>4. CASE ~may_finalize(sn)
    <3>1. events' = evs
      BY <2>1, <2>4 DEF Announces
    <3> QED BY <2>3, <3>1 DEF ReportedAggregates
  <2>5. CASE may_finalize(sn)
    <3> DEFINE ev == finalization(d.slot, sn, states')
    <3>1. events' = Append(evs, ev)
      BY <2>1, <2>5 DEF Announces
    <3>2. /\ states'[key_of(d)] = st2
          /\ \A k \in FecKey \ {key_of(d)} : states'[k] = states[k]
          /\ SlotInv(d.slot, sn, states')
      BY <2>1, EffectFacts
    <3>3. \A k \in FecKey : SetInv(k, states'[k])
      <4>1. \A k \in FecKey : SetInv(k, states[k])
        BY SetInvIsInvariant DEF IInv
      <4>2. SetInv(key_of(d), st2)
        BY <2>1 DEF Effect, SetEffect
      <4> QED BY <3>2, <4>1, <4>2
    <3>4. d.slot \in Slots
      BY DatagramFields
    <3> HIDE DEF ev
    <3>5. /\ ev.slot_das_confidence = Certain
          /\ ev.total_shreds_observed = DATA_SHREDS_PER_FEC * Cardinality(DOMAIN ev.fec_roots)
      BY <2>5, <3>2, <3>3, <3>4, AggregatesOf DEF ev
    <3>6. \A n \in DOMAIN events' : events'[n] = ev \/ events'[n].type # "SlotFinalized"
      <4>1. evs \in Seq(T \cup {ev})
        BY <2>2
      <4>2. \A n \in DOMAIN Append(evs, ev) :
               Append(evs, ev)[n] = ev \/ (n \in DOMAIN evs /\ Append(evs, ev)[n] = evs[n])
        BY <4>1
      <4> QED BY <2>3, <3>1, <4>2
    <3> QED BY <3>5, <3>6 DEF ReportedAggregates
  <2> QED BY <2>4, <2>5
<1>2. CASE ~verify_shred(d, leader)
  <2>1. PICK reason : events' = <<Rejected(reason)>>
    BY <1>2, IngestOutcome
  <2>2. \A n \in DOMAIN events' : events'[n].type = "Rejected"
    BY <2>1 DEF Rejected
  <2> QED BY <2>2 DEF ReportedAggregates
<1> QED BY <1>1, <1>2

(***************************************************************************)
(* try_finalize_slot reports DATA_SHREDS_PER_FEC shreds per covered set    *)
(* and confidence 1, for every number of sets in the slot and whatever     *)
(* arrived: neither number tells more than how many sets there are.  The   *)
(* total is thus not the number of shreds observed, as the field's comment *)
(* has it (TotalIsObserved of FecAssemblerHistory).                        *)
(***************************************************************************)
THEOREM Aggregates == Spec => []ReportedAggregates
<1>1. Init => ReportedAggregates
  BY DEF Init, ReportedAggregates
<1>2. IInv /\ ReportedAggregates /\ [Next]_vars => ReportedAggregates'
  <2> SUFFICES ASSUME IInv, ReportedAggregates, [Next]_vars
               PROVE  ReportedAggregates'
    OBVIOUS
  <2>1. CASE Next
    BY <2>1, IngestAggregates DEF Next
  <2>2. CASE UNCHANGED vars
    BY <2>2 DEF vars, ReportedAggregates
  <2> QED BY <2>1, <2>2
<1> QED BY <1>1, <1>2, Invariance, PTL DEF Spec

=============================================================================

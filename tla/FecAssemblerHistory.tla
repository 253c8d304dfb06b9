------------------------ MODULE FecAssemblerHistory ------------------------
(***************************************************************************)
(* FecAssembler with a history of its inputs: the datagrams that passed    *)
(* verify_shred so far.  It states what the assembler's output must be as  *)
(* a function of what arrived, whatever the order and the repetitions.     *)
(***************************************************************************)
EXTENDS FecAssembler

VARIABLE received       \* history: the verified datagrams ingested so far

HistoryInit == Init /\ received = {}

HistoryNext ==
    \E d \in Datagrams : \E leader \in leader_for_slot(d.slot) :
        /\ ingest(d, leader)
        /\ received' = received \cup IF verify_shred(d, leader) THEN {d} ELSE {}

HistorySpec == HistoryInit /\ [][HistoryNext]_<<vars, received>>

-----------------------------------------------------------------------------
\* The shard indices that arrived for set k under the root its state captured.
arrived(k) ==
    {erasure_shard_index(d) :
        d \in {e \in received : key_of(e) = k
                                /\ e.merkle_root = states[k].merkle_root}}
        \cap ShardIndices

\* The set arrived well enough to be recovered.
recoverable(k) == Cardinality(arrived(k)) >= DATA_SHREDS_PER_FEC

marked(s) == {d.fec_set_index : d \in {e \in received : e.slot = s /\ is_last_in_slot(e)}}

(***************************************************************************)
(* Reconstruction is complete and order-independent: a set is reconstructed*)
(* exactly when 32 distinct shreds of the block it committed to arrived,   *)
(* no matter in which order, how often, and between which rejected shreds. *)
(***************************************************************************)
ReconstructsWhatArrived ==
    \A k \in FecKey : states[k].reconstructed <=> recoverable(k)

(***************************************************************************)
(* Finalization is complete: when a marked shred arrived and every set at  *)
(* or below the highest mark of which anything arrived is recoverable, the *)
(* slot is finalized, also when the mark itself is the last to come.       *)
(***************************************************************************)
FinalizesWhatArrived ==
    \A s \in Slots :
        /\ marked(s) # {}
        /\ \A d \in received :
              /\ d.slot = s
              /\ \E i \in marked(s) : d.fec_set_index <= i
              => recoverable(key_of(d))
        => slots[s].finalized

(***************************************************************************)
(* The bookkeeping is what the verified shreds make it and nothing else:   *)
(* an entry exists for a set or a slot only if such a shred arrived for it *)
(* (rejected datagrams cost no memory), the marker is the highest one that *)
(* arrived, on an accepted shred or not, and as recovered shreds are not   *)
(* looked at, a slot of which no marked shred arrives is not finalized.    *)
(***************************************************************************)
TracksVerified ==
    /\ \A k \in FecKey :
          states[k] # NewFecState <=> \E d \in received : key_of(d) = k
    /\ \A s \in Slots :
          /\ slots[s].seen_fec_indices = {d.fec_set_index : d \in {e \in received : e.slot = s}}
          /\ slots[s].last_shred_seen <=> marked(s) # {}
          /\ slots[s].last_shred_seen =>
                /\ slots[s].last_fec_set_index \in marked(s)
                /\ \A i \in marked(s) : i <= slots[s].last_fec_set_index
          /\ marked(s) = {} => ~slots[s].finalized

-----------------------------------------------------------------------------
(***************************************************************************)
(* What the comment of FecEvent::SlotFinalized claims.                     *)
(***************************************************************************)
\* Every FEC set the leader signed for slot s.
sets_of_slot(s) ==
    {d.fec_set_index :
        d \in {e \in Datagrams : e.slot = s /\ verify_shred(e, Leader[s])}}

(***************************************************************************)
(* "All FEC sets in the slot have been reconstructed": a SlotFinalized     *)
(* event covers every FEC set of the leader's block.                       *)
(***************************************************************************)
FinalizationCoversSlot ==
    \A s \in Slots : \A n \in DOMAIN finalizations[s] :
        DOMAIN finalizations[s][n] = sets_of_slot(s)

(***************************************************************************)
(* "Total distinct shreds observed across all FEC sets in the slot"        *)
(* (lib.rs:63): total_shreds_observed counts at least every distinct shred *)
(* that arrived for a set the event covers, under the root it reports.     *)
(* ingest stops counting a set at its 32nd shred.                          *)
(***************************************************************************)
TotalIsObserved ==
    \A n \in DOMAIN events :
        LET ev == events[n]
        IN  ev.type = "SlotFinalized" =>
                ev.total_shreds_observed >=
                    SumFunction([i \in DOMAIN ev.fec_roots |-> Cardinality(arrived(<<ev.slot, i>>))])

=============================================================================

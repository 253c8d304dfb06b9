-------------------------------- MODULE Demo --------------------------------
(***************************************************************************)
(* The das-demo and slot-demo commands of crates/cli/src/main.rs: sets     *)
(* built by the leader's code are fed to an assembler, in order, and the   *)
(* command reports what the events say.                                    *)
(***************************************************************************)
EXTENDS FecAssembler, FecSet

CONSTANTS
    slot,           \* the slot of the demos
    set_a, set_b    \* FecSetParams of the sets

\* Both sets are the demo leader's, of one slot, at 0 and at 32; only the second
\* carries the LAST_SHRED_IN_SLOT flag.
ASSUME SetsAssumption ==
    /\ slot \in Slots
    /\ \A p \in {set_a, set_b} :
          p \in FecSetParams /\ p.slot = slot /\ p.signing_key = Leader[slot]
    /\ set_a.fec_set_index = 0 /\ ~set_a.last
    /\ set_b.fec_set_index = DATA_SHREDS_PER_FEC /\ set_b.last

\* What is built can be sent.
ASSUME SentAssumption ==
    \A p \in {set_a, set_b} : \A n \in 1 .. SHREDS_PER_FEC :
        build_fec_set(p)[n] \in Datagrams

VARIABLES
    command,            \* <<"das", n>> or <<"slot">>
    feed,               \* the shreds still to be ingested
    reconstructed,      \* das-demo: a Reconstructed event came
    finalized_seen,     \* slot-demo: SlotFinalized events
    rejected            \* Rejected events

dvars == <<command, feed, reconstructed, finalized_seen, rejected>>

take(n, shreds) == SubSeq(shreds, 1, n)

das_feed(n) == take(n, build_fec_set(set_a))

slot_feed ==
    take(DATA_SHREDS_PER_FEC, build_fec_set(set_a))
        \o take(DATA_SHREDS_PER_FEC, build_fec_set(set_b))

DemoInit ==
    /\ Init
    /\ \/ \E n \in 0 .. SHREDS_PER_FEC : command = <<"das", n>> /\ feed = das_feed(n)
       \/ command = <<"slot">> /\ feed = slot_feed
    /\ reconstructed = FALSE
    /\ finalized_seen = 0
    /\ rejected = 0

count(evs, type) == Cardinality({n \in DOMAIN evs : evs[n].type = type})

\* One turn of the loop: a shred is ingested and its events are looked at.
Feed ==
    /\ feed # <<>>
    /\ ingest(Head(feed), Leader[slot])
    /\ feed' = Tail(feed)
    /\ reconstructed' = (reconstructed \/ count(events', "Reconstructed") > 0)
    /\ finalized_seen' = finalized_seen + count(events', "SlotFinalized")
    /\ rejected' = rejected + count(events', "Rejected")
    /\ UNCHANGED command

DemoSpec == DemoInit /\ [][Feed]_<<vars, dvars>>

-----------------------------------------------------------------------------
(***************************************************************************)
(* Leader and listener agree on the layout of a set: the assembler rejects *)
(* no shred that build_fec_set made, and stores each at its own position.  *)
(***************************************************************************)
BuiltShredsAccepted ==
    /\ rejected = 0
    /\ \A k \in FecKey : \A i \in present(states[k]) :
          \E p \in {set_a, set_b} :
              p.fec_set_index = k[2] /\ build_fec_set(p)[i + 1] = states[k].shards[i]

(***************************************************************************)
(* The commands show what they claim to: every shred they build is taken   *)
(* and stored where it belongs, das-demo recovers the block exactly when   *)
(* at least 32 shreds are delivered and never finalizes its slot, and      *)
(* slot-demo sees exactly one SlotFinalized, when the last shred is in.    *)
(***************************************************************************)
DemoVerdicts ==
    /\ BuiltShredsAccepted
    /\ feed = <<>> =>
          IF command[1] = "das"
          THEN (reconstructed <=> command[2] >= DATA_SHREDS_PER_FEC) /\ finalized_seen = 0
          ELSE finalized_seen = 1

=============================================================================

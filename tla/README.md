# Lattica in TLA+

Lattica listens to Solana shreds over UDP, verifies them against the slot
leader, reassembles erasure-coded FEC sets, and reports when a slot is complete;
beside it, it builds and verifies attestations of a slot's account changes with
a lattice hash, and has a liquidator for the Drift program in its paper and
simulation modes. This directory holds TLA+ modules that model that code, TLC
configurations that check them on small instances, and TLAPS proofs of the main
theorems. Source paths below are relative to `src/crates/`. `PROJECT.json` maps
every definition to the lines it models.

## 1. The system

| Component | Source | State | Operations |
|---|---|---|---|
| FEC assembler | `listener/src/lib.rs` | `states: FecKey -> FecState`, `slots: u64 -> SlotState` | `ingest`, `try_finalize_slot` |
| Leader resolver | `listener/src/leader.rs` | `cache` under a RwLock, `inflight` mutex | `leader_for_slot`, `fill_window`, `fetch_window` |
| UDP task and consumer | `listener/src/udp.rs`, `listener/src/main.rs` | the socket loop, an mpsc channel of 1024 events | receive, ingest, send; consume, print |
| Shred verification | `shred/src/lib.rs` | none | `parse_shred`, `compute_merkle_root`, `verify_shred` |
| FEC set construction | `shred/src/fec_set.rs` | none | `build_fec_set`, `build_tree`, `merkle_proof` |
| Reed-Solomon | `reedsol/src/lib.rs` | none | `reconstruct` (wraps a library) |
| Lattice hash | `lthash/src/lib.rs` | a group element | `mix_in`, `mix_out`, `hash_account`, `SlotDelta::mix` |
| Attestation | `attest/src/lib.rs` | none | `Attestation::from_delta`, `verify_slot_delta` |
| Browser verifier | `wasm-verify/src/lib.rs` | none | `verify_slot_delta_js` |
| Command line | `cli/src/main.rs` | per command | `das-demo`, `slot-demo`, `rpc-attest`, `verify-slot`, `leaders`, and single-call commands |
| Liquidator: markets | `liquidator/src/markets.rs` | two maps of markets | `Markets::load`, `scan_markets`, the panicking lookups `perp`, `spot` |
| Liquidator: instruction | `liquidator/src/ix.rs` | none | `build_liquidate_perp_ix`, the ordered set of remaining accounts |
| Liquidator: modes | `liquidator/src/simulate.rs`, `scanner.rs`, `paper.rs` | per run | simulate: load, pick, build, simulate, interpret; paper: scan, rank, print |

How they interact. The UDP task owns an assembler; each datagram is one
synchronous call of `ingest`, which calls the resolver (a blocking RPC on a
miss) and `verify_shred`, and returns a list of events. The task awaits room in
the bounded channel for each event before it receives the next datagram. The
consumer knows nothing but these events. The leader side (`build_fec_set`) only
meets the listener in tests and demos. The attestation crates are used by the
CLI and by the browser; the listener does not feed them yet. The liquidator's
simulate mode loads the market maps first and fetches the users afterwards, so
the instruction it builds joins two views of a chain that has moved in between.

What is hard here:

* *Unreliable, adversarial input.* UDP loses, repeats and reorders; a leader may
  sign two blocks for a slot; anyone may send anything. `ingest` has nine ways
  through it, with early returns between the updates of two maps.
* *Completion.* `SlotFinalized` must come exactly once, on whichever shred
  happens to complete the slot, including one that stores nothing.
* *Concurrency.* The resolver's double-checked cache; the channel's
  back-pressure in the middle of an event list; a consumer that goes away.
* *Stale and failing answers.* RPC nodes behind one URL are not equally far; a
  request of the market scan may fail, and markets are listed while it runs.
* *Edges.* u32 underflow of a shred index, odd Merkle layers, proofs that are
  too long, slices of a datagram of any length under any variant byte, payloads
  that end at a shred's border, limbs that wrap, a full cache, a cut list.

The list under `hazards` in `PROJECT.json` names each at its line, with the
properties that would catch it going wrong, or the reason why none does.

## 2. Modules

| Module | Models | State and actions |
|---|---|---|
| `Shred` | parse and verification of a datagram | operators only; a datagram is a record of what the code can tell about it |
| `Das` | `das_confidence`, the slot aggregate | exact rationals `<<num, den>>` |
| `FecAssembler` | the assembler | `states`, `slots` as in the code, `events` (what the last `ingest` returned), `finalizations` (history); one action per way through `ingest` |
| `FecAssemblerHistory` | the same with a history of verified input | `received` |
| `SlotAttestation` | abstract: what a consumer may rely on | `root`, `available`, `attested`; `Commit`, `Recover`, `Attest` |
| `FecAssemblerRefinement` | the refinement mapping | `INSTANCE SlotAttestation WITH ...` |
| `LeaderResolver` | `HeliusLeaderResolver` | `cache`, `inflight`, and per thread `pc`, `slot`, `leaders` (the list the RPC returned), `result`; a step per critical section |
| `Listener` | UDP task, channel and consumer around `FecAssembler` | `task`, `pending`, `channel`, `rx_open`, `view` |
| `Merkle`, `MerkleVerify` | tree and proof construction; the verification loop | symbolic hashes; `Fold`, `Finish` |
| `ShredLayout` | the offsets `parse_shred` computes, the slice the assembler stores, the offsets the builder writes to | `raw_len`, `byte`, `step`, `regions`; `ParseOk`, `ParseErr`, `StoreShard` |
| `FecPayload` | how `build_fec_set` cuts its payload | `built`, `slice`, `size_field`, `carried`; `CheckLength`, `FillShred`, `FinishSet` |
| `SlotRoot` | `aggregate_root` for two listeners | `mine`, `theirs` |
| `DasSampling` | the meaning of the confidences | `drawn`, `Draw` |
| `LeaderRuns` | the `leaders` command | `i`, `prev`, `run_start`, `printed`; `NextLeader`, `LastRun` |
| `LtHash`, `SlotVerifier` | lattice hash; `verify_slot_delta` | operators |
| `Attest` | observer, attestation, verifier, browser wrapper, `verify-slot` | `Change`, `Publish`, `Verify`, `VerifyJs`, `CmdVerifySlot` |
| `RpcAttest` | the `rpc-attest` command against lagging nodes | `chain` (external), `pc`, two snapshots |
| `FecSet`, `Demo` | `build_fec_set`; the two demo commands, composed with `FecAssembler` | `feed`, `Feed` |
| `Markets` | the two market scans, request by request | `listed` (external), `pc`, `next`, `cache`; `FetchMarket`, `DecodeFails` (with an error or a panic), `FetchErr`, `Exhausted` |
| `LiquidateIx` | the accounts of the instruction and how the program reads them (external) | operators |
| `UserScan` | the two walks over user accounts, the sorts and the cut | operators |
| `Liquidator` | the simulate and paper modes over the three modules above | `accounts`, `ix`, `verdict`, `table`, `exit`; `LoadMarkets`, `PickAndBuild`, `Simulate`, `ScanAndPrint`, `RequestFails` |
| `MC*` | instances for TLC | |
| `*Proofs` | theorems | |

Abstractions that a reader should know of:

* A hash is the term it was computed from (`Merkle`), or a count of how often
  each account state occurs, modulo the limb size (`LtHash`): SHA-256 and Blake3
  are taken as collision resistant, Ed25519 as unforgeable.
* A FEC root in `SlotRoot` is any hash, as a rule the node at the top of its set's
  tree: the prefix of the ladder over the roots is the prefix inside the trees.
* A map entry the code has not created is one with its initial value.
* `FecState.leader_sig` is never written or read by the code and is left out.
  `shards` holds the datagram instead of its 987 bytes.
* The `Err` branch after `reconstruct` is not a branch of the model: shards are
  cut to one length and at least 32 are present, so the library cannot fail.
* `index - fec_set_index` wraps, as in a release build. A debug build panics
  there, before the signature was checked, and the task dies with it.
* In `try_finalize_slot` the flag is set before the roots are collected, and the
  collection can give up. The model keeps that branch (`all_rooted`); that it is
  never taken is part of what `FinalizedOnce` shows.
* In `Datagrams` a root stands for one block of one set. Instances give a shred
  with a longer proof the root of its set: a leader can build such a tree.
* In `Markets` a market's own index is the one it was fetched by, as the program
  derives the address from the index. Pubkeys of `LiquidateIx` are numbers, for
  their byte order; the instruction data is left out but for the market index.
* How the Drift program takes its remaining accounts (oracles, then spot, then
  perp markets, from the front) is external, from the comment of `ix.rs` and the
  order it sorts by. So is what the program logs.
* The margin calculation is a stub in the code: `health` is a constant, and the
  sort by health keeps the order of the answer. The model says the same.

## 3. Runs

Each configuration is small, and chosen so that the interesting cases happen.

* **assembler** (`MCFecAssembler`, 50,219 states). Three FEC sets of 2 + 2
  shreds, a second block that ends in the middle set, an unparsable datagram, a
  foreign signature, a wrapped index, an index past the end under a short and a
  long proof, and a resolver that may answer None at any time. Every datagram
  may arrive any number of times in any order, or never.
  `ShardsOfOneBlock`: shreds of two blocks never mix. `ReconstructedAtThreshold`:
  32 distinct shreds, no sooner, no later. `SlotAgreesWithSets`: the two maps
  agree after every early return. `NoMissedFinalization`: the paths that do not
  call `try_finalize_slot` cannot complete a slot. `FinalizedOnce`,
  `FinalizationSound`: one event per slot, whose content stays true.
  `Irrevocable`: what no `ingest` may undo. `Implements`: the abstract
  specification.
  Two data shreds per set are enough to tell the first shred, a middle state and
  the completing one apart; three sets give one below, at and above a mark.
* **history** (39,179 states). The outputs as a function of the inputs, in any
  order, with two slots that share an index and a root. `ReconstructsWhatArrived`:
  a set is reconstructed iff enough of its block arrived. `FinalizesWhatArrived`:
  a slot is finalized when everything that arrived up to its highest mark is
  recoverable. `TracksVerified`: the slot's mark and its set of seen indices are
  those of the verified shreds, the rejected ones among them included, and
  nothing else creates an entry.
* **resolver** (112,763 states). Two threads, five slots, windows of two, a
  cache of three: fetches that fail, come short or are never answered, fills
  that evict. `Coherent`: never a wrong leader; an answer is a list of pubkeys
  without slots, stored by position from the slot that was asked for.
  `NoStampede`, `CacheBounded`,
  `KnownUnlessEvicted`, and the liveness property `GuardReleased`: only an
  unanswered request keeps the mutex.
* **listener** (16,017 states). A channel of two for event lists of up to four.
  `StreamComplete`: a consumer that has worked off what is outstanding knows the
  assembler's state exactly. `PrefixConsistent`: every prefix makes sense.
  `FinalizationDelivered` and `StopsAfterDrop` are liveness; the second says how
  the task can outlive its consumer, on a network that causes no event.
* **algorithms** (`MCAlgorithms`, 163,665 states). The pure algorithms and the
  commands that are a straight use of them: one of eight jobs runs to its end. All trees of up to 8 leaves with every owner, content and claimed index
  up to 16 (`PositionBound`); all pairs of lists over five roots, one of them the
  node over two others (`SlotRootBinding`, for ladders of one height); two sets of six shreds, threshold three, every draw, with
  the formula compared with counting subsets (`ConfidenceIsExact`); all 256
  variant bytes on both sides of every length the parser compares with
  (`LayoutSound`: no slice out of bounds, and nothing acted on that is not
  signed; `BuilderAgrees`: parser, assembler and builder have one layout); the
  real shred sizes with payloads at the edges of a shred and of the set
  (`PayloadCarried`); answers of up to six leaders (`RunsExact`). The demo commands
  with sets of 8 + 8, one straight line per number of delivered shreds
  (`DemoVerdicts`: the assembler takes what the leader's code builds). The
  rpc-attest command with nodes up to one slot behind and an account that
  changes, vanishes and returns (`NeverUnexpected`, `SecondSnapshotWithinLag`, and
  the liveness property `CommandEnds`).
* **attest** (166,958 states). Two accounts, one with two contents and a
  tombstone, limbs modulo 4 so that they wrap, all slots of up to two changes
  and all claims of up to two transitions. `DeltaTracksState`: the delta is the
  difference of the account sets. `VerifiedIsTruth`: the truth verifies in any
  order, and what verifies is the truth. `TamperNoticed`: what of the source's
  words on tampering and adding holds, and the exit code of `verify-slot`.
* **liquidator** (76,401 states). A chain that lists up to three markets of each
  kind under a scan bounded at two, an oracle shared by a perp and a spot market,
  keys in another order than indices, and every answer of up to three of seven
  user accounts: two with perp positions, one without, one bankrupt, one being
  liquidated, two that do not decode. A market's account may fail to decode, with
  an error or with a panic that nothing catches. `CacheIsPrefix`: a map has no holes.
  `PanicExplained`: a lookup panics only for a failed request, a market listed
  since, or a list past the bound, and there is no other panic but the decoder's. `InstructionLoads`: whatever instruction is
  built, the program finds its accounts in it, and the target alone is writable.
  It is about the accounts only: `liquidator/src/main.rs:6-10` says that simulate is
  blocked by the discriminator of the instruction, which the deployed program
  answers with InstructionFallbackNotFound, and the model has no discriminator.
  `ScansAgree`: the filter that exists twice is one filter, and the table is the
  first candidates of the answer.
* **coverage**, **observed**, **slot_root**, **markets** and **erasure** are expected
  violations, section 6.

Every property has a mutant in `PROJECT.json`, a plausible bug in the code under
which TLC finds the property violated.

Deadlock checking is off where the system really stops: a finished command or
loop, all draws made, a stopped listener, a chain that has listed all the
markets of the model.

Fairness. `LeaderResolver!FairSpec`: a thread that can run runs; nothing is
assumed of the RPC, for which the code sets no timeout, nor about who gets the
mutex. `Listener!ListenerFairSpec`: tokio polls a task whose send can complete,
and the consumer's loop goes on until it leaves; nothing is assumed of the
network. `RpcAttest!RpcFairness`: the chain moves on, and requests are answered; that
requests end is the network's doing, not the code's.

## 4. Proofs

All theorems hold for every value of the constants: any number of slots, sets,
roots, keys and datagrams, any erasure code size of at least two data shreds,
any threads, windows and cache sizes, any channel capacity, any accounts and
limb size, any markets and users. Every invariant that a passing run checks is
stated by a theorem, and so are the action property and the refinement of the
assembler.

* `FecAssemblerProofs`: `TypeCorrect`, `OneBlock`, `Threshold`, `SlotAgreement`,
  `NothingMissed`, `ExactlyOnce` and `NothingUndone`, for the invariants and the
  action property of the assembler run, and `Aggregates`, which says what the
  event reports: 32 shreds per covered set and confidence 1, whatever arrived. It
  is no property of a run, since the documented meaning of the total is another
  one, which the run **observed** refutes. The inductive
  invariant `IInv` is the conjunction of the first invariants. None is inductive
  alone: that no slot is left complete needs the agreement of the two maps, which
  needs that a stored shard means a captured root, which needs the count of
  stored shards. The argument has three layers: what an `ingest` can do to one
  FEC entry (`SetEffect`), what it then does to the slot's entry (`SlotUpdated`,
  `CannotComplete`), and that every way through `ingest` is inert or a pair of
  these (`IngestEffect`). Each conjunct is then shown once per effect instead of
  once per path.
  Assumptions: indices are naturals, there are at least two data shreds per set,
  the values for None are not values.
* `FecAssemblerViewProofs`: the assembler seen from outside. `Refinement`,
  `Spec => Implements`, maps every effect to a `Commit`, a `Recover`, an `Attest`
  or a stutter under `IInv`. `Tracks`, `Reconstructs` and `Finalizes` relate the
  maps to the history of verified input. `HInv` adds to `IInv` that a set in
  progress holds exactly the shards that arrived under its root, that a
  reconstructed one holds no others, and that the slot's bookkeeping is a
  function of the history; the order and the number of arrivals drop out.
  `Verdicts` is about the demos, builder against assembler. A built shred verifies
  and reports its own position (`Built`); what an `ingest` of the next shred of a
  set does and says follows from the effects (`Welcome`, `NextShred`); `DInv` says
  that both sets hold what was fed of them, up to the threshold. That slot-demo's
  slot is finalized at the end is then `NoMissedFinalization`. Assumed: a proof has
  at most fifteen entries, positions do not wrap, the sets are the ones the
  commands build.
* `ListenerProofs`: `Complete` and `EveryPrefix`. The invariant `LInv` says that
  there is a path of views from the consumer's to the assembler's, one `learn` per
  outstanding event, on which every view is consistent (`Delivers`). It is the
  path that makes both properties inductive: receiving drops its first step, and
  an `ingest` appends the steps of the events it returned, which is shown once
  per effect of `FecAssemblerProofs`.
* `LeaderResolverProofs`: `NeverWrong`, `OneFetch`, `Bounded` and `Known`, with
  the inductive invariant `TypeOK /\ Aligned /\ Coherent /\ NoStampede /\
  CacheBounded /\ KnownUnlessEvicted`. `Aligned` says that the list a thread holds
  begins at the slot it asked for; `Coherent` is not inductive without it, since
  the slots of a list's entries are known only from where it is stored. The other
  core is a lemma on what eviction leaves: at most
  `MAX_CACHE_ENTRIES` slots, and exactly that many, all of higher slots, when it
  removed one. Assumed: finitely many slots, and naturals.
* `AlgorithmProofs`: `LayoutIsSound` and `OneLayout` for datagrams of every
  length (a shred past the parser is at least as long as its kind, its regions
  are a function of its variant byte, the rest is arithmetic over at most fifteen
  proof entries); `Carried` for every payload, number and capacity of shreds
  (before shred n is filled, min(n * capacity, length) bytes are carried);
  `Runs` for every answer (`RInv`: the printed lines tell the slots before the
  open run, which is maximal to the left). `BoundToPosition` and `Binding` are
  about trees of every size. The layers of a tree halve, rounding up, until one
  node is left; leaf k is under node k / 2^n of layer n, and the proof has its
  sibling there. `MerkleInv` says that after n entries the loop of
  `compute_merkle_root` has index claimed / 2^n, that a shred with its own index
  and proof is at the tree's node of that place, and that one which is at that
  node, under an index of the set, is the shred of that index; in a full tree an
  index past the end leaves a remainder. For two lists with one slot root and
  ladders of one height, the layers are compared from the top down: equal layers of
  nodes have equal layers below, since a layer of different nodes is paired with
  itself only at its end. Nothing is assumed of the roots but that a list has none
  twice; the height cannot be dropped (run **slot_root**). `ExactConfidence` counts: the
  n-subsets of a finite set by Pascal's rule, falling factorials against them,
  and the products over the sets of a slot factor by factor. Assumed: finitely
  many FEC sets.
* `AttestProofs`: `Tracked`, `Tampering` and `Truth`. From the integers up: limbs
  form a group, `recompute` of a list is the difference of how often each account
  occurs as a new and as an old state, so it depends on the transitions and not
  on their order. `DInv` is the same closed form for the delta against the
  account sets, and `VInv` adds that the delta is the sum of the slot's list and
  that a verdict is still about the delta and the list it was given. Assumed:
  finitely many accounts, and a slot that starts with accounts under their own
  keys. `Truth` has the hypothesis `LIMB > 2`: modulo 2 a transition and its
  reverse have the same sum. The code's limbs are 2^16.
* `RpcAttestProofs`: `Expected` and `WithinLag`. The snapshots in hand are of live
  accounts, and once the polling loop is left the tip has reached the target.
  Assumed: `wait_slots` positive, the lag a natural, and that the tampering
  changes the account, which is what the command's byte flip does.
* `LiquidatorProofs`: `NoHoles`, `PanicHasCause`, `Loadable` and `SameUsers`, for
  any number of markets, any bound of the scan and any users. The invariant gives each map a
  length and says why its scan stopped there; a map that is neither short nor
  stale then holds every market a user can hold a position in. That a cause stays
  one while markets are listed needs that the count recorded at the end of a scan
  never exceeds the present one. `Loadable` follows the program's reading of the
  accounts through the sorted, deduplicated remaining accounts, whichever oracles
  markets share. `SameUsers` rests on one lemma about places in an order: in a
  finite set with a strict total order, an element's number of predecessors is its
  place, and every place is taken once. It gives the c-th candidate of an answer,
  what a stable sort returns, and that a sort with one key for all returns its
  input. Assumed: positions are in finite arrays, a user's account is at the
  address derived for it, every market that can be listed has its keys, and the
  bounds are naturals.

Folds (`FoldLeft`, `FoldFunction`) and recursive functions (the layers of a tree,
the path of a leaf, the falling product) are defined by a choice of a function
that satisfies the recursion. The proofs first show that there is one: every
finite stretch of the recursion has a solution, two solutions agree where both
are defined, and their diagonal satisfies the whole of it. The fold is then given
in closed form, or two of them are compared place by place. Induction is always
over a set of naturals that has 0 and every successor (`Upwards`), which follows
from the least element outside it; no induction theorem with an operator
parameter is used.

Only model-checked: liveness (`GuardReleased`, `FinalizationDelivered`,
`StopsAfterDrop`, `CommandEnds`), which is out of the prover's reach. The five
findings of section 6 are counterexamples, found by TLC.

## 5. Not modelled

The liquidator's probes (`probe.rs`, `disc_probe.rs`, `idl_dump.rs`: one-shot
queries and output); the commands `slot`, `hash-account`, `verify-shred` and
`keygen` (one request, or one call of a function modelled elsewhere); scripts and
the demo page; the contents of a shred and of an account; the encoding of the
instruction data; f64 rounding; lock poisoning (nothing panics under the locks);
the unbounded growth of `states` and `slots`; `chained_root` and the
retransmitter signature, which the code parses and never checks; the bytes that
Reed-Solomon recovers, which the assembler drops.

## 6. Where the code and its words differ

Shown by a run:

* **coverage**: `listener/src/lib.rs:52` says that at `SlotFinalized` "All FEC
  sets in the slot have been reconstructed". A set of which no shred arrived is
  not noticed: the slot is finalized without it, under a `slot_root` that does
  not commit to the whole block. (The comment at line 276 does say "seen".)
* **observed**: `listener/src/lib.rs:63` calls `total_shreds_observed` the "Total
  distinct shreds observed across all FEC sets in the slot". A shred of a set that
  is already reconstructed is not counted (line 179), so the total is 32 per
  covered set and says no more than the number of sets (theorem `Aggregates`).
* **slot_root**: `listener/src/lib.rs:60` says that the witness "commits to the
  entire slot". The ladder of `aggregate_root` uses the prefix of the trees below
  it and hashes neither the number of roots nor the layer, so a list of one root
  that is the node over two others has the `slot_root` of those two. Among lists
  of one length it does commit (`SlotRootBinding`, theorem `Binding`).
* **markets**: `liquidator/src/markets.rs:71` says that the scan "Stops at the
  first index that returns "account does not exist"" and so "gives us the live
  count". It stops at any error of the request (line 94), and the map that
  `load` returns as a success can lack markets that were listed all the time.
* **erasure**: `shred/src/fec_set.rs:21` gives 987 as the shard size for
  "proof_size=6, chained, no resign", and `listener/src/lib.rs:211` says "Common
  length is identical (987 bytes)". The assembler cuts that size out of resigned
  shreds too (variants 0x70 and 0xb0, line 219), where it reaches into the
  chained root and the proof. The recovered bytes are dropped today.

Seen while modelling, and stated by a property as far as they hold:

* `listener/src/lib.rs:104` says that `last_shred_seen` is true once a marked
  shred "was accepted". It is set before the root of the set is compared, so a
  shred that is then rejected sets it too (`TracksVerified`).
* `listener/src/leader.rs:11` "None = unknown": a fetch that succeeds can evict
  its own window (`KnownUnlessEvicted`), and will do so on every retry.
* `attest/src/lib.rs:121` "Adding a transition that wasn't actually in the slot
  also causes a mismatch": not if it changes nothing for the hash
  (`TamperNoticed`, for one transition added), and not if two that are added
  cancel out.
* `cli/src/main.rs:743` "at slot S0 and S0+wait_slots": the slot of the second
  snapshot is not compared with the target (`SecondSnapshotWithinLag`).
* `listener/src/lib.rs:48` calls `das_confidence` the probability that the
  adversary "would have been undetected"; it is the complement
  (`ConfidenceIsExact`). The repository's README gives 0.467 for four samples
  where the formula gives 0.0495.
* `liquidator/src/scanner.rs:45` speaks of non-idle users, which nothing filters;
  the list is cut before `paper` ranks it, and its length after the cut is what
  the summary prints as the number of users (`ScansAgree`).
* `liquidator/src/simulate.rs` says at its head that an error before the
  solvency check means a wrong layout; `interpret` calls an error it does not
  know "unrecognized", and the model keeps that verdict.

## 7. Plan

Done: the assembler, its abstract specification, resolver, listener, shred
layout, Merkle trees, payload cutting, attestation with `verify-slot`,
`rpc-attest`, `leaders`, the demos, the liquidator, and the theorems above.

Next, in this order:

1. The assembler with the resolver in place of its constant schedule, several
   listeners that share one resolver.
2. The marker in a shred that is recovered rather than received: what the
   assembler would have to do to finalize in that case.

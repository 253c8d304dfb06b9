----------------------- MODULE FecAssemblerViewProofs -----------------------
(***************************************************************************)
(* Three views of the assembler from outside, for every value of the       *)
(* constants.  It implements SlotAttestation; what it holds is a function  *)
(* of the verified shreds that arrived, for every order and every number   *)
(* of repetitions of them; and it takes what the leader's code builds.     *)
(***************************************************************************)
EXTENDS FecAssemblerRefinement, FecAssemblerHistory, Demo, FecAssemblerProofs

-----------------------------------------------------------------------------
(***************************************************************************)
(* The abstract specification: initial states map to initial states, and   *)
(* every ingest that starts in a state of the inductive invariant maps to  *)
(* a Commit, a Recover, an Attest or a stutter.                            *)
(***************************************************************************)
\* Both modules speak of the same keys.
LEMMA SameKeys == Attestation!Key = FecKey
BY DEF Attestation!Key, FecKey

LEMMA InitMaps == Init => Attestation!Init
<1> SUFFICES ASSUME Init PROVE Attestation!Init
  OBVIOUS
<1>1. states = [k \in FecKey |-> NewFecState] /\ finalizations = [s \in Slots |-> <<>>]
  BY DEF Init
<1>2. NewFecState.merkle_root = NoRoot /\ NewFecState.reconstructed = FALSE
  BY DEF NewFecState
<1>3. committed_roots = [k \in FecKey |-> NoRoot]
  BY <1>1, <1>2 DEF committed_roots
<1>4. recovered = {}
  BY <1>1, <1>2 DEF recovered
<1> QED
  BY <1>1, <1>3, <1>4, SameKeys DEF Attestation!Init

\* A step that leaves the states and the finalizations alone is a stutter.
LEMMA StutterMaps ==
    ASSUME UNCHANGED <<states, finalizations>>
    PROVE  UNCHANGED Attestation!avars
BY DEF Attestation!avars, committed_roots, recovered

\* The sets an Effect leaves alone keep their root and their availability.
LEMMA OthersKeep ==
    ASSUME IInv, NEW d \in Datagrams, NEW st2, NEW sn, Effect(d, st2, sn)
    PROVE  /\ committed_roots' = [committed_roots EXCEPT ![key_of(d)] = st2.merkle_root]
           /\ recovered' = IF st2.reconstructed THEN recovered \cup {key_of(d)}
                                                ELSE recovered
<1> DEFINE k0 == key_of(d)
<1>1. /\ k0 \in FecKey
      /\ states'[k0] = st2
      /\ \A k \in FecKey \ {k0} : states'[k] = states[k]
      /\ states[k0].reconstructed => st2 = states[k0]
  BY DatagramFields, EffectFacts DEF Effect, SetEffect
<1> HIDE DEF k0
<1>2. committed_roots' = [committed_roots EXCEPT ![k0] = st2.merkle_root]
  BY <1>1 DEF committed_roots
<1>3. ASSUME st2.reconstructed PROVE recovered' = recovered \cup {k0}
  BY <1>1, <1>3 DEF recovered
<1>4. ASSUME ~st2.reconstructed PROVE recovered' = recovered
  BY <1>1, <1>4 DEF recovered
<1> QED BY <1>2, <1>3, <1>4 DEF k0

\* A finalization is an attestation of recovered sets.
LEMMA AttestMaps ==
    ASSUME IInv, NEW d \in Datagrams, NEW st2, NEW sn, Effect(d, st2, sn),
           may_finalize(sn), committed_roots' = committed_roots
    PROVE  \E S \in SUBSET FecSetIndices : Attestation!AttestIn(d.slot, S, recovered')
<1> DEFINE s == d.slot
           S == indices_to_check(sn)
           roots == finalization(s, sn, states').fec_roots
<1>1. /\ s \in Slots
      /\ states' \in [FecKey -> FecState]
      /\ SlotInv(s, sn, states')
      /\ finalizations \in [Slots -> Seq(FecRoots)]
      /\ sn.finalized = slots[s].finalized
  BY DatagramFields, EffectFacts DEF IInv, TypeOK
<1>2. /\ roots \in FecRoots
      /\ DOMAIN roots # {}
      /\ \A i \in DOMAIN roots :
            i \in FecSetIndices /\ states'[<<s, i>>].reconstructed
  BY <1>1, ReportedRoots
<1>3. roots = [i \in S |-> states'[<<s, i>>].merkle_root]
  BY DEF finalization, SlotFinalized
<1>4. finalizations' = [finalizations EXCEPT ![s] = Append(@, roots)]
  BY DEF Effect
<1> HIDE DEF roots, S
<1>5. DOMAIN roots = S
  BY <1>3
<1>6. S # {} /\ S \in SUBSET FecSetIndices
  BY <1>2, <1>5
<1>7. \A i \in S : <<s, i>> \in FecKey /\ <<s, i>> \in recovered'
  BY <1>1, <1>2, <1>5 DEF recovered, FecKey
<1>8. roots = [i \in S |-> committed_roots[<<s, i>>]]
  <2>1. \A i \in S : states'[<<s, i>>].merkle_root = committed_roots'[<<s, i>>]
    BY <1>7 DEF committed_roots
  <2> QED BY <1>3, <2>1
<1>9. finalizations[s] = <<>>
  <2>1. Len(finalizations[s]) = 0
    BY <1>1 DEF may_finalize, IInv, FinalizedOnce
  <2> QED BY <1>1, <2>1
<1>10. finalizations' =
          [finalizations EXCEPT ![s] = Append(@, [i \in S |-> committed_roots[<<s, i>>]])]
  BY <1>4, <1>8
<1> QED
  BY <1>6, <1>7, <1>9, <1>10 DEF Attestation!AttestIn

\* Every Effect is a step of the abstract specification or a stutter.
LEMMA EffectMaps ==
    ASSUME IInv, NEW d \in Datagrams, NEW st2, NEW sn, Effect(d, st2, sn)
    PROVE  Attestation!Next \/ UNCHANGED Attestation!avars
<1> DEFINE k == key_of(d)
           st == states[k]
<1>1. /\ k \in FecKey
      /\ k \in Attestation!Key
      /\ k[1] = d.slot
      /\ d.slot \in Slots
      /\ st \in FecState
      /\ st2 \in FecState
      /\ committed_roots[k] = st.merkle_root
      /\ committed_roots \in [FecKey -> MerkleRoots \cup {NoRoot}]
      /\ k \in recovered <=> st.reconstructed
  BY DatagramFields, SameKeys
     DEF IInv, TypeOK, Effect, SetEffect, SetInv, committed_roots, recovered, FecState
<1>2. /\ st2.merkle_root # NoRoot
      /\ st.merkle_root \in {NoRoot, st2.merkle_root}
      /\ st.merkle_root = NoRoot => ~st2.reconstructed
      /\ st.reconstructed => st2 = st
      /\ may_finalize(sn) => st2.reconstructed
      /\ ~may_finalize(sn) => finalizations' = finalizations
  BY DEF Effect, SetEffect
<1>3. /\ committed_roots' = [committed_roots EXCEPT ![k] = st2.merkle_root]
      /\ recovered' = IF st2.reconstructed THEN recovered \cup {k} ELSE recovered
  BY OthersKeep
<1> HIDE DEF k, st
<1>4. CASE st.merkle_root = NoRoot
  <2>1. st2.merkle_root \in MerkleRoots
    BY <1>1, <1>2 DEF FecState
  <2>2. recovered' = recovered /\ finalizations' = finalizations
    BY <1>2, <1>3, <1>4
  <2>3. Attestation!Commit(k, st2.merkle_root)
    BY <1>1, <1>3, <1>4, <2>2 DEF Attestation!Commit
  <2> QED BY <1>1, <2>1, <2>3 DEF Attestation!Next
<1>5. CASE st.merkle_root # NoRoot
  <2>1. committed_roots' = committed_roots
    BY <1>1, <1>2, <1>3, <1>5
  <2>2. may_finalize(sn) =>
           \E S \in SUBSET FecSetIndices : Attestation!AttestIn(d.slot, S, recovered')
    BY <2>1, AttestMaps
  <2>3. CASE st2.reconstructed /\ ~st.reconstructed
    <3>1. recovered' = recovered \cup {k} /\ k \notin recovered
      BY <1>1, <1>3, <2>3
    <3>2. Attestation!Recover(k)
      BY <1>1, <1>2, <1>5, <2>1, <2>2, <3>1 DEF Attestation!Recover
    <3> QED BY <1>1, <3>2 DEF Attestation!Next
  <2>4. CASE ~(st2.reconstructed /\ ~st.reconstructed)
    <3>1. recovered' = recovered
      BY <1>1, <1>2, <1>3, <2>4
    <3>2. CASE may_finalize(sn)
      <4>1. Attestation!Attest(d.slot)
        BY <2>1, <2>2, <3>1, <3>2 DEF Attestation!Attest
      <4> QED BY <1>1, <4>1 DEF Attestation!Next
    <3>3. CASE ~may_finalize(sn)
      BY <1>2, <2>1, <3>1, <3>3 DEF Attestation!avars
    <3> QED BY <3>2, <3>3
  <2> QED BY <2>3, <2>4
<1> QED BY <1>4, <1>5

LEMMA NextMaps ==
    IInv /\ [Next]_vars => [Attestation!Next]_Attestation!avars
<1> SUFFICES ASSUME IInv, [Next]_vars
             PROVE  Attestation!Next \/ UNCHANGED Attestation!avars
  OBVIOUS
<1>1. CASE Inert
  BY <1>1, StutterMaps DEF Inert
<1>2. CASE \E d \in Datagrams : \E st2, sn : Effect(d, st2, sn)
  BY <1>2, EffectMaps
<1> QED BY <1>1, <1>2, StepEffect

(***************************************************************************)
(* ingest implements the abstract specification: commit once, recover      *)
(* once, attest once and only what is recovered.                           *)
(***************************************************************************)
THEOREM Refinement == Spec => Implements
BY InitMaps, NextMaps, Invariance, PTL DEF Spec, Implements, Attestation!Spec

-----------------------------------------------------------------------------
(***************************************************************************)
(* The inductive invariant: the assembler's own, and the relation of both  *)
(* maps to the history.  A set in progress holds exactly the shards that   *)
(* arrived under its root; a reconstructed one stopped taking them.        *)
(***************************************************************************)
Held ==
    \A k \in FecKey :
        /\ present(states[k]) \subseteq arrived(k)
        /\ ~states[k].reconstructed => arrived(k) \subseteq present(states[k])

\* The sets of slot s of which a verified shred arrived.
touched(s) == {d.fec_set_index : d \in {e \in received : e.slot = s}}

Marks ==
    \A s \in Slots :
        /\ slots[s].seen_fec_indices = touched(s)
        /\ slots[s].last_shred_seen <=> marked(s) # {}
        /\ slots[s].last_shred_seen =>
              /\ slots[s].last_fec_set_index \in marked(s)
              /\ \A i \in marked(s) : i <= slots[s].last_fec_set_index
        /\ slots[s].finalized => slots[s].last_shred_seen

HInv ==
    /\ IInv
    /\ received \subseteq Datagrams
    /\ Held
    /\ Marks

-----------------------------------------------------------------------------
\* What a verified shred does to the fields of its slot that Marks speaks of.
LEMMA UpdatedMarks ==
    ASSUME NEW d \in Datagrams, NEW st2, NEW ss \in SlotState
    PROVE  LET sn == updated(d, ss, st2)
           IN  /\ sn \in SlotState
               /\ sn.seen_fec_indices = ss.seen_fec_indices \cup {d.fec_set_index}
               /\ is_last_in_slot(d) =>
                     /\ sn.last_shred_seen
                     /\ sn.last_fec_set_index \in FecSetIndices
                     /\ sn.last_fec_set_index \in {ss.last_fec_set_index, d.fec_set_index}
                     /\ d.fec_set_index <= sn.last_fec_set_index
                     /\ ss.last_fec_set_index \in FecSetIndices =>
                            ss.last_fec_set_index <= sn.last_fec_set_index
               /\ ~is_last_in_slot(d) =>
                     /\ sn.last_shred_seen <=> ss.last_shred_seen
                     /\ sn.last_fec_set_index = ss.last_fec_set_index
<1> DEFINE sb == slot_bookkeeping(ss, d)
<1>1. /\ sb \in SlotState
      /\ sb.seen_fec_indices = ss.seen_fec_indices \cup {d.fec_set_index}
      /\ is_last_in_slot(d) =>
            /\ sb.last_shred_seen
            /\ sb.last_fec_set_index \in FecSetIndices
            /\ sb.last_fec_set_index \in {ss.last_fec_set_index, d.fec_set_index}
            /\ d.fec_set_index <= sb.last_fec_set_index
            /\ ss.last_fec_set_index \in FecSetIndices =>
                   ss.last_fec_set_index <= sb.last_fec_set_index
      /\ ~is_last_in_slot(d) =>
            /\ sb.last_shred_seen <=> ss.last_shred_seen
            /\ sb.last_fec_set_index = ss.last_fec_set_index
  BY Bookkeeping
<1> HIDE DEF sb
<1>2. CASE st2.reconstructed
  <2>1. updated(d, ss, st2) = mark_reconstructed(sb, d)
    BY <1>2 DEF updated, sb
  <2> QED BY <1>1, <2>1, MarkReconstructed
<1>3. CASE ~st2.reconstructed
  <2>1. updated(d, ss, st2) = sb
    BY <1>3 DEF updated, sb
  <2> QED BY <1>1, <2>1
<1> QED BY <1>2, <1>3

\* The entry of the shred's slot after the step: finalized or not, the fields
\* Marks speaks of are those of the updated entry.
LEMMA SlotAfter ==
    ASSUME IInv, NEW d \in Datagrams, NEW st2, NEW sn, Effect(d, st2, sn)
    PROVE  /\ slots'[d.slot].seen_fec_indices = sn.seen_fec_indices
           /\ slots'[d.slot].last_shred_seen <=> sn.last_shred_seen
           /\ slots'[d.slot].last_fec_set_index = sn.last_fec_set_index
           /\ slots'[d.slot].finalized =>
                 sn.last_shred_seen \/ slots[d.slot].finalized
<1>1. /\ slots \in [Slots -> SlotState]
      /\ d.slot \in Slots
      /\ sn \in SlotState
      /\ sn.finalized = slots[d.slot].finalized
  BY EffectFacts, DatagramFields DEF IInv, TypeOK, SlotInv
<1>2. CASE slots' = [slots EXCEPT ![d.slot] = sn]
  <2>1. slots'[d.slot] = sn
    BY <1>1, <1>2
  <2> QED BY <1>1, <2>1
<1>3. CASE /\ may_finalize(sn)
           /\ slots' = [slots EXCEPT ![d.slot] = [sn EXCEPT !.finalized = TRUE]]
  <2>1. slots'[d.slot] = [sn EXCEPT !.finalized = TRUE]
    BY <1>1, <1>3
  <2>2. sn.last_shred_seen
    BY <1>3 DEF may_finalize
  <2> QED BY <1>1, <2>1, <2>2, FlagSet
<1> QED BY <1>2, <1>3 DEF Effect

\* A verified shred preserves Held: its own set takes it exactly when it
\* carries the set's root and an index of the set.
LEMMA EffectHeld ==
    ASSUME HInv, NEW d \in Datagrams, NEW st2, NEW sn, Effect(d, st2, sn),
           received' = received \cup {d}
    PROVE  Held'
<1> DEFINE k0 == key_of(d)
           st == states[k0]
<1>1. /\ states'[k0] = st2
      /\ \A k \in FecKey \ {k0} : states'[k] = states[k]
  BY EffectFacts DEF HInv
<1>2. k0 \in FecKey /\ SetEffect(d, st, st2)
  BY DatagramFields DEF Effect
<1>3. ASSUME NEW k \in FecKey
      PROVE  /\ present(states'[k]) \subseteq arrived(k)'
             /\ ~states'[k].reconstructed => arrived(k)' \subseteq present(states'[k])
  <2>1. CASE k # k0
    <3>1. states'[k] = states[k]
      BY <1>1, <2>1
    <3>2. arrived(k)' = arrived(k)
      BY <2>1, <3>1 DEF arrived
    <3> QED BY <3>1, <3>2 DEF HInv, Held
  <2>2. CASE k = k0
    <3> DEFINE r == st2.merkle_root
               old == {erasure_shard_index(e) :
                          e \in {x \in received : key_of(x) = k0 /\ x.merkle_root = r}}
                          \cap ShardIndices
    <3>1. arrived(k)' = old \cup fills(d, r)
      BY <1>1, <2>2 DEF arrived, fills
    <3>2. st.merkle_root = r => old = arrived(k0)
      BY DEF arrived
    <3>3. st.merkle_root # r => old = {} /\ present(st) = {}
      <4> SUFFICES ASSUME st.merkle_root # r PROVE old = {} /\ present(st) = {}
        OBVIOUS
      <4>1. st.merkle_root = NoRoot
        BY <1>2 DEF SetEffect
      <4>2. d.fec_set_index \notin slots[d.slot].seen_fec_indices
        BY <4>1, DatagramFields DEF HInv, IInv, SlotAgreesWithSets
      <4>3. \A e \in received : key_of(e) # k0
        BY <4>2, DatagramFields DEF HInv, Marks, touched, key_of
      <4>4. present(st) = {}
        BY <1>2, <4>1, StoredMeansRooted, SetInvIsInvariant DEF HInv, IInv
      <4> QED BY <4>3, <4>4
    <3>4. present(st) \subseteq old
      BY <1>2, <3>2, <3>3 DEF HInv, Held
    <3>5. ~st.reconstructed => old \subseteq present(st)
      BY <1>2, <3>2, <3>3 DEF HInv, Held
    <3>6. CASE st.reconstructed
      <4>1. st2 = st
        BY <1>2, <3>6 DEF SetEffect
      <4> HIDE DEF old, st
      <4> QED BY <1>1, <2>2, <3>1, <3>4, <3>6, <4>1
    <3>7. CASE ~st.reconstructed
      <4>1. present(st2) = present(st) \cup fills(d, r)
        BY <1>2, <3>7 DEF SetEffect
      <4> HIDE DEF old, st
      <4> QED BY <1>1, <2>2, <3>1, <3>4, <3>5, <3>7, <4>1
    <3> QED BY <3>6, <3>7
  <2> QED BY <2>1, <2>2
<1> QED BY <1>3 DEF Held

\* A verified shred preserves Marks, whatever the assembler does with it.
LEMMA EffectMarks ==
    ASSUME HInv, NEW d \in Datagrams, NEW st2, NEW sn, Effect(d, st2, sn),
           received' = received \cup {d}
    PROVE  Marks'
<1> DEFINE s0 == d.slot
           f  == d.fec_set_index
           ss == slots[s0]
<1>1. /\ s0 \in Slots
      /\ ss \in SlotState
      /\ sn = updated(d, ss, st2)
      /\ \A s \in Slots \ {s0} : slots'[s] = slots[s]
  BY EffectFacts, DatagramFields DEF HInv, IInv, TypeOK, Effect
<1>2. ASSUME NEW s \in Slots
      PROVE  /\ slots'[s].seen_fec_indices = touched(s)'
             /\ slots'[s].last_shred_seen <=> marked(s)' # {}
             /\ slots'[s].last_shred_seen =>
                   /\ slots'[s].last_fec_set_index \in marked(s)'
                   /\ \A i \in marked(s)' : i <= slots'[s].last_fec_set_index
             /\ slots'[s].finalized => slots'[s].last_shred_seen
  <2>1. CASE s # s0
    <3>1. touched(s)' = touched(s) /\ marked(s)' = marked(s)
      BY <2>1 DEF touched, marked
    <3>2. slots'[s] = slots[s]
      BY <1>1, <2>1
    <3> QED BY <3>1, <3>2 DEF HInv, Marks
  <2>2. CASE s = s0
    <3> DEFINE sp == slots'[s0]
               M  == marked(s0)
               Mp == marked(s0)'
    <3>1. /\ sp.seen_fec_indices = sn.seen_fec_indices
          /\ sp.last_shred_seen <=> sn.last_shred_seen
          /\ sp.last_fec_set_index = sn.last_fec_set_index
          /\ sp.finalized => sn.last_shred_seen \/ ss.finalized
      BY SlotAfter DEF HInv
    <3>2. /\ sn.seen_fec_indices = ss.seen_fec_indices \cup {f}
          /\ is_last_in_slot(d) =>
                /\ sn.last_shred_seen
                /\ sn.last_fec_set_index \in FecSetIndices
                /\ sn.last_fec_set_index \in {ss.last_fec_set_index, f}
                /\ f <= sn.last_fec_set_index
                /\ ss.last_fec_set_index \in FecSetIndices =>
                       ss.last_fec_set_index <= sn.last_fec_set_index
          /\ ~is_last_in_slot(d) =>
                /\ sn.last_shred_seen <=> ss.last_shred_seen
                /\ sn.last_fec_set_index = ss.last_fec_set_index
      BY <1>1, UpdatedMarks
    <3>3. touched(s0)' = touched(s0) \cup {f}
      BY DEF touched
    <3>4. Mp = M \cup IF is_last_in_slot(d) THEN {f} ELSE {}
      BY DEF marked
    <3>5. M \subseteq FecSetIndices
      BY DatagramFields DEF HInv, marked
    <3>6. /\ ss.seen_fec_indices = touched(s0)
          /\ ss.last_shred_seen <=> M # {}
          /\ ss.last_shred_seen =>
                /\ ss.last_fec_set_index \in M
                /\ \A i \in M : i <= ss.last_fec_set_index
          /\ ss.finalized => ss.last_shred_seen
      BY <1>1 DEF HInv, Marks
    <3>7. f \in FecSetIndices /\ FecSetIndices \subseteq Nat
      BY DatagramFields, FecSetIndicesAssumption
    <3> HIDE DEF sp, M, Mp
    <3>8. sp.seen_fec_indices = touched(s0)'
      BY <3>1, <3>2, <3>3, <3>6
    <3>9. CASE is_last_in_slot(d)
      <4>1. sp.last_shred_seen /\ Mp = M \cup {f} /\ sp.last_fec_set_index \in Nat
        BY <3>1, <3>2, <3>4, <3>7, <3>9
      <4>2. sp.last_fec_set_index \in Mp
        <5>1. ss.last_fec_set_index \in FecSetIndices => ss.last_fec_set_index \in M
          BY <1>1, <3>6, NoneAssumption, SlotInvIsInvariant DEF HInv, IInv, SlotInv
        <5> QED BY <3>1, <3>2, <3>9, <4>1, <5>1
      <4>3. ASSUME NEW i \in M PROVE i <= sp.last_fec_set_index
        <5>1. ss.last_fec_set_index \in M /\ i <= ss.last_fec_set_index
          BY <3>6, <4>3
        <5>2. ss.last_fec_set_index <= sp.last_fec_set_index
          BY <3>1, <3>2, <3>5, <3>9, <5>1
        <5>3. /\ i \in Nat
              /\ ss.last_fec_set_index \in Nat
              /\ sp.last_fec_set_index \in Nat
          BY <3>5, <3>7, <4>1, <5>1
        <5> HIDE DEF ss
        <5> QED BY <5>1, <5>2, <5>3
      <4>4. f <= sp.last_fec_set_index
        BY <3>1, <3>2, <3>9
      <4> QED BY <2>2, <3>8, <4>1, <4>2, <4>3, <4>4 DEF sp, Mp
    <3>10. CASE ~is_last_in_slot(d)
      <4>1. Mp = M
        BY <3>4, <3>10
      <4>2. /\ sp.last_shred_seen <=> ss.last_shred_seen
            /\ sp.last_fec_set_index = ss.last_fec_set_index
            /\ sp.finalized => ss.last_shred_seen
        BY <3>1, <3>2, <3>6, <3>10
      <4> QED BY <2>2, <3>6, <3>8, <4>1, <4>2 DEF sp, Mp
    <3> QED BY <3>9, <3>10
  <2> QED BY <2>1, <2>2
<1> QED BY <1>2 DEF Marks

-----------------------------------------------------------------------------
\* Nothing arrived at an empty assembler.
LEMMA HistoryInitHInv == HistoryInit => HInv
<1> SUFFICES ASSUME HistoryInit PROVE HInv
  OBVIOUS
<1>1. IInv
  BY InitIInv DEF HistoryInit
<1>2. Held
  <2>1. present(NewFecState) = {}
    BY DEF present, NewFecState
  <2>2. \A k \in FecKey : states[k] = NewFecState /\ arrived(k) = {}
    BY DEF HistoryInit, Init, arrived
  <2> QED BY <2>1, <2>2 DEF Held
<1>3. Marks
  <2>1. \A s \in Slots : slots[s] = NewSlotState /\ touched(s) = {} /\ marked(s) = {}
    BY DEF HistoryInit, Init, touched, marked
  <2>2. /\ NewSlotState.seen_fec_indices = {}
        /\ ~NewSlotState.last_shred_seen
        /\ ~NewSlotState.finalized
    BY DEF NewSlotState
  <2> QED BY <2>1, <2>2 DEF Marks
<1> QED BY <1>1, <1>2, <1>3 DEF HInv, HistoryInit

\* A step that changes neither map nor the history preserves the invariant.
LEMMA HistoryInert == HInv /\ Inert /\ UNCHANGED received => HInv'
<1> SUFFICES ASSUME HInv, Inert, UNCHANGED received PROVE HInv'
  OBVIOUS
<1>1. IInv'
  BY InertPreserves DEF HInv
<1>2. Held'
  BY DEF HInv, Inert, Held, arrived
<1>3. Marks'
  BY DEF HInv, Inert, Marks, touched, marked
<1> QED BY <1>1, <1>2, <1>3 DEF HInv

\* The invariant is inductive.
LEMMA HistoryNextHInv == HInv /\ [HistoryNext]_<<vars, received>> => HInv'
<1> SUFFICES ASSUME HInv, [HistoryNext]_<<vars, received>> PROVE HInv'
  OBVIOUS
<1>1. CASE HistoryNext
  <2>1. PICK d \in Datagrams : \E leader \in leader_for_slot(d.slot) :
            /\ ingest(d, leader)
            /\ received' = received \cup IF verify_shred(d, leader) THEN {d} ELSE {}
    BY <1>1 DEF HistoryNext
  <2>2. PICK leader \in leader_for_slot(d.slot) :
            /\ ingest(d, leader)
            /\ received' = received \cup IF verify_shred(d, leader) THEN {d} ELSE {}
    BY <2>1
  <2>3. IF verify_shred(d, leader) THEN \E st2, sn : Effect(d, st2, sn) ELSE Inert
    BY <2>2, IngestEffect DEF HInv
  <2>4. CASE verify_shred(d, leader)
    <3>1. PICK st2, sn : Effect(d, st2, sn)
      BY <2>3, <2>4
    <3>2. received' = received \cup {d}
      BY <2>2, <2>4
    <3>3. IInv' /\ Held' /\ Marks'
      BY <3>1, <3>2, EffectPreserves, EffectHeld, EffectMarks DEF HInv
    <3> QED BY <3>2, <3>3 DEF HInv
  <2>5. CASE ~verify_shred(d, leader)
    BY <2>2, <2>3, <2>5, HistoryInert
  <2> QED BY <2>4, <2>5
<1>2. CASE UNCHANGED <<vars, received>>
  BY <1>2, HistoryInert DEF vars, Inert
<1> QED BY <1>1, <1>2

(***************************************************************************)
(* Every reachable state of the assembler is the one its verified inputs   *)
(* determine.                                                              *)
(***************************************************************************)
THEOREM HistoryInvariance == HistorySpec => []HInv
BY HistoryInitHInv, HistoryNextHInv, PTL DEF HistorySpec

-----------------------------------------------------------------------------
\* An entry without a root is the initial one.
LEMMA UnrootedIsNew ==
    ASSUME NEW k \in FecKey, NEW st, SetInv(k, st), st.merkle_root = NoRoot
    PROVE  st = NewFecState
<1>1. st \in FecState
  BY DEF SetInv
<1>2. present(st) = {} /\ ~st.reconstructed /\ st.distinct_seen = 0
  BY StoredMeansRooted
<1>3. st.das_confidence_at_reconstruct = Unset
  BY <1>2 DEF SetInv
<1>4. st.shards = [i \in ShardIndices |-> NoShard]
  BY <1>1, <1>2 DEF present, FecState
<1>5. st.reconstructed = FALSE
  BY <1>1, <1>2 DEF FecState
<1> QED BY <1>1, <1>2, <1>3, <1>4, <1>5 DEF FecState, NewFecState

\* The bookkeeping part, from the invariant.
LEMMA HInvTracks == HInv => TracksVerified
<1> SUFFICES ASSUME HInv PROVE TracksVerified
  OBVIOUS
<1>1. ASSUME NEW k \in FecKey
      PROVE  states[k] # NewFecState <=> \E d \in received : key_of(d) = k
  <2>1. PICK s \in Slots, i \in FecSetIndices : k = <<s, i>>
    BY DEF FecKey
  <2>2. states[k] # NewFecState <=> states[k].merkle_root # NoRoot
    <3>1. NewFecState.merkle_root = NoRoot
      BY DEF NewFecState
    <3>2. SetInv(k, states[k])
      BY SetInvIsInvariant DEF HInv, IInv
    <3> QED BY <3>1, <3>2, UnrootedIsNew
  <2>3. states[k].merkle_root # NoRoot <=> i \in touched(s)
    BY <2>1 DEF HInv, IInv, SlotAgreesWithSets, Marks
  <2>4. i \in touched(s) <=> \E d \in received : key_of(d) = k
    BY <2>1 DEF touched, key_of
  <2> QED BY <2>2, <2>3, <2>4
<1>2. ASSUME NEW s \in Slots
      PROVE  /\ slots[s].seen_fec_indices
                  = {d.fec_set_index : d \in {e \in received : e.slot = s}}
             /\ slots[s].last_shred_seen <=> marked(s) # {}
             /\ slots[s].last_shred_seen =>
                   /\ slots[s].last_fec_set_index \in marked(s)
                   /\ \A i \in marked(s) : i <= slots[s].last_fec_set_index
             /\ marked(s) = {} => ~slots[s].finalized
  BY DEF HInv, Marks, touched
<1> QED BY <1>1, <1>2 DEF TracksVerified

\* Reconstruction, from the invariant: a set in progress holds what arrived,
\* and what a reconstructed one holds is enough.
LEMMA HInvReconstructs == HInv => ReconstructsWhatArrived
<1> SUFFICES ASSUME HInv, NEW k \in FecKey
             PROVE  states[k].reconstructed <=> recoverable(k)
  BY DEF ReconstructsWhatArrived
<1> DEFINE st == states[k]
           A  == arrived(k)
           P  == present(st)
<1>1. SetInv(k, st)
  BY SetInvIsInvariant DEF HInv, IInv
<1>2. /\ P \subseteq A
      /\ ~st.reconstructed => A \subseteq P
  BY DEF HInv, Held
<1>3. IsFiniteSet(A)
  <2>1. SHREDS_PER_FEC - 1 \in Int
    BY DataShredsAssumption, CodingShredsAssumption DEF SHREDS_PER_FEC
  <2>2. IsFiniteSet(ShardIndices)
    BY <2>1, FS_Interval DEF ShardIndices
  <2> QED BY <2>2, FS_Subset DEF arrived
<1>4. /\ st.distinct_seen = Cardinality(P)
      /\ st.distinct_seen <= DATA_SHREDS_PER_FEC
      /\ st.reconstructed <=> st.distinct_seen = DATA_SHREDS_PER_FEC
      /\ st.distinct_seen \in Nat
  BY <1>1 DEF SetInv, FecState
<1>5. Cardinality(P) <= Cardinality(A) /\ Cardinality(A) \in Nat
  BY <1>2, <1>3, FS_Subset, FS_CardinalityType
<1> HIDE DEF st, A, P
<1>6. CASE st.reconstructed
  <2>1. Cardinality(A) >= DATA_SHREDS_PER_FEC
    BY <1>4, <1>5, <1>6, DataShredsAssumption
  <2> QED BY <1>6, <2>1 DEF recoverable, st, A
<1>7. CASE ~st.reconstructed
  <2>1. A = P
    BY <1>2, <1>7
  <2>2. ~(Cardinality(A) >= DATA_SHREDS_PER_FEC)
    BY <1>4, <1>7, <2>1, DataShredsAssumption
  <2> QED BY <1>7, <2>2 DEF recoverable, st, A
<1> QED BY <1>6, <1>7

\* Finalization, from the other two and NoMissedFinalization.
LEMMA HInvFinalizes == HInv => FinalizesWhatArrived
<1> SUFFICES ASSUME HInv, NEW s \in Slots,
                    marked(s) # {},
                    \A d \in received :
                        /\ d.slot = s
                        /\ \E i \in marked(s) : d.fec_set_index <= i
                        => recoverable(key_of(d))
             PROVE  slots[s].finalized
  BY DEF FinalizesWhatArrived
<1> DEFINE ss == slots[s]
<1>1. SlotInv(s, ss, states) /\ ~may_finalize(ss)
  BY SlotInvIsInvariant DEF HInv, IInv, NoMissedFinalization
<1>2. /\ ss.last_shred_seen
      /\ ss.last_fec_set_index \in marked(s)
      /\ ss.seen_fec_indices = touched(s)
  BY DEF HInv, Marks
<1>3. ss.last_fec_set_index # NoIndex /\ ss.last_fec_set_index \in ss.seen_fec_indices
  BY <1>1, <1>2 DEF SlotInv
<1>4. ASSUME NEW i \in indices_to_check(ss)
      PROVE  i \in ss.reconstructed_fec_indices
  <2>1. i \in touched(s) /\ i <= ss.last_fec_set_index
    BY <1>2, <1>4 DEF indices_to_check
  <2>2. PICK d \in received : d.slot = s /\ d.fec_set_index = i
    BY <2>1 DEF touched
  <2>3. recoverable(key_of(d))
    BY <1>2, <2>1, <2>2
  <2>4. key_of(d) = <<s, i>> /\ key_of(d) \in FecKey /\ i \in FecSetIndices
    BY <2>2, DatagramFields DEF HInv
  <2>5. states[<<s, i>>].reconstructed
    BY <2>3, <2>4, HInvReconstructs DEF ReconstructsWhatArrived
  <2> QED BY <1>1, <2>4, <2>5 DEF SlotInv
<1> QED BY <1>1, <1>2, <1>3, <1>4 DEF may_finalize

(***************************************************************************)
(* Only verified shreds create entries, every verified shred is noted, and *)
(* the mark is the highest one that arrived.                               *)
(***************************************************************************)
THEOREM Tracks == HistorySpec => []TracksVerified
BY HistoryInvariance, HInvTracks, PTL

(***************************************************************************)
(* A set is reconstructed exactly when enough distinct shreds of the block *)
(* it committed to arrived, in whatever order and however often.           *)
(***************************************************************************)
THEOREM Reconstructs == HistorySpec => []ReconstructsWhatArrived
BY HistoryInvariance, HInvReconstructs, PTL

(***************************************************************************)
(* A slot whose mark arrived and of which every set up to the mark that    *)
(* was heard of arrived well enough is finalized.                          *)
(***************************************************************************)
THEOREM Finalizes == HistorySpec => []FinalizesWhatArrived
BY HistoryInvariance, HInvFinalizes, PTL

-----------------------------------------------------------------------------
(***************************************************************************)
(* A use of the assembler: the demo commands of module Demo.  What         *)
(* build_fec_set builds, verify_shred and ingest take apart again.         *)
(***************************************************************************)
\* A proof is as long as the tree of the set needs: it leads to every position.
LEMMA ProofReaches ==
    PROOF_ENTRIES \in 0 .. 15 /\ \A i \in ShardIndices : i < 2 ^ PROOF_ENTRIES
<1> DEFINE long(h) == 2 ^ h >= SHREDS_PER_FEC
           H == {h \in 0 .. 15 : long(h)}
<1>1. SHREDS_PER_FEC \in Nat
  BY DataShredsAssumption, CodingShredsAssumption DEF SHREDS_PER_FEC
<1>2. 15 \in H
  BY <1>1, SetSizeAssumption
<1>3. \A g \in 0 .. 15 : 2 ^ g \in Nat
  <2>1. \A g \in 0 .. 15 : \/ g = 0 \/ g = 1 \/ g = 2 \/ g = 3 \/ g = 4 \/ g = 5
                           \/ g = 6 \/ g = 7 \/ g = 8 \/ g = 9 \/ g = 10 \/ g = 11
                           \/ g = 12 \/ g = 13 \/ g = 14 \/ g = 15
    OBVIOUS
  <2>2. /\ 2 ^ 0 \in Nat /\ 2 ^ 1 \in Nat /\ 2 ^ 2 \in Nat /\ 2 ^ 3 \in Nat
        /\ 2 ^ 4 \in Nat /\ 2 ^ 5 \in Nat /\ 2 ^ 6 \in Nat /\ 2 ^ 7 \in Nat
        /\ 2 ^ 8 \in Nat /\ 2 ^ 9 \in Nat /\ 2 ^ 10 \in Nat /\ 2 ^ 11 \in Nat
        /\ 2 ^ 12 \in Nat /\ 2 ^ 13 \in Nat /\ 2 ^ 14 \in Nat /\ 2 ^ 15 \in Nat
    OBVIOUS
  <2> QED BY <2>1, <2>2, Zenon
<1>4. PICK h \in H : \A g \in H : h <= g
  <2>1. H \in SUBSET Nat
    OBVIOUS
  <2> QED BY <1>2, <2>1, Least
<1>5. h \in 0 .. 15 /\ long(h) /\ \A g \in 0 .. h - 1 : ~long(g)
  BY <1>4
<1>6. \A g \in 0 .. h - 1 : 2 ^ g < SHREDS_PER_FEC
  BY <1>1, <1>3, <1>5
<1>7. /\ PROOF_ENTRIES \in 0 .. 15
      /\ 2 ^ PROOF_ENTRIES >= SHREDS_PER_FEC
  BY <1>5, <1>6 DEF PROOF_ENTRIES
<1>8. 2 ^ PROOF_ENTRIES \in Nat
  BY <1>3, <1>7
<1> QED BY <1>1, <1>7, <1>8 DEF ShardIndices

\* What the listener reads off the shred with number i of a demo set.
LEMMA Built ==
    ASSUME NEW p \in {set_a, set_b}, NEW i \in ShardIndices
    PROVE  LET d == build_fec_set(p)[i + 1]
           IN  /\ d \in Datagrams
               /\ key_of(d) = <<slot, p.fec_set_index>>
               /\ d.slot = slot
               /\ d.merkle_root = p.merkle_root
               /\ erasure_shard_index(d) = i
               /\ verify_shred(d, Leader[slot])
               /\ is_last_in_slot(d) <=> i < DATA_SHREDS_PER_FEC /\ p.last
<1> DEFINE d == build_fec_set(p)[i + 1]
           D == DATA_SHREDS_PER_FEC
<1>1. /\ D \in Nat
      /\ CODING_SHREDS_PER_FEC \in Nat
      /\ i \in Nat
      /\ i + 1 \in 1 .. SHREDS_PER_FEC
      /\ i < SHREDS_PER_FEC
      /\ i < U32
      /\ U32 \in Nat \ {0}
  BY DataShredsAssumption, CodingShredsAssumption, U32Assumption, SetSizeAssumption
     DEF ShardIndices, SHREDS_PER_FEC
<1>2. d \in Datagrams
  BY <1>1, SentAssumption
<1>3. /\ p.slot = slot /\ p.signing_key = Leader[slot]
      /\ p.fec_set_index \in Nat /\ p.last \in BOOLEAN
  BY SetsAssumption, FecSetIndicesAssumption DEF FecSetParams
<1>4. CASE i < D
  <2>1. d = data_shred(p, i)
    BY <1>1, <1>4 DEF build_fec_set
  <2>2. /\ d.kind = "Data" /\ d.index = p.fec_set_index + i /\ d.fec_set_index = p.fec_set_index
        /\ d.last_flag = p.last /\ d.slot = slot /\ d.merkle_root = p.merkle_root
        /\ d.wellformed /\ d.signer = Leader[slot] /\ d.proof_size = PROOF_ENTRIES
    BY <1>3, <2>1 DEF data_shred, header
  <2> HIDE DEF d
  <2>3. erasure_shard_index(d) = i
    <3>1. erasure_shard_index(d) = ((p.fec_set_index + i) - p.fec_set_index) % U32
      BY <2>2 DEF erasure_shard_index
    <3>2. (p.fec_set_index + i) - p.fec_set_index = i
      BY <1>1, <1>3
    <3>3. i % U32 = i
      BY <1>1
    <3> QED BY <3>1, <3>2, <3>3
  <2>4. verify_shred(d, Leader[slot])
    BY <2>2, <2>3, ProofReaches DEF verify_shred, merkle_path_ok
  <2> QED BY <1>2, <1>4, <2>2, <2>3, <2>4 DEF key_of, is_last_in_slot, d
<1>5. CASE ~(i < D)
  <2>1. d = code_shred(p, i - D)
    BY <1>1, <1>5 DEF build_fec_set
  <2>2. /\ d.kind = "Code" /\ d.index = i - D /\ d.fec_set_index = p.fec_set_index
        /\ d.slot = slot /\ d.merkle_root = p.merkle_root
        /\ d.wellformed /\ d.signer = Leader[slot] /\ d.proof_size = PROOF_ENTRIES
    BY <1>3, <2>1 DEF code_shred, header
  <2> HIDE DEF d
  <2>3. erasure_shard_index(d) = i
    BY <1>1, <2>2 DEF erasure_shard_index
  <2>4. verify_shred(d, Leader[slot])
    BY <2>2, <2>3, ProofReaches DEF verify_shred, merkle_path_ok
  <2> QED BY <1>2, <1>5, <2>2, <2>3, <2>4 DEF key_of, is_last_in_slot, d
<1> QED BY <1>4, <1>5

\* Counting the events of one type, event by event.
LEMMA CountMore ==
    ASSUME NEW T, NEW evs \in Seq(T), NEW e, NEW type
    PROVE  /\ count(evs, type) \in Nat
           /\ count(Append(evs, e), type) =
                 count(evs, type) + IF e.type = type THEN 1 ELSE 0
<1> DEFINE C == {n \in DOMAIN evs : evs[n].type = type}
           C2 == {n \in DOMAIN Append(evs, e) : Append(evs, e)[n].type = type}
           m == Len(evs) + 1
<1>1. Len(evs) \in Nat /\ DOMAIN evs = 1 .. Len(evs)
  OBVIOUS
<1>2. IsFiniteSet(C)
  <2>1. IsFiniteSet(1 .. Len(evs))
    BY <1>1, FS_Interval
  <2> QED BY <1>1, <2>1, FS_Subset
<1>3. Cardinality(C) \in Nat
  BY <1>2, FS_CardinalityType
<1>4. evs \in Seq(T \cup {e})
  OBVIOUS
<1>5. /\ DOMAIN Append(evs, e) = 1 .. m
      /\ Append(evs, e)[m] = e
      /\ \A n \in 1 .. Len(evs) : Append(evs, e)[n] = evs[n]
  BY <1>4
<1>6. m \notin C
  BY <1>1
<1>7. count(evs, type) = Cardinality(C) /\ count(Append(evs, e), type) = Cardinality(C2)
  BY DEF count
<1>8. CASE e.type = type
  <2>1. C2 = C \cup {m}
    BY <1>1, <1>5, <1>8
  <2>2. Cardinality(C \cup {m}) = Cardinality(C) + 1
    BY <1>2, <1>6, FS_AddElement
  <2> HIDE DEF C, C2
  <2> QED BY <1>3, <1>7, <1>8, <2>1, <2>2
<1>9. CASE e.type # type
  <2>1. C2 = C
    BY <1>1, <1>5, <1>9
  <2> HIDE DEF C, C2
  <2> QED BY <1>3, <1>7, <1>9, <2>1
<1> QED BY <1>8, <1>9

\* Sequences of events, of whatever members.
Events(evs) == \E T : evs \in Seq(T)

LEMMA EventsMore ==
    ASSUME NEW evs, Events(evs), NEW e
    PROVE  /\ Events(Append(evs, e))
           /\ \A type : /\ count(evs, type) \in Nat
                        /\ count(Append(evs, e), type) =
                              count(evs, type) + IF e.type = type THEN 1 ELSE 0
<1>1. PICK T : evs \in Seq(T)
  BY DEF Events
<1>2. Append(evs, e) \in Seq(T \cup {e})
  BY <1>1
<1>3. Events(Append(evs, e))
  BY <1>2 DEF Events
<1> QED BY <1>1, <1>3, CountMore

LEMMA NoEvents == Events(<<>>) /\ \A type : count(<<>>, type) = 0
<1>1. <<>> \in Seq({0})
  OBVIOUS
<1>2. \A type : {n \in DOMAIN <<>> : <<>>[n].type = type} = {}
  OBVIOUS
<1> QED BY <1>1, <1>2, FS_EmptySet DEF Events, count

LEMMA OneEvent ==
    ASSUME NEW e
    PROVE  Events(<<e>>) /\ \A type : count(<<e>>, type) = IF e.type = type THEN 1 ELSE 0
<1>1. \A q : q \in Seq({e}) => Events(q)
  BY DEF Events
<1>2. <<e>> \in Seq({e})
  OBVIOUS
<1>3. ASSUME NEW type
      PROVE  {n \in DOMAIN <<e>> : <<e>>[n].type = type} = IF e.type = type THEN {1} ELSE {}
  OBVIOUS
<1> QED BY <1>1, <1>2, <1>3, FS_EmptySet, FS_Singleton DEF count

\* The types of the events differ.
LEMMA TypesOfEvents ==
    /\ \A k, x : Started(k, x).type = "Started"
    /\ \A k, n, i : ShredAccepted(k, n, i).type = "ShredAccepted"
    /\ \A k, x, c : Reconstructed(k, x, c).type = "Reconstructed"
    /\ \A s, sn, st : finalization(s, sn, st).type = "SlotFinalized"
BY DEF Started, ShredAccepted, Reconstructed, finalization, SlotFinalized

\* A shred that is taken is announced by a Started and a ShredAccepted at most.
LEMMA AcceptedEvents ==
    ASSUME NEW st, NEW d
    PROVE  /\ Events(accepted(st, d))
           /\ \A type \in {"Rejected", "Reconstructed", "SlotFinalized"} :
                 count(accepted(st, d), type) = 0
<1> DEFINE s1 == started(st, d)
           e == Started(key_of(d), d.merkle_root)
<1>1. CASE st.merkle_root = NoRoot
  <2>1. s1 = <<e>>
    BY <1>1 DEF started
  <2> HIDE DEF s1, e
  <2>2. Events(s1) /\ \A type : count(s1, type) = IF e.type = type THEN 1 ELSE 0
    BY <2>1, OneEvent
  <2>3. e.type = "Started"
    BY TypesOfEvents DEF e
  <2>4. \A type \in {"Rejected", "Reconstructed", "SlotFinalized"} : count(s1, type) = 0
    BY <2>2, <2>3
  <2> QED BY <2>2, <2>4, EventsMore, TypesOfEvents DEF accepted, s1
<1>2. CASE st.merkle_root # NoRoot
  <2>1. s1 = <<>>
    BY <1>2 DEF started
  <2> DEFINE a == ShredAccepted(key_of(d), st.distinct_seen + 1, erasure_shard_index(d))
  <2>2. a.type = "ShredAccepted"
    BY TypesOfEvents
  <2>3. accepted(st, d) = <<a>>
    BY <2>1 DEF accepted
  <2> HIDE DEF a
  <2> QED BY <2>2, <2>3, OneEvent
<1> QED BY <1>1, <1>2

\* What follows from the events of the set: those of the slot.
LEMMA AnnouncedEvents ==
    ASSUME IInv, NEW d \in Datagrams, NEW st2, NEW sn, Effect(d, st2, sn),
           NEW evs, Events(evs), count(evs, "SlotFinalized") = 0, Announces(d, sn, evs)
    PROVE  /\ \A type \in {"Rejected", "Reconstructed"} :
                 count(events', type) = count(evs, type)
           /\ count(events', "SlotFinalized") =
                 Len(finalizations'[d.slot]) - Len(finalizations[d.slot])
<1> DEFINE s == d.slot
           ev == finalization(s, sn, states')
           f == finalizations[s]
<1>1. s \in Slots /\ finalizations \in [Slots -> Seq(FecRoots)]
  BY DatagramFields DEF IInv, TypeOK
<1>2. f \in Seq(FecRoots) /\ Len(f) \in Nat
  BY <1>1
<1>3. \A type : /\ count(evs, type) \in Nat
                /\ count(Append(evs, ev), type) =
                      count(evs, type) + IF ev.type = type THEN 1 ELSE 0
  BY EventsMore
<1>4. ev.type = "SlotFinalized"
  BY TypesOfEvents
<1> HIDE DEF ev
<1>5. CASE ~may_finalize(sn)
  <2>1. events' = evs /\ finalizations' = finalizations
    BY <1>5 DEF Announces, Effect
  <2> QED BY <1>2, <2>1
<1>6. CASE may_finalize(sn)
  <2>1. events' = Append(evs, ev)
    BY <1>6 DEF Announces, ev
  <2>2. finalizations'[s] = Append(f, ev.fec_roots)
    BY <1>1, <1>6 DEF Effect, ev
  <2>3. Len(finalizations'[s]) = Len(f) + 1
    BY <1>2, <2>2
  <2>4. count(events', "SlotFinalized") = 1
    BY <1>3, <1>4, <2>1
  <2>5. \A type \in {"Rejected", "Reconstructed"} : count(events', type) = count(evs, type)
    BY <1>3, <1>4, <2>1
  <2> QED BY <1>2, <2>3, <2>4, <2>5
<1> QED BY <1>5, <1>6

(***************************************************************************)
(* What an ingest does with a shred of the leader that its set still lacks *)
(* or no longer needs.                                                     *)
(***************************************************************************)
LEMMA Welcome ==
    ASSUME IInv, NEW d \in Datagrams, ingest(d, Leader[d.slot]),
           verify_shred(d, Leader[d.slot]),
           erasure_shard_index(d) \in ShardIndices,
           ~states[key_of(d)].reconstructed =>
              /\ erasure_shard_index(d) \notin present(states[key_of(d)])
              /\ states[key_of(d)].merkle_root \in {NoRoot, d.merkle_root}
    PROVE  LET st == states[key_of(d)]
               st2 == states'[key_of(d)]
           IN  /\ \E sn : Effect(d, st2, sn)
               /\ ~st.reconstructed =>
                     /\ present(st2) = present(st) \cup {erasure_shard_index(d)}
                     /\ st2.shards[erasure_shard_index(d)] = d
                     /\ st2.merkle_root = d.merkle_root
               /\ count(events', "Rejected") = 0
               /\ count(events', "Reconstructed") > 0 <=> ~st.reconstructed /\ st2.reconstructed
               /\ count(events', "SlotFinalized") =
                     Len(finalizations'[d.slot]) - Len(finalizations[d.slot])
<1> DEFINE st == states[key_of(d)]
           i == erasure_shard_index(d)
<1>1. Leader[d.slot] \in leader_for_slot(d.slot)
  BY DEF leader_for_slot
<1>2. PICK st2, sn, evs : /\ Effect(d, st2, sn)
                          /\ SetEvents(d, st, st2, evs)
                          /\ Announces(d, sn, evs)
  BY <1>1, IngestOutcome
<1>3. states'[key_of(d)] = st2
  BY <1>2, EffectFacts
<1>4. /\ st \in FecState
      /\ st2.merkle_root # NoRoot
      /\ st.reconstructed => st2 = st
      /\ ~st.reconstructed => present(st2) = present(st) \cup fills(d, st2.merkle_root)
      /\ st.merkle_root \in {NoRoot, st2.merkle_root}
  BY <1>2, DatagramFields DEF IInv, TypeOK, Effect, SetEffect
<1>5. d \in Datagrams /\ d # NoShard /\ d.merkle_root \in MerkleRoots
  BY DatagramFields
<1>6. CASE st.reconstructed
  <2>1. IngestIntoReconstructed(d, Leader[d.slot])
    BY <1>6, DatagramsAssumption, NoneAssumption, DatagramFields, LeaderAssumption
       DEF ingest, IngestUnparsable, IngestNoLeader, IngestUnverified, IngestDivergentRoot,
           IngestOutOfRange, IngestDuplicate, IngestAccepted, IngestReconstructs, belongs,
           verify_shred
  <2> DEFINE sb == slot_bookkeeping(slots[d.slot], d)
             ev == finalization(d.slot, sb, states)
             f == finalizations[d.slot]
  <2>2. try_finalize_slot(d.slot, sb, states, <<>>)
    BY <2>1 DEF IngestIntoReconstructed
  <2>3. f \in Seq(FecRoots) /\ finalizations \in [Slots -> Seq(FecRoots)] /\ d.slot \in Slots
    BY DatagramFields DEF IInv, TypeOK
  <2>4. \/ events' = <<>> /\ finalizations'[d.slot] = f
        \/ events' = <<ev>> /\ finalizations'[d.slot] = Append(f, ev.fec_roots)
    BY <2>2, <2>3 DEF try_finalize_slot
  <2>5. ev.type = "SlotFinalized"
    BY TypesOfEvents
  <2> HIDE DEF ev, sb
  <2>6. /\ count(events', "Rejected") = 0
        /\ count(events', "Reconstructed") = 0
        /\ count(events', "SlotFinalized") = Len(finalizations'[d.slot]) - Len(f)
    <3>1. CASE events' = <<>> /\ finalizations'[d.slot] = f
      BY <2>3, <3>1, NoEvents
    <3>2. CASE events' = <<ev>> /\ finalizations'[d.slot] = Append(f, ev.fec_roots)
      <4>1. \A type : count(events', type) = IF ev.type = type THEN 1 ELSE 0
        BY <3>2, OneEvent
      <4>2. Len(finalizations'[d.slot]) = Len(f) + 1 /\ Len(f) \in Nat
        BY <2>3, <3>2
      <4> QED BY <2>5, <4>1, <4>2
    <3> QED BY <2>4, <3>1, <3>2
  <2>7. ~(count(events', "Reconstructed") > 0)
    BY <2>6
  <2> QED BY <1>2, <1>3, <1>6, <2>6, <2>7
<1>7. CASE ~st.reconstructed
  <2>1. with_shard(st, d) \in FecState
        /\ with_shard(st, d).merkle_root = d.merkle_root
        /\ with_shard(st, d).shards = [st.shards EXCEPT ![i] = d]
        /\ with_shard(st, d).reconstructed = st.reconstructed
    BY <1>4, WithShard
  <2>2. /\ completed(st, d).merkle_root = d.merkle_root
        /\ completed(st, d).shards = [st.shards EXCEPT ![i] = d]
        /\ completed(st, d).reconstructed = TRUE
    BY <2>1 DEF completed, FecState
  <2>3. i \notin present(st) /\ st.merkle_root \in {NoRoot, d.merkle_root}
    BY <1>7
  <2>4. st2.merkle_root = d.merkle_root
    <3>1. st2 = st => st.merkle_root # NoRoot
      BY <1>4
    <3>2. st2 = with_root(st, d) => st2.merkle_root = d.merkle_root
      BY <1>4, WithRoot
    <3> QED BY <1>2, <2>1, <2>2, <2>3, <3>1, <3>2 DEF SetEvents
  <2>5. present(st2) = present(st) \cup {i} /\ i \in present(st2)
    BY <1>4, <1>7, <2>4 DEF fills
  <2>6. st2 # st /\ st2 # with_root(st, d)
    <3>1. with_root(st, d).shards = st.shards
      BY <1>4, WithRoot
    <3>2. present(with_root(st, d)) = present(st)
      BY <3>1 DEF present
    <3> QED BY <2>3, <2>5, <3>2
  <2>7. \/ st2 = with_shard(st, d) /\ evs = accepted(st, d)
        \/ /\ st2 = completed(st, d)
           /\ \E das : evs = Append(accepted(st, d),
                                    Reconstructed(key_of(d), st2.merkle_root, das))
    BY <1>2, <2>6 DEF SetEvents
  <2>8. st2.shards[i] = d
    <3>1. st2.shards = [st.shards EXCEPT ![i] = d]
      BY <2>1, <2>2, <2>7
    <3>2. st.shards \in [ShardIndices -> Datagrams \cup {NoShard}]
      BY <1>4 DEF FecState
    <3> QED BY <3>1, <3>2
  <2>9. /\ Events(evs)
        /\ count(evs, "Rejected") = 0
        /\ count(evs, "SlotFinalized") = 0
        /\ count(evs, "Reconstructed") > 0 <=> st2.reconstructed
    <3>1. CASE st2 = with_shard(st, d) /\ evs = accepted(st, d)
      BY <1>7, <2>1, <3>1, AcceptedEvents
    <3>2. CASE /\ st2 = completed(st, d)
               /\ \E das : evs = Append(accepted(st, d),
                                        Reconstructed(key_of(d), st2.merkle_root, das))
      <4>1. PICK das : evs = Append(accepted(st, d),
                                    Reconstructed(key_of(d), st2.merkle_root, das))
        BY <3>2
      <4> DEFINE e == Reconstructed(key_of(d), st2.merkle_root, das)
                 a == accepted(st, d)
      <4>2. e.type = "Reconstructed"
        BY TypesOfEvents
      <4>3. /\ Events(a)
            /\ \A type \in {"Rejected", "Reconstructed", "SlotFinalized"} : count(a, type) = 0
        BY AcceptedEvents
      <4> HIDE DEF e, a
      <4>4. /\ Events(Append(a, e))
            /\ \A type : count(Append(a, e), type) = count(a, type) + IF e.type = type THEN 1 ELSE 0
        BY <4>3, EventsMore
      <4>5. evs = Append(a, e)
        BY <4>1 DEF a, e
      <4>6. /\ count(Append(a, e), "Rejected") = 0
            /\ count(Append(a, e), "SlotFinalized") = 0
            /\ count(Append(a, e), "Reconstructed") = 1
        BY <4>2, <4>3, <4>4
      <4>7. count(evs, "Reconstructed") > 0
        BY <4>5, <4>6
      <4>8. st2.reconstructed
        BY <2>2, <3>2
      <4> QED BY <4>4, <4>5, <4>6, <4>7, <4>8
    <3> QED BY <2>7, <3>1, <3>2
  <2>10. /\ count(events', "Rejected") = count(evs, "Rejected")
         /\ count(events', "Reconstructed") = count(evs, "Reconstructed")
         /\ count(events', "SlotFinalized") =
               Len(finalizations'[d.slot]) - Len(finalizations[d.slot])
    BY <1>2, <2>9, AnnouncedEvents
  <2> QED BY <1>2, <1>3, <1>7, <2>4, <2>5, <2>8, <2>9, <2>10
<1> QED BY <1>6, <1>7

-----------------------------------------------------------------------------
(***************************************************************************)
(* One set, as far as it was fed: the assembler holds its shreds in their  *)
(* order, up to the threshold.                                             *)
(***************************************************************************)
upto(k) == {i \in ShardIndices : i < k /\ i < DATA_SHREDS_PER_FEC}

key_for(p) == <<slot, p.fec_set_index>>

SetHolds(p, k) ==
    /\ present(states[key_for(p)]) = upto(k)
    /\ \A i \in upto(k) : states[key_for(p)].shards[i] = build_fec_set(p)[i + 1]
    /\ states[key_for(p)].merkle_root \in {NoRoot, p.merkle_root}

LEMMA KeyFor ==
    ASSUME NEW p \in {set_a, set_b}
    PROVE  key_for(p) \in FecKey /\ key_for(p)[1] = slot /\ key_for(p)[2] = p.fec_set_index
BY SetsAssumption DEF key_for, FecKey, FecSetParams

LEMMA Numbers ==
    /\ DATA_SHREDS_PER_FEC \in Nat /\ DATA_SHREDS_PER_FEC > 1
    /\ SHREDS_PER_FEC \in Nat /\ DATA_SHREDS_PER_FEC <= SHREDS_PER_FEC
    /\ ShardIndices = 0 .. SHREDS_PER_FEC - 1
BY DataShredsAssumption, CodingShredsAssumption DEF SHREDS_PER_FEC, ShardIndices

\* A set fed in order is reconstructed from the shred that fills it on.
LEMMA ReconstructedWhen ==
    ASSUME IInv, NEW p \in {set_a, set_b}, NEW k \in Nat, SetHolds(p, k)
    PROVE  states[key_for(p)].reconstructed <=> k >= DATA_SHREDS_PER_FEC
<1> DEFINE D == DATA_SHREDS_PER_FEC
           st == states[key_for(p)]
           m == IF k < D THEN k ELSE D
<1>1. SetInv(key_for(p), st)
  BY KeyFor, SetInvIsInvariant DEF IInv
<1>2. m \in Nat /\ m - 1 \in Int
  BY Numbers
<1>3. upto(k) = 0 .. m - 1
  BY Numbers DEF upto
<1>4. Cardinality(0 .. m - 1) = m
  <2> HIDE DEF m
  <2>1. Cardinality(0 .. m - 1) = IF 0 > m - 1 THEN 0 ELSE (m - 1) - 0 + 1
    BY <1>2, FS_Interval
  <2> QED BY <1>2, <2>1
<1>5. st.distinct_seen = m
  BY <1>1, <1>3, <1>4 DEF SetInv, SetHolds
<1>6. m = D <=> k >= D
  BY Numbers
<1> QED BY <1>1, <1>5, <1>6 DEF SetInv

\* The next shred of a set is taken, and nothing else is touched.
LEMMA NextShred ==
    ASSUME IInv, NEW p \in {set_a, set_b}, NEW k \in ShardIndices, SetHolds(p, k),
           NEW d, d = build_fec_set(p)[k + 1], ingest(d, Leader[slot])
    PROVE  /\ d \in Datagrams /\ d.slot = slot
           /\ is_last_in_slot(d) <=> k < DATA_SHREDS_PER_FEC /\ p.last
           /\ \E st2, sn : Effect(d, st2, sn)
           /\ SetHolds(p, k + 1)'
           /\ \A key \in FecKey \ {key_for(p)} : states'[key] = states[key]
           /\ count(events', "Rejected") = 0
           /\ count(events', "Reconstructed") > 0 <=>
                 ~states[key_for(p)].reconstructed /\ states'[key_for(p)].reconstructed
           /\ count(events', "SlotFinalized") =
                 Len(finalizations'[slot]) - Len(finalizations[slot])
<1> DEFINE D == DATA_SHREDS_PER_FEC
           st == states[key_for(p)]
           st2 == states'[key_for(p)]
<1>1. /\ d \in Datagrams
      /\ key_of(d) = key_for(p)
      /\ d.slot = slot
      /\ d.merkle_root = p.merkle_root
      /\ erasure_shard_index(d) = k
      /\ verify_shred(d, Leader[slot])
      /\ is_last_in_slot(d) <=> k < D /\ p.last
  BY Built DEF key_for
<1>2. k \in Nat /\ k < SHREDS_PER_FEC
  BY Numbers
<1>3. st.reconstructed <=> k >= D
  BY <1>2, ReconstructedWhen
<1>4. k \notin present(st) /\ st.merkle_root \in {NoRoot, d.merkle_root}
  BY <1>1, <1>2 DEF SetHolds, upto
<1>5. /\ \E sn : Effect(d, st2, sn)
      /\ ~st.reconstructed =>
            /\ present(st2) = present(st) \cup {k}
            /\ st2.shards[k] = d
            /\ st2.merkle_root = d.merkle_root
      /\ count(events', "Rejected") = 0
      /\ count(events', "Reconstructed") > 0 <=> ~st.reconstructed /\ st2.reconstructed
      /\ count(events', "SlotFinalized") = Len(finalizations'[slot]) - Len(finalizations[slot])
  <2>1. /\ ingest(d, Leader[d.slot])
        /\ verify_shred(d, Leader[d.slot])
        /\ erasure_shard_index(d) \in ShardIndices
        /\ erasure_shard_index(d) \notin present(states[key_of(d)])
        /\ states[key_of(d)].merkle_root \in {NoRoot, d.merkle_root}
    BY <1>1, <1>4
  <2>2. LET sd == states[key_of(d)]
            sd2 == states'[key_of(d)]
        IN  /\ \E sn : Effect(d, sd2, sn)
            /\ ~sd.reconstructed =>
                  /\ present(sd2) = present(sd) \cup {erasure_shard_index(d)}
                  /\ sd2.shards[erasure_shard_index(d)] = d
                  /\ sd2.merkle_root = d.merkle_root
            /\ count(events', "Rejected") = 0
            /\ count(events', "Reconstructed") > 0 <=> ~sd.reconstructed /\ sd2.reconstructed
            /\ count(events', "SlotFinalized") =
                  Len(finalizations'[d.slot]) - Len(finalizations[d.slot])
    BY <1>1, <2>1, Welcome
  <2> QED BY <1>1, <2>2
<1>6. PICK sn : Effect(d, st2, sn)
  BY <1>5
<1>7. /\ \A key \in FecKey \ {key_for(p)} : states'[key] = states[key]
      /\ st.reconstructed => st2 = st
      /\ \A i \in present(st) : st2.shards[i] = st.shards[i]
  <2>1. \A key \in FecKey \ {key_of(d)} : states'[key] = states[key]
    BY <1>1, <1>6, EffectFacts
  <2>2. SetEffect(d, states[key_of(d)], st2)
    BY <1>6 DEF Effect
  <2>3. SetEffect(d, st, st2)
    BY <1>1, <2>2
  <2> QED BY <1>1, <2>1, <2>3 DEF SetEffect
<1>8. /\ present(st2) = upto(k + 1)
      /\ \A i \in upto(k + 1) : st2.shards[i] = build_fec_set(p)[i + 1]
      /\ st2.merkle_root \in {NoRoot, p.merkle_root}
  <2>1. CASE k < D
    <3>1. ~st.reconstructed
      BY <1>2, <1>3, <2>1, Numbers
    <3>2. upto(k + 1) = upto(k) \cup {k}
      BY <1>2, <2>1, Numbers DEF upto
    <3>3. st2.shards[k] = build_fec_set(p)[k + 1]
      BY <1>5, <3>1
    <3> QED BY <1>1, <1>5, <1>7, <3>1, <3>2, <3>3 DEF SetHolds
  <2>2. CASE ~(k < D)
    <3>1. st2 = st
      BY <1>2, <1>3, <1>7, <2>2, Numbers
    <3>2. upto(k + 1) = upto(k)
      BY <1>2, <2>2, Numbers DEF upto
    <3> QED BY <3>1, <3>2 DEF SetHolds
  <2> QED BY <2>1, <2>2
<1>9. SetHolds(p, k + 1)'
  BY <1>8 DEF SetHolds, key_for, upto
<1> QED BY <1>1, <1>5, <1>7, <1>9

-----------------------------------------------------------------------------
(***************************************************************************)
(* The inductive invariant of the commands: how far the feed has come says *)
(* what both sets hold.                                                    *)
(***************************************************************************)
IsDas == command[1] = "das"

\* The shreds the command feeds, by number, and how many there are.
total == IF IsDas THEN command[2] ELSE 2 * DATA_SHREDS_PER_FEC

supplied(n) ==
    IF IsDas \/ n <= DATA_SHREDS_PER_FEC
    THEN build_fec_set(set_a)[n]
    ELSE build_fec_set(set_b)[n - DATA_SHREDS_PER_FEC]

\* How much of the second set is among the first k of them.
part_b(k) == IF IsDas \/ k <= DATA_SHREDS_PER_FEC THEN 0 ELSE k - DATA_SHREDS_PER_FEC

Progress(k) ==
    /\ Len(feed) = total - k
    /\ \A j \in 1 .. Len(feed) : feed[j] = supplied(k + j)
    /\ SetHolds(set_a, k)
    /\ SetHolds(set_b, part_b(k))
    /\ IF IsDas THEN ~slots[slot].last_shred_seen /\ ~slots[slot].finalized
                ELSE k > DATA_SHREDS_PER_FEC => slots[slot].last_shred_seen

Seen ==
    /\ finalized_seen = Len(finalizations[slot])
    /\ rejected = 0
    /\ reconstructed \in BOOLEAN
    /\ IsDas => (reconstructed <=> states[key_for(set_a)].reconstructed)

DInv ==
    /\ IInv
    /\ IsDas => command[2] \in 0 .. SHREDS_PER_FEC
    /\ feed \in Seq(Datagrams)
    /\ \E k \in 0 .. total : Progress(k)
    /\ \A key \in FecKey \ {key_for(set_a), key_for(set_b)} : states[key] = NewFecState
    /\ Seen

\* What was stored is what was built, and the verdicts follow at the end.
LEMMA DInvVerdicts == DInv => DemoVerdicts
<1> SUFFICES ASSUME DInv PROVE DemoVerdicts
  OBVIOUS
<1> DEFINE D == DATA_SHREDS_PER_FEC
<1>1. PICK k \in 0 .. total : Progress(k)
  BY DEF DInv
<1>2. total \in Nat /\ k \in Nat
  BY Numbers DEF DInv, total
<1>3. part_b(k) \in Nat
  BY <1>2, Numbers DEF part_b
<1>4. BuiltShredsAccepted
  <2>1. ASSUME NEW key \in FecKey, NEW i \in present(states[key])
        PROVE  \E p \in {set_a, set_b} :
                  p.fec_set_index = key[2] /\ build_fec_set(p)[i + 1] = states[key].shards[i]
    <3>1. CASE key \in {key_for(set_a), key_for(set_b)}
      BY <1>1, <2>1, <3>1, KeyFor DEF Progress, SetHolds
    <3>2. CASE key \notin {key_for(set_a), key_for(set_b)}
      <4>1. states[key] = NewFecState
        BY <2>1, <3>2 DEF DInv
      <4> QED BY <2>1, <4>1 DEF present, NewFecState
    <3> QED BY <3>1, <3>2
  <2> QED BY <2>1 DEF BuiltShredsAccepted, DInv, Seen
<1>5. ASSUME feed = <<>> PROVE k = total
  <2>1. Len(feed) = 0
    BY <1>5
  <2> QED BY <1>1, <1>2, <2>1 DEF Progress
<1>6. states[key_for(set_a)].reconstructed <=> k >= D
  BY <1>1, <1>2, ReconstructedWhen DEF Progress, DInv
<1>7. states[key_for(set_b)].reconstructed <=> part_b(k) >= D
  BY <1>1, <1>3, ReconstructedWhen DEF Progress, DInv
<1>8. Len(finalizations[slot]) = IF slots[slot].finalized THEN 1 ELSE 0
  BY SetsAssumption DEF DInv, IInv, FinalizedOnce
<1>9. ASSUME feed = <<>>, IsDas
      PROVE  (reconstructed <=> command[2] >= D) /\ finalized_seen = 0
  BY <1>1, <1>5, <1>6, <1>8, <1>9 DEF DInv, Seen, Progress, total
<1>10. ASSUME feed = <<>>, ~IsDas PROVE finalized_seen = 1
  <2> DEFINE ss == slots[slot]
  <2>1. k = 2 * D
    BY <1>5, <1>10 DEF total
  <2>2. part_b(k) = D /\ k > D
    BY <1>10, <2>1, Numbers DEF part_b
  <2>3. states[key_for(set_a)].reconstructed /\ states[key_for(set_b)].reconstructed
    BY <1>6, <1>7, <2>1, <2>2, Numbers
  <2>4. ss.last_shred_seen
    BY <1>1, <1>10, <2>2 DEF Progress
  <2>5. SlotInv(slot, ss, states) /\ ~may_finalize(ss)
    BY SetsAssumption, SlotInvIsInvariant DEF DInv, IInv, NoMissedFinalization
  <2>6. ss.last_fec_set_index # NoIndex /\ ss.last_fec_set_index \in ss.seen_fec_indices
    BY <2>4, <2>5 DEF SlotInv
  <2>7. ASSUME NEW i \in indices_to_check(ss) PROVE i \in ss.reconstructed_fec_indices
    <3>1. i \in FecSetIndices /\ i \in ss.seen_fec_indices
      BY <2>5, <2>7 DEF indices_to_check, SlotInv, SlotState
    <3>2. states[<<slot, i>>].merkle_root # NoRoot
      BY <2>5, <3>1 DEF SlotInv
    <3>3. <<slot, i>> \in FecKey
      BY <3>1, SetsAssumption DEF FecKey
    <3>4. <<slot, i>> \in {key_for(set_a), key_for(set_b)}
      BY <3>2, <3>3 DEF DInv, NewFecState
    <3> QED BY <2>3, <2>5, <3>1, <3>4 DEF SlotInv
  <2>8. ss.finalized
    BY <2>4, <2>5, <2>6, <2>7 DEF may_finalize
  <2> QED BY <1>8, <2>8 DEF DInv, Seen
<1> QED BY <1>4, <1>9, <1>10 DEF DemoVerdicts, IsDas

\* A prefix of a built set.
LEMMA Taken ==
    ASSUME NEW p \in {set_a, set_b}, NEW n \in 0 .. SHREDS_PER_FEC
    PROVE  /\ take(n, build_fec_set(p)) \in Seq(Datagrams)
           /\ Len(take(n, build_fec_set(p))) = n
           /\ \A j \in 1 .. n : take(n, build_fec_set(p))[j] = build_fec_set(p)[j]
<1> DEFINE b == build_fec_set(p)
<1>1. b = [j \in 1 .. SHREDS_PER_FEC |-> b[j]]
  BY DEF build_fec_set
<1>2. \A j \in 1 .. SHREDS_PER_FEC : b[j] \in Datagrams
  BY SentAssumption
<1> HIDE DEF b
<1>3. b \in [1 .. SHREDS_PER_FEC -> Datagrams]
  BY <1>1, <1>2
<1>4. b \in Seq(Datagrams) /\ Len(b) = SHREDS_PER_FEC
  BY <1>3, Numbers
<1>5. /\ SubSeq(b, 1, n) \in Seq(Datagrams)
      /\ Len(SubSeq(b, 1, n)) = n
      /\ \A j \in 1 .. n : SubSeq(b, 1, n)[j] = b[j]
  BY <1>4, Numbers
<1> QED BY <1>5 DEF take, b

LEMMA InitDInv == DemoInit => DInv
<1> SUFFICES ASSUME DemoInit PROVE DInv
  OBVIOUS
<1> DEFINE D == DATA_SHREDS_PER_FEC
<1>1. Init /\ IInv
  BY InitIInv DEF DemoInit
<1>2. /\ states = [key \in FecKey |-> NewFecState]
      /\ slots = [s \in Slots |-> NewSlotState]
      /\ finalizations = [s \in Slots |-> <<>>]
  BY <1>1 DEF Init
<1>3. ASSUME NEW p \in {set_a, set_b} PROVE SetHolds(p, 0)
  <2>1. states[key_for(p)] = NewFecState
    BY <1>2, KeyFor
  <2>2. upto(0) = {}
    BY Numbers DEF upto
  <2> QED BY <2>1, <2>2 DEF SetHolds, present, NewFecState
<1>4. part_b(0) = 0
  BY Numbers DEF part_b
<1>5. /\ ~slots[slot].last_shred_seen /\ ~slots[slot].finalized
      /\ Len(finalizations[slot]) = 0
      /\ ~states[key_for(set_a)].reconstructed
  BY <1>2, SetsAssumption, KeyFor DEF NewSlotState, NewFecState
<1>6. /\ IsDas => command[2] \in 0 .. SHREDS_PER_FEC
      /\ feed \in Seq(Datagrams)
      /\ Len(feed) = total
      /\ total \in Nat
      /\ \A j \in 1 .. Len(feed) : feed[j] = supplied(j)
  <2>1. CASE \E n \in 0 .. SHREDS_PER_FEC : command = <<"das", n>> /\ feed = das_feed(n)
    <3>1. PICK n \in 0 .. SHREDS_PER_FEC : command = <<"das", n>> /\ feed = das_feed(n)
      BY <2>1
    <3>2. IsDas /\ command[2] = n /\ total = n /\ n \in Nat
      BY <3>1, Numbers DEF IsDas, total
    <3>3. /\ feed \in Seq(Datagrams)
          /\ Len(feed) = n
          /\ \A j \in 1 .. n : feed[j] = build_fec_set(set_a)[j]
      BY <3>1, Taken DEF das_feed
    <3> QED BY <3>2, <3>3 DEF supplied
  <2>2. CASE command = <<"slot">> /\ feed = slot_feed
    <3>1. ~IsDas /\ total = 2 * D /\ total \in Nat
      BY <2>2, Numbers DEF IsDas, total
    <3> DEFINE a == take(D, build_fec_set(set_a))
               b == take(D, build_fec_set(set_b))
    <3>2. /\ a \in Seq(Datagrams) /\ Len(a) = D
          /\ \A j \in 1 .. D : a[j] = build_fec_set(set_a)[j]
      BY Taken, Numbers
    <3>3. /\ b \in Seq(Datagrams) /\ Len(b) = D
          /\ \A j \in 1 .. D : b[j] = build_fec_set(set_b)[j]
      BY Taken, Numbers
    <3>4. feed = a \o b
      BY <2>2 DEF slot_feed
    <3> HIDE DEF a, b
    <3>5. feed \in Seq(Datagrams) /\ Len(feed) = 2 * D
      <4>1. \A x, y \in Seq(Datagrams) :
               x \o y \in Seq(Datagrams) /\ Len(x \o y) = Len(x) + Len(y)
        OBVIOUS
      <4>2. D + D = 2 * D
        BY Numbers
      <4> QED BY <3>2, <3>3, <3>4, <4>1, <4>2
    <3>6. ASSUME NEW j \in 1 .. 2 * D PROVE feed[j] = supplied(j)
      <4>1. CASE j <= D
        <5>1. feed[j] = a[j] /\ j \in 1 .. D
          BY <3>2, <3>3, <3>4, <4>1, Numbers
        <5> QED BY <3>1, <3>2, <4>1, <5>1 DEF supplied
      <4>2. CASE ~(j <= D)
        <5>1. feed[j] = b[j - D] /\ j - D \in 1 .. D
          BY <3>2, <3>3, <3>4, <4>2, Numbers
        <5> QED BY <3>1, <3>3, <4>2, <5>1 DEF supplied
      <4> QED BY <4>1, <4>2
    <3> QED BY <3>1, <3>5, <3>6
  <2> QED BY <2>1, <2>2 DEF DemoInit
<1>7. Progress(0)
  <2>1. Len(feed) = total - 0 /\ \A j \in 1 .. Len(feed) : feed[j] = supplied(0 + j)
    BY <1>6
  <2>2. SetHolds(set_a, 0) /\ SetHolds(set_b, part_b(0))
    BY <1>3, <1>4
  <2>3. ~(0 > D)
    BY Numbers
  <2> QED BY <1>5, <2>1, <2>2, <2>3 DEF Progress
<1>8. \E k \in 0 .. total : Progress(k)
  BY <1>6, <1>7
<1>9. \A key \in FecKey \ {key_for(set_a), key_for(set_b)} : states[key] = NewFecState
  BY <1>2
<1>10. Seen
  BY <1>5 DEF Seen, DemoInit
<1> QED BY <1>1, <1>6, <1>8, <1>9, <1>10 DEF DInv

\* The flags of the slot after a shred of it.
LEMMA FlagsAfter ==
    ASSUME IInv, NEW d \in Datagrams, d.slot = slot, NEW st2, NEW sn, Effect(d, st2, sn)
    PROVE  /\ slots[slot].last_shred_seen \/ is_last_in_slot(d) => slots'[slot].last_shred_seen
           /\ ~slots[slot].last_shred_seen /\ ~is_last_in_slot(d) /\ ~slots[slot].finalized
                 => ~slots'[slot].last_shred_seen /\ ~slots'[slot].finalized
<1>1. slots[slot] \in SlotState
  BY SetsAssumption DEF IInv, TypeOK
<1>2. sn = updated(d, slots[slot], st2)
  BY DEF Effect
<1>3. /\ is_last_in_slot(d) => sn.last_shred_seen
      /\ ~is_last_in_slot(d) => (sn.last_shred_seen <=> slots[slot].last_shred_seen)
  BY <1>1, <1>2, UpdatedMarks
<1>4. /\ slots'[slot].last_shred_seen <=> sn.last_shred_seen
      /\ slots'[slot].finalized => sn.last_shred_seen \/ slots[slot].finalized
  BY SlotAfter
<1> QED BY <1>3, <1>4

LEMMA FeedDInv ==
    ASSUME DInv, Feed
    PROVE  DInv'
<1> DEFINE D == DATA_SHREDS_PER_FEC
           d == Head(feed)
<1>1. PICK k \in 0 .. total : Progress(k)
  BY DEF DInv
<1>2. total \in Nat /\ k \in Nat
  BY Numbers DEF DInv, total
<1>3. /\ feed \in Seq(Datagrams)
      /\ feed # <<>>
      /\ ingest(d, Leader[slot])
      /\ feed' = Tail(feed)
      /\ command' = command
  BY DEF DInv, Feed
<1>4. Len(feed) > 0 /\ Len(feed) \in Nat /\ d = feed[1]
  BY <1>3
<1>5. k < total /\ d = supplied(k + 1)
  <2>1. Len(feed) = total - k /\ feed[1] = supplied(k + 1)
    BY <1>1, <1>4 DEF Progress
  <2> QED BY <1>2, <1>4, <2>1
<1>6. /\ feed' \in Seq(Datagrams)
      /\ Len(feed') = total - (k + 1)
      /\ \A j \in 1 .. Len(feed') : feed'[j] = supplied((k + 1) + j)
  <2>1. feed' \in Seq(Datagrams) /\ Len(feed') = Len(feed) - 1
    BY <1>3, <1>4
  <2>2. \A j \in 1 .. Len(feed') : feed'[j] = feed[j + 1]
    BY <1>3, <1>4
  <2>3. \A j \in 1 .. Len(feed') : feed[j + 1] = supplied(k + (j + 1))
    BY <1>1, <1>4, <2>1 DEF Progress
  <2>4. \A j \in 1 .. Len(feed') : k + (j + 1) = (k + 1) + j
    BY <1>2, <2>1
  <2>5. Len(feed') = total - (k + 1)
    BY <1>1, <1>2, <1>4, <2>1 DEF Progress
  <2> QED BY <2>1, <2>2, <2>3, <2>4, <2>5
<1>7. /\ IsDas' <=> IsDas
      /\ total' = total
      /\ command'[2] = command[2]
      /\ \A n : supplied(n)' = supplied(n)
      /\ \A n : part_b(n)' = part_b(n)
  BY <1>3 DEF IsDas, total, supplied, part_b
<1>8. IInv /\ (IsDas => command[2] \in 0 .. SHREDS_PER_FEC)
  BY DEF DInv
<1>9. set_a.fec_set_index = 0 /\ ~set_a.last /\ set_b.fec_set_index = D /\ set_b.last /\ slot \in Slots
  BY SetsAssumption
<1>10. key_for(set_a) # key_for(set_b) /\ key_for(set_a) \in FecKey /\ key_for(set_b) \in FecKey
  BY <1>9, KeyFor, Numbers
\* Which shred of which set it is, and what follows whichever it is.
<1>11. ASSUME NEW p \in {set_a, set_b}, NEW m \in ShardIndices, SetHolds(p, m),
              d = build_fec_set(p)[m + 1]
       PROVE  /\ IInv'
              /\ SetHolds(p, m + 1)'
              /\ \A key \in FecKey \ {key_for(p)} : states'[key] = states[key]
              /\ \A key \in FecKey : states[key].reconstructed => states'[key] = states[key]
              /\ slots[slot].last_shred_seen \/ (m < D /\ p.last) => slots'[slot].last_shred_seen
              /\ ~slots[slot].last_shred_seen /\ ~(m < D /\ p.last) /\ ~slots[slot].finalized
                    => ~slots'[slot].last_shred_seen /\ ~slots'[slot].finalized
              /\ finalized_seen' = Len(finalizations'[slot])
              /\ rejected' = 0
              /\ reconstructed' \in BOOLEAN
              /\ reconstructed' <=> reconstructed \/
                    (~states[key_for(p)].reconstructed /\ states'[key_for(p)].reconstructed)
  <2>1. /\ d \in Datagrams /\ d.slot = slot
        /\ is_last_in_slot(d) <=> m < D /\ p.last
        /\ \E st2, sn : Effect(d, st2, sn)
        /\ SetHolds(p, m + 1)'
        /\ \A key \in FecKey \ {key_for(p)} : states'[key] = states[key]
        /\ count(events', "Rejected") = 0
        /\ count(events', "Reconstructed") > 0 <=>
              ~states[key_for(p)].reconstructed /\ states'[key_for(p)].reconstructed
        /\ count(events', "SlotFinalized") = Len(finalizations'[slot]) - Len(finalizations[slot])
    BY <1>3, <1>8, <1>11, NextShred
  <2> HIDE DEF d
  <2>2. PICK st2, sn : Effect(d, st2, sn)
    BY <2>1
  <2>3. IInv'
    BY <1>8, <2>1, <2>2, EffectPreserves
  <2>4. /\ slots[slot].last_shred_seen \/ is_last_in_slot(d) => slots'[slot].last_shred_seen
        /\ ~slots[slot].last_shred_seen /\ ~is_last_in_slot(d) /\ ~slots[slot].finalized
              => ~slots'[slot].last_shred_seen /\ ~slots'[slot].finalized
    BY <1>8, <2>1, <2>2, FlagsAfter
  <2>5. /\ finalized_seen = Len(finalizations[slot])
        /\ rejected = 0
        /\ reconstructed \in BOOLEAN
    BY DEF DInv, Seen
  <2>6. finalizations[slot] \in Seq(FecRoots) /\ finalizations'[slot] \in Seq(FecRoots)
    BY <1>8, <1>9, <2>3 DEF IInv, TypeOK
  <2>7. finalized_seen' = Len(finalizations'[slot])
    <3>1. finalized_seen' = finalized_seen + count(events', "SlotFinalized")
      BY DEF Feed
    <3>2. Len(finalizations[slot]) \in Nat /\ Len(finalizations'[slot]) \in Nat
      BY <2>6
    <3>3. \A x, y \in Nat : x + (y - x) = y
      OBVIOUS
    <3>4. finalized_seen' = Len(finalizations[slot])
                               + (Len(finalizations'[slot]) - Len(finalizations[slot]))
      BY <2>1, <2>5, <3>1, Zenon
    <3> QED BY <3>2, <3>3, <3>4, Zenon
  <2>8. rejected' = 0
    <3>1. rejected' = rejected + count(events', "Rejected")
      BY DEF Feed
    <3> QED BY <2>1, <2>5, <3>1
  <2>9. reconstructed' = (reconstructed \/ count(events', "Reconstructed") > 0)
    BY DEF Feed
  <2>10. \A key \in FecKey : states[key].reconstructed => states'[key] = states[key]
    BY <1>8, <2>1, <2>2, EffectFacts
  <2> QED BY <2>1, <2>3, <2>4, <2>7, <2>8, <2>9, <2>10
<1>12. CASE IsDas \/ k < D
  <2>1. k \in ShardIndices /\ d = build_fec_set(set_a)[k + 1]
    BY <1>2, <1>5, <1>8, <1>12, Numbers DEF supplied, total
  <2>2. part_b(k + 1) = part_b(k)
    BY <1>2, <1>12, Numbers DEF part_b
  <2>3. SetHolds(set_a, k) /\ SetHolds(set_b, part_b(k))
    BY <1>1 DEF Progress
  <2>4. /\ IInv'
        /\ SetHolds(set_a, k + 1)'
        /\ \A key \in FecKey \ {key_for(set_a)} : states'[key] = states[key]
        /\ \A key \in FecKey : states[key].reconstructed => states'[key] = states[key]
        /\ slots[slot].last_shred_seen => slots'[slot].last_shred_seen
        /\ ~slots[slot].last_shred_seen /\ ~slots[slot].finalized
              => ~slots'[slot].last_shred_seen /\ ~slots'[slot].finalized
        /\ finalized_seen' = Len(finalizations'[slot])
        /\ rejected' = 0
        /\ reconstructed' \in BOOLEAN
        /\ reconstructed' <=> reconstructed \/
              (~states[key_for(set_a)].reconstructed /\ states'[key_for(set_a)].reconstructed)
    BY <1>9, <1>11, <2>1, <2>3
  <2>5. SetHolds(set_b, part_b(k))'
    <3>1. states'[key_for(set_b)] = states[key_for(set_b)]
      BY <1>10, <2>4
    <3> QED BY <1>7, <2>3, <3>1 DEF SetHolds, key_for, upto
  <2>6. Progress(k + 1)'
    <3>1. IF IsDas THEN ~slots'[slot].last_shred_seen /\ ~slots'[slot].finalized
                   ELSE k + 1 > D => slots'[slot].last_shred_seen
      BY <1>1, <1>2, <1>12, <2>4, Numbers DEF Progress
    <3>2. SetHolds(set_b, part_b(k + 1))'
      BY <1>7, <2>2, <2>5
    <3> QED BY <1>6, <1>7, <2>4, <3>1, <3>2 DEF Progress
  <2>7. Seen'
    <3>1. states[key_for(set_a)].reconstructed => states'[key_for(set_a)].reconstructed
      BY <1>10, <2>4
    <3>2. IsDas => (reconstructed' <=> states'[key_for(set_a)].reconstructed)
      BY <2>4, <3>1 DEF DInv, Seen
    <3> QED BY <1>7, <2>4, <3>2 DEF Seen, key_for
  <2>8. \A key \in FecKey \ {key_for(set_a), key_for(set_b)} : states'[key] = NewFecState
    BY <2>4 DEF DInv
  <2> QED BY <1>2, <1>5, <1>6, <1>7, <1>8, <2>4, <2>6, <2>7, <2>8 DEF DInv, key_for
<1>13. CASE ~(IsDas \/ k < D)
  <2> DEFINE m == k - D
  <2>1. total = 2 * D /\ m \in ShardIndices /\ m < D /\ m \in Nat /\ k + 1 > D
    BY <1>2, <1>5, <1>13, Numbers DEF total
  <2>2. d = build_fec_set(set_b)[m + 1] /\ part_b(k) = m /\ part_b(k + 1) = m + 1
    BY <1>2, <1>5, <1>13, Numbers DEF supplied, part_b
  <2>3. SetHolds(set_a, k) /\ SetHolds(set_b, m)
    BY <1>1, <2>2 DEF Progress
  <2> HIDE DEF m
  <2>4. /\ IInv'
        /\ SetHolds(set_b, m + 1)'
        /\ \A key \in FecKey \ {key_for(set_b)} : states'[key] = states[key]
        /\ slots'[slot].last_shred_seen
        /\ finalized_seen' = Len(finalizations'[slot])
        /\ rejected' = 0
        /\ reconstructed' \in BOOLEAN
    BY <1>9, <1>11, <2>1, <2>2, <2>3
  <2>5. SetHolds(set_a, k + 1)'
    <3>1. states'[key_for(set_a)] = states[key_for(set_a)]
      BY <1>10, <2>4
    <3>2. upto(k + 1) = upto(k)
      BY <1>2, <1>13, Numbers DEF upto
    <3> QED BY <2>3, <3>1, <3>2 DEF SetHolds, key_for, upto
  <2>6. Progress(k + 1)'
    <3>1. SetHolds(set_b, part_b(k + 1))'
      BY <1>7, <2>2, <2>4
    <3> QED BY <1>6, <1>7, <1>13, <2>4, <2>5, <3>1 DEF Progress
  <2>7. Seen'
    BY <1>7, <1>13, <2>4 DEF Seen
  <2>8. \A key \in FecKey \ {key_for(set_a), key_for(set_b)} : states'[key] = NewFecState
    BY <2>4 DEF DInv
  <2> QED BY <1>2, <1>5, <1>6, <1>7, <1>8, <2>4, <2>6, <2>7, <2>8 DEF DInv, key_for
<1> QED BY <1>12, <1>13

LEMMA NextDInv == DInv /\ [Feed]_<<vars, dvars>> => DInv'
<1> SUFFICES ASSUME DInv, [Feed]_<<vars, dvars>> PROVE DInv'
  OBVIOUS
<1>1. CASE Feed
  BY <1>1, FeedDInv
<1>2. CASE UNCHANGED <<vars, dvars>>
  <2>1. IInv'
    BY <1>2, InertPreserves DEF DInv, vars, Inert
  <2> QED BY <1>2, <2>1 DEF vars, dvars, DInv, IsDas, total, supplied, part_b, Progress, Seen,
        SetHolds, key_for, upto
<1> QED BY <1>1, <1>2

(***************************************************************************)
(* What build_fec_set makes the assembler takes, for every size of a set:  *)
(* das-demo recovers the block exactly from the threshold on, and          *)
(* slot-demo sees its slot finalized once.                                 *)
(***************************************************************************)
THEOREM Verdicts == DemoSpec => []DemoVerdicts
BY InitDInv, NextDInv, DInvVerdicts, PTL DEF DemoSpec

=============================================================================

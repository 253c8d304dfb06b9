--------------------------- MODULE ListenerProofs ---------------------------
(***************************************************************************)
(* The event stream between the UDP task and its consumer, for every       *)
(* capacity of the channel, every interleaving of the two and every        *)
(* assembler FecAssemblerProofs is about.                                  *)
(***************************************************************************)
EXTENDS Listener, FecAssemblerProofs

-----------------------------------------------------------------------------
(***************************************************************************)
(* Sequences of events.  An event is whatever ingest builds, so a sequence *)
(* is one over some set.                                                   *)
(***************************************************************************)
IsSeq(q) == \E S : q \in Seq(S)

\* Two sequences are sequences over the same set.
LEMMA OneSet ==
    ASSUME NEW p, NEW q, IsSeq(p), IsSeq(q)
    PROVE  \E S : p \in Seq(S) /\ q \in Seq(S)
<1>1. PICK S : p \in Seq(S)
  BY DEF IsSeq
<1>2. PICK T : q \in Seq(T)
  BY DEF IsSeq
<1>3. p \in Seq(S \cup T)
  BY <1>1
<1>4. q \in Seq(S \cup T)
  BY <1>2
<1> QED BY <1>3, <1>4

LEMMA NoElements == IsSeq(<<>>)
<1>1. \A q : q \in Seq(Nat) => IsSeq(q)
  BY DEF IsSeq
<1>2. <<>> \in Seq(Nat)
  OBVIOUS
<1> HIDE DEF IsSeq
<1> QED BY <1>1, <1>2

LEMMA AppendSeq ==
    ASSUME NEW q, IsSeq(q), NEW e
    PROVE  /\ IsSeq(Append(q, e))
           /\ Append(q, e) # <<>>
           /\ Len(q) \in Nat /\ Len(Append(q, e)) = Len(q) + 1
           /\ Append(q, e)[Len(q) + 1] = e
           /\ \A m \in 1 .. Len(q) : Append(q, e)[m] = q[m]
<1>1. PICK S : q \in Seq(S)
  BY DEF IsSeq
<1>2. q \in Seq(S \cup {e})
  BY <1>1
<1>3. Append(q, e) \in Seq(S \cup {e})
  BY <1>2
<1> QED BY <1>2, <1>3 DEF IsSeq

LEMMA TailSeq ==
    ASSUME NEW q, IsSeq(q), q # <<>>
    PROVE  /\ IsSeq(Tail(q))
           /\ Len(q) \in Nat \ {0} /\ Len(Tail(q)) = Len(q) - 1
           /\ Head(q) = q[1]
           /\ \A m \in 1 .. Len(q) - 1 : Tail(q)[m] = q[m + 1]
<1>1. PICK S : q \in Seq(S)
  BY DEF IsSeq
<1>2. Tail(q) \in Seq(S)
  BY <1>1
<1> QED BY <1>1, <1>2 DEF IsSeq

LEMMA ConcatSeq ==
    ASSUME NEW p, NEW q, IsSeq(p), IsSeq(q)
    PROVE  IsSeq(p \o q) /\ (p = <<>> => p \o q = q) /\ (q = <<>> => p \o q = p)
<1>1. PICK S : p \in Seq(S) /\ q \in Seq(S)
  BY OneSet
<1>2. p \o q \in Seq(S)
  BY <1>1
<1> QED BY <1>1, <1>2 DEF IsSeq

LEMMA ConcatAppend ==
    ASSUME NEW p, NEW q, IsSeq(p), IsSeq(q), NEW e
    PROVE  p \o Append(q, e) = Append(p \o q, e)
<1>1. PICK S : p \in Seq(S) /\ q \in Seq(S)
  BY OneSet
<1>2. p \in Seq(S \cup {e}) /\ q \in Seq(S \cup {e})
  BY <1>1
<1> QED BY <1>2

\* What send does to the two sequences, and what the consumer does.
LEMMA MoveOne ==
    ASSUME NEW p, NEW q, IsSeq(p), IsSeq(q), q # <<>>
    PROVE  Append(p, Head(q)) \o Tail(q) = p \o q
<1>1. PICK S : p \in Seq(S) /\ q \in Seq(S)
  BY OneSet
<1> QED BY <1>1

LEMMA TakeOne ==
    ASSUME NEW p, NEW q, IsSeq(p), IsSeq(q), p # <<>>
    PROVE  /\ p \o q # <<>>
           /\ Head(p \o q) = Head(p)
           /\ Tail(p \o q) = Tail(p) \o q
<1>1. PICK S : p \in Seq(S) /\ q \in Seq(S)
  BY OneSet
<1> QED BY <1>1

-----------------------------------------------------------------------------
(***************************************************************************)
(* Delivery.  Consistent is what PrefixConsistent says of the view; a      *)
(* sequence q leads a consumer that knows v to w if learning its events    *)
(* one by one does, over consistent views only.                            *)
(***************************************************************************)
Consistent(v) ==
    /\ \A k \in v.done : v.root[k] # NoRoot /\ v.present[k] = DATA_SHREDS_PER_FEC
    /\ \A s \in DOMAIN v.finalized : \A i \in DOMAIN v.finalized[s] :
          /\ <<s, i>> \in v.done
          /\ v.root[<<s, i>>] = v.finalized[s][i]

Path(F, v, q, w) ==
    /\ F[0] = v
    /\ F[Len(q)] = w
    /\ \A m \in 1 .. Len(q) : F[m] = learn(F[m - 1], q[m])
    /\ \A m \in 0 .. Len(q) : Consistent(F[m])

Delivers(v, q, w) == \E F : Path(F, v, q, w)

LEMMA DeliversNothing ==
    ASSUME NEW v, Consistent(v)
    PROVE  Delivers(v, <<>>, v)
<1> DEFINE F == [m \in 0 .. 0 |-> v]
<1>1. F[0] = v /\ Len(<<>>) = 0
  OBVIOUS
<1> HIDE DEF F
<1>2. Path(F, v, <<>>, v)
  <2>1. \A m \in 0 .. Len(<<>>) : Consistent(F[m])
    <3>1. \A m \in 0 .. Len(<<>>) : m = 0
      BY <1>1
    <3> QED BY <1>1, <3>1
  <2>2. \A m \in 1 .. Len(<<>>) : F[m] = learn(F[m - 1], <<>>[m])
    <3>1. \A m \in 1 .. Len(<<>>) : FALSE
      BY <1>1
    <3> QED BY <3>1
  <2> QED BY <1>1, <2>1, <2>2 DEF Path
<1> QED BY <1>2 DEF Delivers

LEMMA DeliversOneMore ==
    ASSUME NEW v, NEW q, NEW w, IsSeq(q), Delivers(v, q, w),
           NEW e, NEW x, learn(w, e) = x, Consistent(x)
    PROVE  Delivers(v, Append(q, e), x)
<1>1. PICK F : Path(F, v, q, w)
  BY DEF Delivers
<1> DEFINE n == Len(q)
           r == Append(q, e)
           G == [m \in 0 .. n + 1 |-> IF m = n + 1 THEN x ELSE F[m]]
<1>2. n \in Nat /\ Len(r) = n + 1 /\ r[n + 1] = e /\ \A m \in 1 .. n : r[m] = q[m]
  BY AppendSeq
<1>3. G[n + 1] = x /\ \A m \in 0 .. n : G[m] = F[m]
  BY <1>2
<1>4. /\ F[0] = v /\ F[n] = w
      /\ \A m \in 1 .. n : F[m] = learn(F[m - 1], q[m])
      /\ \A m \in 0 .. n : Consistent(F[m])
  BY <1>1 DEF Path
<1> HIDE DEF n, r, G
<1>5. G[0] = v /\ G[n] = w
  BY <1>2, <1>3, <1>4
<1>6. ASSUME NEW m \in 1 .. n + 1
      PROVE  G[m] = learn(G[m - 1], r[m])
  <2>1. CASE m = n + 1
    <3>1. m - 1 = n
      BY <1>2, <2>1
    <3> QED BY <1>2, <1>3, <1>5, <2>1, <3>1
  <2>2. CASE m # n + 1
    <3>1. m \in 1 .. n /\ m \in 0 .. n /\ m - 1 \in 0 .. n
      BY <1>2, <2>2
    <3> QED BY <1>2, <1>3, <1>4, <3>1
  <2> QED BY <2>1, <2>2
<1>7. ASSUME NEW m \in 0 .. n + 1
      PROVE  Consistent(G[m])
  <2>1. m = n + 1 \/ m \in 0 .. n
    BY <1>2
  <2> QED BY <1>3, <1>4, <2>1
<1>8. Path(G, v, r, x)
  BY <1>2, <1>3, <1>5, <1>6, <1>7 DEF Path
<1> QED BY <1>8 DEF Delivers, r

LEMMA DeliversTheRest ==
    ASSUME NEW v, NEW q, NEW w, IsSeq(q), q # <<>>, Delivers(v, q, w)
    PROVE  Consistent(learn(v, Head(q))) /\ Delivers(learn(v, Head(q)), Tail(q), w)
<1>1. PICK F : Path(F, v, q, w)
  BY DEF Delivers
<1> DEFINE n == Len(q)
           r == Tail(q)
           x == learn(v, Head(q))
           G == [m \in 0 .. n - 1 |-> F[m + 1]]
<1>2. /\ n \in Nat \ {0} /\ Len(r) = n - 1 /\ Head(q) = q[1]
      /\ \A m \in 1 .. n - 1 : r[m] = q[m + 1]
  BY TailSeq
<1>3. /\ F[0] = v /\ F[n] = w
      /\ \A m \in 1 .. n : F[m] = learn(F[m - 1], q[m])
      /\ \A m \in 0 .. n : Consistent(F[m])
  BY <1>1 DEF Path
<1>4. \A m \in 0 .. n - 1 : G[m] = F[m + 1]
  BY <1>2
<1> HIDE DEF n, r, G
<1>5. F[1] = x /\ Consistent(x)
  <2>1. 1 \in 1 .. n /\ 1 \in 0 .. n /\ 1 - 1 = 0
    BY <1>2
  <2>2. F[1] = learn(F[1 - 1], q[1])
    BY <1>3, <2>1
  <2> QED BY <1>2, <1>3, <2>1, <2>2
<1> HIDE DEF x
<1>6. G[0] = x /\ G[n - 1] = w
  <2>1. 0 \in 0 .. n - 1 /\ n - 1 \in 0 .. n - 1 /\ 0 + 1 = 1 /\ (n - 1) + 1 = n
    BY <1>2
  <2> QED BY <1>3, <1>4, <1>5, <2>1
<1>7. ASSUME NEW m \in 1 .. n - 1
      PROVE  G[m] = learn(G[m - 1], r[m])
  <2>1. /\ m \in 0 .. n - 1 /\ m - 1 \in 0 .. n - 1 /\ m + 1 \in 1 .. n
        /\ (m - 1) + 1 = m /\ (m + 1) - 1 = m
    BY <1>2
  <2>2. F[m + 1] = learn(F[(m + 1) - 1], q[m + 1])
    BY <1>3, <2>1
  <2>3. G[m] = F[m + 1] /\ G[m - 1] = F[(m - 1) + 1]
    BY <1>4, <2>1
  <2> QED BY <1>2, <2>1, <2>2, <2>3
<1>8. ASSUME NEW m \in 0 .. n - 1
      PROVE  Consistent(G[m])
  <2>1. m + 1 \in 0 .. n
    BY <1>2
  <2> QED BY <1>3, <1>4, <2>1
<1>9. Path(G, x, r, w)
  BY <1>2, <1>6, <1>7, <1>8 DEF Path
<1> QED BY <1>5, <1>9 DEF Delivers, r, x

-----------------------------------------------------------------------------
(***************************************************************************)
(* What FoldLeft computes.  The fold of the community modules is a CHOOSE  *)
(* of a function on the sets of positions; it exists, by induction on the  *)
(* number of positions.                                                    *)
(***************************************************************************)
body(g, v, q, n) ==
    [s \in SUBSET (1 .. n) |->
        IF s = {} THEN v ELSE learn(g[s \ {Max(s)}], q[Max(s)])]

LEMMA MaxIs ==
    ASSUME NEW n \in Nat, NEW s \in SUBSET (1 .. n), n \in s
    PROVE  Max(s) = n
<1>1. \A y \in s : n >= y
  OBVIOUS
<1>2. \A x \in s : (\A y \in s : x >= y) => x = n
  OBVIOUS
<1> QED BY <1>1, <1>2 DEF Max

\* The function the fold asks for exists.
LEMMA FoldExists ==
    ASSUME NEW v, NEW q, NEW n \in Nat
    PROVE  \E g : g = body(g, v, q, n)
<1> DEFINE Bad == {m \in Nat : ~ \E g : g = body(g, v, q, m)}
<1> SUFFICES ASSUME Bad # {} PROVE FALSE
  OBVIOUS
<1>1. PICK m \in Bad : \A y \in Bad : m <= y
  <2>1. Bad \in SUBSET Nat
    OBVIOUS
  <2> HIDE DEF Bad
  <2> QED BY <2>1, Least
<1>2. m \in Nat /\ ~ \E g : g = body(g, v, q, m)
  OBVIOUS
<1>3. CASE m = 0
  <2> DEFINE g == [s \in SUBSET (1 .. 0) |-> v]
  <2>1. \A s \in SUBSET (1 .. 0) : s = {}
    <3>1. 1 .. 0 = {}
      OBVIOUS
    <3> QED BY <3>1
  <2>2. g = body(g, v, q, 0)
    BY <2>1 DEF body
  <2> QED BY <1>2, <1>3, <2>2
<1>4. CASE m # 0
  <2>1. m - 1 \in Nat /\ m - 1 \notin Bad
    <3>1. m - 1 \in Nat /\ ~ (m <= m - 1)
      BY <1>2, <1>4
    <3> HIDE DEF Bad
    <3> QED BY <1>1, <3>1
  <2>2. PICK g : g = body(g, v, q, m - 1)
    BY <2>1
  <2> DEFINE h == [s \in SUBSET (1 .. m) |->
                      IF m \in s THEN learn(g[s \ {m}], q[m]) ELSE g[s]]
  <2>3. \A s \in SUBSET (1 .. m) : m \notin s => s \in SUBSET (1 .. m - 1)
    BY <1>2
  <2>4. \A s \in SUBSET (1 .. m - 1) :
           /\ s \in SUBSET (1 .. m) /\ m \notin s
           /\ g[s] = IF s = {} THEN v ELSE learn(g[s \ {Max(s)}], q[Max(s)])
           /\ h[s] = g[s]
    <3>1. \A s \in SUBSET (1 .. m - 1) : s \in SUBSET (1 .. m) /\ m \notin s
      BY <1>2
    <3>2. \A s \in SUBSET (1 .. m - 1) :
             g[s] = IF s = {} THEN v ELSE learn(g[s \ {Max(s)}], q[Max(s)])
      BY <2>2 DEF body
    <3> QED BY <3>1, <3>2
  <2>5. \A s \in SUBSET (1 .. m) : m \in s => h[s] = learn(g[s \ {m}], q[m])
    OBVIOUS
  <2>6. h = [s \in SUBSET (1 .. m) |-> h[s]]
    OBVIOUS
  <2> HIDE DEF h
  <2>7. ASSUME NEW s \in SUBSET (1 .. m)
        PROVE  h[s] = IF s = {} THEN v ELSE learn(h[s \ {Max(s)}], q[Max(s)])
    <3>1. CASE m \in s
      <4>1. Max(s) = m
        BY <1>2, <3>1, MaxIs
      <4>2. s \ {m} \in SUBSET (1 .. m) /\ m \notin s \ {m}
        OBVIOUS
      <4>3. h[s \ {m}] = g[s \ {m}]
        BY <2>3, <2>4, <4>2
      <4> QED BY <2>5, <3>1, <4>1, <4>3
    <3>2. CASE m \notin s
      <4>1. s \in SUBSET (1 .. m - 1)
        BY <2>3, <3>2
      <4>2. s \ {Max(s)} \in SUBSET (1 .. m - 1)
        BY <4>1
      <4>3. h[s] = g[s] /\ h[s \ {Max(s)}] = g[s \ {Max(s)}]
        BY <2>4, <4>1, <4>2
      <4> QED BY <2>4, <4>1, <4>3
    <3> QED BY <3>1, <3>2
  <2>8. h = body(h, v, q, m)
    BY <2>6, <2>7 DEF body
  <2> QED BY <1>2, <2>8
<1> QED BY <1>3, <1>4

\* A consumer that works off q from v ends where the fold does.
LEMMA DeliversFold ==
    ASSUME NEW v, NEW q, NEW w, IsSeq(q), Delivers(v, q, w)
    PROVE  FoldLeft(learn, v, q) = w
<1>1. PICK F : Path(F, v, q, w)
  BY DEF Delivers
<1>2. Len(q) \in Nat /\ DOMAIN q = 1 .. Len(q)
  BY DEF IsSeq
<1> DEFINE n == Len(q)
           f == CHOOSE g : g = body(g, v, q, n)
<1>3. FoldLeft(learn, v, q) = f[1 .. n]
  BY <1>2 DEF FoldLeft, MapThenFoldSet, body
<1>4. f = body(f, v, q, n)
  BY <1>2, FoldExists
<1> HIDE DEF n, f
<1>5. \A s \in SUBSET (1 .. n) :
         f[s] = IF s = {} THEN v ELSE learn(f[s \ {Max(s)}], q[Max(s)])
  BY <1>4 DEF body
<1> DEFINE Bad == {m \in Nat : m <= n /\ f[1 .. m] # F[m]}
<1>6. Bad = {}
  <2> SUFFICES ASSUME Bad # {} PROVE FALSE
    OBVIOUS
  <2>1. PICK m \in Bad : \A y \in Bad : m <= y
    <3>1. Bad \in SUBSET Nat
      OBVIOUS
    <3> HIDE DEF Bad
    <3> QED BY <3>1, Least
  <2>2. m \in Nat /\ m <= n /\ f[1 .. m] # F[m] /\ n \in Nat
    BY <1>2 DEF n
  <2>3. CASE m = 0
    <3>1. 1 .. 0 = {} /\ {} \in SUBSET (1 .. n)
      OBVIOUS
    <3>2. f[{}] = v
      BY <1>5, <3>1
    <3> QED BY <1>1, <2>2, <2>3, <3>1, <3>2 DEF Path
  <2>4. CASE m # 0
    <3>1. m - 1 \in Nat /\ m - 1 <= n /\ ~ (m <= m - 1)
      BY <2>2, <2>4
    <3>2. f[1 .. m - 1] = F[m - 1]
      <4>1. m - 1 \notin Bad
        <5> HIDE DEF Bad
        <5> QED BY <2>1, <3>1
      <4> QED BY <3>1, <4>1
    <3>3. 1 .. m \in SUBSET (1 .. n) /\ m \in 1 .. m /\ (1 .. m) \ {m} = 1 .. m - 1
      BY <2>2, <2>4
    <3>4. Max(1 .. m) = m
      BY <2>2, <3>3, MaxIs
    <3>5. f[1 .. m] = learn(f[1 .. m - 1], q[m])
      BY <1>5, <3>3, <3>4
    <3>6. F[m] = learn(F[m - 1], q[m])
      BY <1>1, <2>2, <2>4 DEF Path, n
    <3> QED BY <2>2, <3>2, <3>5, <3>6
  <2> QED BY <2>3, <2>4
<1>7. n \in Nat /\ n \notin Bad
  BY <1>2, <1>6 DEF n
<1>8. f[1 .. n] = F[n]
  BY <1>7
<1> QED BY <1>1, <1>3, <1>8 DEF Path, n

-----------------------------------------------------------------------------
(***************************************************************************)
(* What the events teach.                                                  *)
(***************************************************************************)
knows(r, p, dn, f) == [root |-> r, present |-> p, done |-> dn, finalized |-> f]

LEMMA LearnRejected ==
    ASSUME NEW v, NEW reason
    PROVE  learn(v, Rejected(reason)) = v
BY DEF learn, Rejected

put(g, k, x) == [g EXCEPT ![k] = x]

LEMMA LearnStarted ==
    ASSUME NEW r, NEW p, NEW dn, NEW f, NEW k, NEW x, NEW r2, r2 = put(r, k, x)
    PROVE  learn(knows(r, p, dn, f), Started(k, x)) = knows(r2, p, dn, f)
BY DEF learn, Started, knows, put

LEMMA LearnAccepted ==
    ASSUME NEW r, NEW p, NEW dn, NEW f, NEW k, NEW n, NEW i, NEW p2, p2 = put(p, k, n)
    PROVE  learn(knows(r, p, dn, f), ShredAccepted(k, n, i)) = knows(r, p2, dn, f)
BY DEF learn, ShredAccepted, knows, put

LEMMA LearnReconstructed ==
    ASSUME NEW r, NEW p, NEW dn, NEW f, NEW k, NEW x, NEW das, NEW dn2, dn2 = dn \cup {k}
    PROVE  learn(knows(r, p, dn, f), Reconstructed(k, x, das)) = knows(r, p, dn2, f)
BY DEF learn, Reconstructed, knows

LEMMA LearnFinalized ==
    ASSUME NEW r, NEW p, NEW dn, NEW f, NEW s, NEW ss, NEW st, NEW f2,
           f2 = inserted(f, s, finalization(s, ss, st).fec_roots)
    PROVE  learn(knows(r, p, dn, f), finalization(s, ss, st)) = knows(r, p, dn, f2)
BY DEF learn, finalization, SlotFinalized, knows

-----------------------------------------------------------------------------
(***************************************************************************)
(* One ingest, as the consumer will see it.                                *)
(***************************************************************************)
roots_now == [k \in FecKey |-> states[k].merkle_root]
counts_now == [k \in FecKey |-> states[k].distinct_seen]
done_now == {k \in FecKey : states[k].reconstructed}
finalized_now == [s \in {u \in Slots : slots[u].finalized} |-> finalizations[s][1]]

LEMMA AssemblerView == assembler_view = knows(roots_now, counts_now, done_now, finalized_now)
BY DEF assembler_view, knows, roots_now, counts_now, done_now, finalized_now

\* What the assembler promises of its own state is what a view must satisfy.
LEMMA AssemblerConsistent ==
    ASSUME IInv
    PROVE  /\ \A k \in done_now : roots_now[k] # NoRoot /\ counts_now[k] = DATA_SHREDS_PER_FEC
           /\ \A s \in DOMAIN finalized_now : \A i \in DOMAIN finalized_now[s] :
                 /\ <<s, i>> \in done_now
                 /\ roots_now[<<s, i>>] = finalized_now[s][i]
<1>1. \A k \in FecKey : SetInv(k, states[k])
  BY SetInvIsInvariant DEF IInv
<1>2. ASSUME NEW k \in done_now
      PROVE  roots_now[k] # NoRoot /\ counts_now[k] = DATA_SHREDS_PER_FEC
  <2>1. k \in FecKey /\ states[k].reconstructed /\ SetInv(k, states[k])
    BY <1>1 DEF done_now
  <2>2. states[k].merkle_root # NoRoot
    BY <2>1, StoredMeansRooted
  <2>3. states[k].distinct_seen = DATA_SHREDS_PER_FEC
    BY <2>1 DEF SetInv
  <2> QED BY <2>1, <2>2, <2>3 DEF roots_now, counts_now
<1>3. ASSUME NEW s \in DOMAIN finalized_now, NEW i \in DOMAIN finalized_now[s]
      PROVE  <<s, i>> \in done_now /\ roots_now[<<s, i>>] = finalized_now[s][i]
  <2>1. s \in Slots /\ slots[s].finalized /\ finalized_now[s] = finalizations[s][1]
    BY DEF finalized_now
  <2>2. finalizations[s] \in Seq(FecRoots) /\ Len(finalizations[s]) = 1
    BY <2>1 DEF IInv, TypeOK, FinalizedOnce
  <2>3. 1 \in DOMAIN finalizations[s] /\ finalizations[s][1] \in FecRoots
    BY <2>2
  <2>4. i \in FecSetIndices
    BY <2>1, <2>3 DEF FecRoots
  <2>5. states[<<s, i>>].reconstructed /\ states[<<s, i>>].merkle_root = finalizations[s][1][i]
    BY <2>1, <2>3 DEF IInv, FinalizationSound
  <2>6. <<s, i>> \in FecKey
    BY <2>1, <2>4 DEF FecKey
  <2> QED BY <2>1, <2>5, <2>6 DEF done_now, roots_now
<1> QED BY <1>2, <1>3

\* The views between two events of one ingest into a set that is not done.
LEMMA Stages ==
    ASSUME IInv, NEW d \in Datagrams, NEW st2, NEW sn, Effect(d, st2, sn),
           ~states[key_of(d)].reconstructed
    PROVE  /\ roots_now' = put(roots_now, key_of(d), st2.merkle_root)
           /\ counts_now' = put(counts_now, key_of(d), st2.distinct_seen)
           /\ done_now' = done_now \cup (IF st2.reconstructed THEN {key_of(d)} ELSE {})
           /\ Consistent(knows(roots_now', counts_now, done_now, finalized_now))
           /\ Consistent(knows(roots_now', counts_now', done_now, finalized_now))
           /\ Consistent(knows(roots_now', counts_now', done_now', finalized_now))
<1> DEFINE k == key_of(d)
<1>1. k \in FecKey
  BY DatagramFields
<1>2. /\ states'[k] = st2 /\ states \in [FecKey -> FecState]
      /\ \A j \in FecKey \ {k} : states'[j] = states[j]
  <2>1. states'[k] = st2 /\ \A j \in FecKey \ {k} : states'[j] = states[j]
    BY EffectFacts
  <2> QED BY <2>1 DEF IInv, TypeOK
<1>3. roots_now' = put(roots_now, k, st2.merkle_root)
  BY <1>1, <1>2 DEF roots_now, put
<1>4. counts_now' = put(counts_now, k, st2.distinct_seen)
  BY <1>1, <1>2 DEF counts_now, put
<1>5. k \notin done_now
  BY DEF done_now
<1>6. done_now' = done_now \cup (IF st2.reconstructed THEN {k} ELSE {})
  BY <1>1, <1>2, <1>5 DEF done_now
<1>7. \A j \in done_now : j \in FecKey /\ j # k
  BY <1>5 DEF done_now
<1>8. \A j \in done_now : roots_now'[j] = roots_now[j] /\ counts_now'[j] = counts_now[j]
  BY <1>1, <1>2, <1>7 DEF roots_now, counts_now
<1>9. /\ \A j \in done_now : roots_now[j] # NoRoot /\ counts_now[j] = DATA_SHREDS_PER_FEC
      /\ \A s \in DOMAIN finalized_now : \A i \in DOMAIN finalized_now[s] :
            <<s, i>> \in done_now /\ roots_now[<<s, i>>] = finalized_now[s][i]
  BY AssemblerConsistent
<1>10. \A j \in done_now' : roots_now'[j] # NoRoot /\ counts_now'[j] = DATA_SHREDS_PER_FEC
  <2>1. ASSUME NEW j \in done_now'
        PROVE  roots_now'[j] # NoRoot /\ counts_now'[j] = DATA_SHREDS_PER_FEC
    <3>1. CASE j \in done_now
      BY <1>8, <1>9, <3>1
    <3>2. CASE j = k /\ st2.reconstructed
      <4>1. SetInv(k, st2) /\ st2.merkle_root # NoRoot
        BY DEF Effect, SetEffect
      <4>2. st2.distinct_seen = DATA_SHREDS_PER_FEC
        BY <3>2, <4>1 DEF SetInv
      <4>3. roots_now'[k] = st2.merkle_root /\ counts_now'[k] = st2.distinct_seen
        BY <1>1, <1>2 DEF roots_now, counts_now
      <4> QED BY <3>2, <4>1, <4>2, <4>3
    <3> QED BY <1>6, <2>1, <3>1, <3>2
  <2> QED BY <2>1
<1> HIDE DEF k
<1>11. \A s \in DOMAIN finalized_now : \A i \in DOMAIN finalized_now[s] :
           /\ <<s, i>> \in done_now /\ <<s, i>> \in done_now'
           /\ roots_now'[<<s, i>>] = finalized_now[s][i]
  BY <1>6, <1>8, <1>9
<1>12. Consistent(knows(roots_now', counts_now, done_now, finalized_now))
  BY <1>8, <1>9, <1>11 DEF Consistent, knows
<1>13. Consistent(knows(roots_now', counts_now', done_now, finalized_now))
  BY <1>8, <1>9, <1>11 DEF Consistent, knows
<1>14. Consistent(knows(roots_now', counts_now', done_now', finalized_now))
  BY <1>10, <1>11 DEF Consistent, knows
<1> QED BY <1>3, <1>4, <1>6, <1>12, <1>13, <1>14 DEF k

\* What the consumer learns of the slot is what the assembler keeps of it.
LEMMA LastStage ==
    ASSUME IInv, NEW d \in Datagrams, NEW st2, NEW sn, Effect(d, st2, sn)
    PROVE  finalized_now' =
              IF may_finalize(sn)
              THEN inserted(finalized_now, d.slot, finalization(d.slot, sn, states').fec_roots)
              ELSE finalized_now
<1> DEFINE s == d.slot
           roots == finalization(s, sn, states').fec_roots
<1>1. /\ SlotInv(s, sn, states') /\ sn.finalized = slots[s].finalized
      /\ \A u \in Slots \ {s} : slots'[u] = slots[u] /\ finalizations'[u] = finalizations[u]
      /\ finalizations[s] \in Seq(FecRoots)
  BY EffectFacts
<1>2. /\ s \in Slots /\ sn \in SlotState
      /\ slots \in [Slots -> SlotState] /\ finalizations \in [Slots -> Seq(FecRoots)]
  BY <1>1, DatagramFields DEF IInv, TypeOK, SlotInv
<1> HIDE DEF s
<1>3. CASE ~may_finalize(sn)
  <2>1. slots' = [slots EXCEPT ![s] = sn] /\ finalizations' = finalizations
    BY <1>3 DEF Effect, s
  <2>2. slots'[s] = sn
    BY <1>2, <2>1
  <2>3. \A u \in Slots : slots'[u].finalized = slots[u].finalized
    BY <1>1, <2>2
  <2> QED BY <1>3, <2>1, <2>3 DEF finalized_now
<1>4. CASE may_finalize(sn)
  <2>1. /\ slots' = [slots EXCEPT ![s] = [sn EXCEPT !.finalized = TRUE]]
        /\ finalizations' = [finalizations EXCEPT ![s] = Append(@, roots)]
    BY <1>4 DEF Effect, s
  <2>2. ~slots[s].finalized
    BY <1>1, <1>4 DEF may_finalize
  <2>3. slots'[s].finalized
    BY <1>2, <2>1, FlagSet
  <2>4. Len(finalizations[s]) = 0
    BY <1>2, <2>2 DEF IInv, FinalizedOnce
  <2> HIDE DEF roots
  <2>5. finalizations'[s][1] = roots
    <3>1. finalizations'[s] = Append(finalizations[s], roots)
      BY <1>2, <2>1
    <3>2. finalizations[s] \in Seq(FecRoots \cup {roots})
      BY <1>1
    <3> QED BY <2>4, <3>1, <3>2
  <2>6. {u \in Slots : slots'[u].finalized} = {u \in Slots : slots[u].finalized} \cup {s}
    BY <1>1, <1>2, <2>3
  <2>7. \A u \in {x \in Slots : slots[x].finalized} : u # s /\ finalizations'[u] = finalizations[u]
    BY <1>1, <2>2
  <2> DEFINE g == inserted(finalized_now, s, roots)
  <2>8. DOMAIN g = {u \in Slots : slots'[u].finalized}
    BY <2>6 DEF inserted, finalized_now
  <2>9. \A u \in DOMAIN g : g[u] = finalizations'[u][1]
    BY <2>5, <2>7 DEF inserted, finalized_now
  <2>10. g = [u \in DOMAIN g |-> g[u]]
    BY DEF inserted
  <2> HIDE DEF g
  <2>11. finalized_now' = g
    BY <2>8, <2>9, <2>10 DEF finalized_now
  <2> QED BY <1>4, <2>11 DEF g, roots, s
<1> QED BY <1>3, <1>4

\* The fields of an entry that an event reports.
LEMMA EntryAfter ==
    ASSUME NEW st \in FecState, NEW d
    PROVE  /\ with_root(st, d).merkle_root = d.merkle_root
           /\ with_root(st, d).distinct_seen = st.distinct_seen
           /\ with_root(st, d).reconstructed = st.reconstructed
           /\ with_shard(st, d).merkle_root = d.merkle_root
           /\ with_shard(st, d).distinct_seen = st.distinct_seen + 1
           /\ with_shard(st, d).reconstructed = st.reconstructed
           /\ completed(st, d).merkle_root = d.merkle_root
           /\ completed(st, d).distinct_seen = st.distinct_seen + 1
           /\ completed(st, d).reconstructed = TRUE
BY DEF with_root, with_shard, completed, FecState

LEMMA OneEvent ==
    ASSUME NEW q, IsSeq(q), NEW e
    PROVE  IsSeq(<<e>>) /\ q \o <<e>> = Append(q, e)
<1>1. <<e>> = Append(<<>>, e)
  OBVIOUS
<1>2. IsSeq(<<>>) /\ q \o <<>> = q
  BY NoElements, ConcatSeq
<1>3. IsSeq(Append(<<>>, e))
  BY <1>2, AppendSeq
<1>4. q \o Append(<<>>, e) = Append(q \o <<>>, e)
  BY <1>2, ConcatAppend
<1> QED BY <1>1, <1>2, <1>3, <1>4

\* The consumer at the end of q hears of a captured root, if it is news.
LEMMA StartedStream ==
    ASSUME NEW v, NEW q, IsSeq(q), NEW st, NEW d,
           NEW r, NEW r2, NEW p, NEW dn, NEW f,
           Delivers(v, q, knows(r, p, dn, f)), Consistent(knows(r2, p, dn, f)),
           r2 = IF st.merkle_root = NoRoot THEN put(r, key_of(d), d.merkle_root) ELSE r
    PROVE  IsSeq(started(st, d)) /\ Delivers(v, q \o started(st, d), knows(r2, p, dn, f))
<1>1. CASE st.merkle_root = NoRoot
  <2>1. started(st, d) = <<Started(key_of(d), d.merkle_root)>>
    BY <1>1 DEF started
  <2>2. learn(knows(r, p, dn, f), Started(key_of(d), d.merkle_root)) = knows(r2, p, dn, f)
    BY <1>1, LearnStarted
  <2>3. Delivers(v, Append(q, Started(key_of(d), d.merkle_root)), knows(r2, p, dn, f))
    BY <2>2, DeliversOneMore
  <2> QED BY <2>1, <2>3, OneEvent
<1>2. CASE st.merkle_root # NoRoot
  <2>1. started(st, d) = <<>> /\ r2 = r
    BY <1>2 DEF started
  <2> QED BY <2>1, NoElements, ConcatSeq
<1> QED BY <1>1, <1>2

\* One more event of an ingest.
LEMMA StreamOneMore ==
    ASSUME NEW v, NEW q, NEW evs, IsSeq(q), IsSeq(evs), NEW w, Delivers(v, q \o evs, w),
           NEW e, NEW x, learn(w, e) = x, Consistent(x)
    PROVE  IsSeq(Append(evs, e)) /\ Delivers(v, q \o Append(evs, e), x)
<1>1. IsSeq(q \o evs)
  BY ConcatSeq
<1>2. Delivers(v, Append(q \o evs, e), x)
  BY <1>1, DeliversOneMore
<1>3. q \o Append(evs, e) = Append(q \o evs, e)
  BY ConcatAppend
<1>4. IsSeq(Append(evs, e))
  BY AppendSeq
<1> QED BY <1>2, <1>3, <1>4

\* The assembler's own state is a consistent view, before and after a step.
LEMMA ViewConsistent == IInv => Consistent(assembler_view)
BY AssemblerConsistent, AssemblerView DEF Consistent, knows

LEMMA ViewConsistentNext == IInv' => Consistent(assembler_view')
<1>1. (IInv => Consistent(assembler_view))'
  BY ViewConsistent, PTL
<1> QED BY <1>1 DEF Consistent

LEMMA AssemblerViewNext ==
    assembler_view' = knows(roots_now', counts_now', done_now', finalized_now')
BY DEF assembler_view, knows, roots_now, counts_now, done_now, finalized_now

(***************************************************************************)
(* The events of the set bring a consumer that knows the assembler's state *)
(* to all of the next state but for the finalization.                      *)
(***************************************************************************)
LEMMA SetStream ==
    ASSUME IInv, NEW d \in Datagrams, NEW st2, NEW sn, NEW evs, Effect(d, st2, sn),
           SetEvents(d, states[key_of(d)], st2, evs),
           NEW v, NEW q, IsSeq(q), Delivers(v, q, assembler_view)
    PROVE  /\ IsSeq(evs)
           /\ Delivers(v, q \o evs, knows(roots_now', counts_now', done_now', finalized_now))
<1> DEFINE k == key_of(d)
           st == states[k]
           w0 == knows(roots_now, counts_now, done_now, finalized_now)
           w1 == knows(roots_now', counts_now, done_now, finalized_now)
           w2 == knows(roots_now', counts_now', done_now, finalized_now)
           w3 == knows(roots_now', counts_now', done_now', finalized_now)
<1>1. /\ k \in FecKey /\ st \in FecState /\ states \in [FecKey -> FecState]
      /\ states'[k] = st2 /\ \A j \in FecKey \ {k} : states'[j] = states[j]
  <2>1. k \in FecKey
    BY DatagramFields
  <2>2. states'[k] = st2 /\ \A j \in FecKey \ {k} : states'[j] = states[j]
    BY EffectFacts
  <2> QED BY <2>1, <2>2 DEF IInv, TypeOK
<1>2. Delivers(v, q, w0) /\ Consistent(w0)
  BY AssemblerView, ViewConsistent
<1>3. CASE st2 = st /\ (evs = <<>> \/ \E reason : evs = <<Rejected(reason)>>)
  <2>1. \A j \in FecKey : states'[j] = states[j]
    BY <1>1, <1>3
  <2>2. w3 = w0
    BY <2>1 DEF roots_now, counts_now, done_now
  <2>3. CASE evs = <<>>
    BY <1>2, <2>2, <2>3, NoElements, ConcatSeq
  <2>4. CASE \E reason : evs = <<Rejected(reason)>>
    <3>1. PICK reason : evs = <<Rejected(reason)>>
      BY <2>4
    <3>2. Delivers(v, Append(q, Rejected(reason)), w0)
      BY <1>2, LearnRejected, DeliversOneMore
    <3> QED BY <2>2, <3>1, <3>2, OneEvent
  <2> QED BY <1>3, <2>3, <2>4
<1>4. ASSUME ~st.reconstructed, st2.merkle_root = d.merkle_root
      PROVE  IsSeq(started(st, d)) /\ Delivers(v, q \o started(st, d), w1)
  <2>1. Consistent(w1) /\ roots_now' = put(roots_now, k, d.merkle_root)
    BY <1>4, Stages
  <2>2. st.merkle_root \in {NoRoot, d.merkle_root}
    BY <1>4 DEF Effect, SetEffect
  <2>3. roots_now' = IF st.merkle_root = NoRoot
                     THEN put(roots_now, k, d.merkle_root) ELSE roots_now
    <3>1. CASE st.merkle_root = NoRoot
      BY <2>1, <3>1
    <3>2. CASE st.merkle_root # NoRoot
      <4>1. \A j \in FecKey : states'[j].merkle_root = states[j].merkle_root
        BY <1>1, <1>4, <2>2, <3>2
      <4> QED BY <3>2, <4>1 DEF roots_now
    <3> QED BY <3>1, <3>2
  <2> QED BY <1>2, <2>1, <2>3, StartedStream
<1>5. CASE /\ ~st.reconstructed
           /\ st2 = with_root(st, d)
           /\ \E reason : evs = Append(started(st, d), Rejected(reason))
  <2>1. PICK reason : evs = Append(started(st, d), Rejected(reason))
    BY <1>5
  <2>2. /\ st2.merkle_root = d.merkle_root /\ st2.distinct_seen = st.distinct_seen
        /\ ~st2.reconstructed
    <3>1. /\ with_root(st, d).merkle_root = d.merkle_root
          /\ with_root(st, d).distinct_seen = st.distinct_seen
          /\ with_root(st, d).reconstructed = st.reconstructed
      BY <1>1, EntryAfter, Zenon
    <3> QED BY <1>5, <3>1
  <2>3. IsSeq(started(st, d)) /\ Delivers(v, q \o started(st, d), w1)
    BY <1>4, <1>5, <2>2
  <2>4. Consistent(w1)
    BY <1>5, Stages
  <2>5. IsSeq(evs) /\ Delivers(v, q \o evs, w1)
    BY <2>1, <2>3, <2>4, LearnRejected, StreamOneMore
  <2>6. counts_now' = counts_now /\ done_now' = done_now
    <3>1. \A j \in FecKey : /\ states'[j].distinct_seen = states[j].distinct_seen
                            /\ states'[j].reconstructed <=> states[j].reconstructed
      BY <1>1, <1>5, <2>2
    <3> QED BY <3>1 DEF counts_now, done_now
  <2> QED BY <2>5, <2>6
<1>6. ASSUME ~st.reconstructed, st2.merkle_root = d.merkle_root,
             st2.distinct_seen = st.distinct_seen + 1
      PROVE  IsSeq(accepted(st, d)) /\ Delivers(v, q \o accepted(st, d), w2)
  <2> DEFINE e == ShredAccepted(k, st.distinct_seen + 1, erasure_shard_index(d))
  <2>1. Consistent(w2) /\ counts_now' = put(counts_now, k, st.distinct_seen + 1)
    BY <1>6, Stages
  <2>2. learn(w1, e) = w2
    BY <2>1, LearnAccepted
  <2>3. IsSeq(started(st, d)) /\ Delivers(v, q \o started(st, d), w1)
    BY <1>4, <1>6
  <2>4. accepted(st, d) = Append(started(st, d), e)
    BY DEF accepted
  <2> HIDE DEF e, w1, w2
  <2> QED BY <2>1, <2>2, <2>3, <2>4, StreamOneMore
<1>7. CASE /\ ~st.reconstructed
           /\ st2 = with_shard(st, d)
           /\ evs = accepted(st, d)
  <2>1. /\ st2.merkle_root = d.merkle_root /\ st2.distinct_seen = st.distinct_seen + 1
        /\ ~st2.reconstructed
    <3>1. /\ with_shard(st, d).merkle_root = d.merkle_root
          /\ with_shard(st, d).distinct_seen = st.distinct_seen + 1
          /\ with_shard(st, d).reconstructed = st.reconstructed
      BY <1>1, EntryAfter, Zenon
    <3> QED BY <1>7, <3>1
  <2>2. done_now' = done_now
    BY <1>7, <2>1, Stages
  <2> QED BY <1>6, <1>7, <2>1, <2>2
<1>8. CASE /\ ~st.reconstructed
           /\ st2 = completed(st, d)
           /\ \E das : evs = Append(accepted(st, d), Reconstructed(k, st2.merkle_root, das))
  <2>1. PICK das : evs = Append(accepted(st, d), Reconstructed(k, st2.merkle_root, das))
    BY <1>8
  <2>2. /\ st2.merkle_root = d.merkle_root /\ st2.distinct_seen = st.distinct_seen + 1
        /\ st2.reconstructed
    <3>1. /\ completed(st, d).merkle_root = d.merkle_root
          /\ completed(st, d).distinct_seen = st.distinct_seen + 1
          /\ completed(st, d).reconstructed = TRUE
      BY <1>1, EntryAfter, Zenon
    <3> QED BY <1>8, <3>1
  <2>3. done_now' = done_now \cup {k} /\ Consistent(w3)
    BY <1>8, <2>2, Stages
  <2>4. learn(w2, Reconstructed(k, st2.merkle_root, das)) = w3
    BY <2>3, LearnReconstructed
  <2>5. IsSeq(accepted(st, d)) /\ Delivers(v, q \o accepted(st, d), w2)
    BY <1>6, <1>8, <2>2
  <2> HIDE DEF w2, w3
  <2>6. IsSeq(evs) /\ Delivers(v, q \o evs, w3)
    BY <2>1, <2>3, <2>4, <2>5, StreamOneMore
  <2> QED BY <2>6 DEF w3
<1> QED BY <1>3, <1>5, <1>7, <1>8 DEF SetEvents

(***************************************************************************)
(* What ingest returns is exactly what brings the consumer from the state  *)
(* of the assembler before it to the state after it.                       *)
(***************************************************************************)
LEMMA IngestStream ==
    ASSUME IInv, IInv', NEW d \in Datagrams, NEW leader \in leader_for_slot(d.slot),
           ingest(d, leader),
           NEW v, NEW q, IsSeq(q), Delivers(v, q, assembler_view)
    PROVE  IsSeq(events') /\ Delivers(v, q \o events', assembler_view')
<1>1. CASE verify_shred(d, leader)
  <2>1. PICK st2, sn, evs : /\ Effect(d, st2, sn)
                            /\ SetEvents(d, states[key_of(d)], st2, evs)
                            /\ Announces(d, sn, evs)
    BY <1>1, IngestOutcome
  <2> DEFINE w3 == knows(roots_now', counts_now', done_now', finalized_now)
             ev == finalization(d.slot, sn, states')
  <2>2. IsSeq(evs) /\ Delivers(v, q \o evs, w3)
    BY <2>1, SetStream
  <2>3. Consistent(assembler_view')
    BY ViewConsistentNext
  <2>4. CASE may_finalize(sn)
    <3>1. events' = Append(evs, ev)
      BY <2>1, <2>4 DEF Announces
    <3>2. finalized_now' = inserted(finalized_now, d.slot, ev.fec_roots)
      BY <2>1, <2>4, LastStage
    <3>3. learn(w3, ev) = knows(roots_now', counts_now', done_now', finalized_now')
      BY <3>2, LearnFinalized
    <3>4. learn(w3, ev) = assembler_view'
      BY <3>3, AssemblerViewNext
    <3> HIDE DEF w3, ev
    <3> QED BY <2>2, <2>3, <3>1, <3>4, StreamOneMore
  <2>5. CASE ~may_finalize(sn)
    <3>1. events' = evs
      BY <2>1, <2>5 DEF Announces
    <3>2. finalized_now' = finalized_now
      BY <2>1, <2>5, LastStage
    <3> QED BY <2>2, <3>1, <3>2, AssemblerViewNext
  <2> QED BY <2>4, <2>5
<1>2. CASE ~verify_shred(d, leader)
  <2>1. Inert /\ \E reason : events' = <<Rejected(reason)>>
    BY <1>2, IngestOutcome
  <2>2. PICK reason : events' = <<Rejected(reason)>>
    BY <2>1
  <2>3. assembler_view' = assembler_view
    BY <2>1 DEF Inert, assembler_view
  <2>4. Consistent(assembler_view)
    BY ViewConsistent
  <2>5. Delivers(v, Append(q, Rejected(reason)), assembler_view)
    BY <2>4, LearnRejected, DeliversOneMore
  <2> QED BY <2>2, <2>3, <2>5, OneEvent
<1> QED BY <1>1, <1>2

-----------------------------------------------------------------------------
(***************************************************************************)
(* The invariant: as long as there is a consumer, what is in the channel   *)
(* and what the task still holds brings it to the assembler's state.       *)
(***************************************************************************)
Outstanding ==
    /\ IsSeq(channel) /\ IsSeq(pending)
    /\ task \in {"recv", "send", "send_error", "stopped"}
    /\ sending <=> pending # <<>>

LInv ==
    /\ IInv
    /\ Outstanding
    /\ Consistent(view)
    /\ rx_open => Delivers(view, channel \o pending, assembler_view)

\* A new assembler is what a consumer that has heard nothing believes.
LEMMA NewViewIsNew == Init => assembler_view = NewView
<1> SUFFICES ASSUME Init PROVE assembler_view = NewView
  OBVIOUS
<1>1. \A k \in FecKey : /\ states[k].merkle_root = NoRoot /\ states[k].distinct_seen = 0
                        /\ ~states[k].reconstructed
  BY DEF Init, NewFecState
<1>2. {u \in Slots : slots[u].finalized} = {}
  BY DEF Init, NewSlotState
<1>3. [s \in {u \in Slots : slots[u].finalized} |-> finalizations[s][1]] = [s \in {} |-> s]
  BY <1>2
<1>4. {k \in FecKey : states[k].reconstructed} = {}
  BY <1>1
<1>5. /\ [k \in FecKey |-> states[k].merkle_root] = [k \in FecKey |-> NoRoot]
      /\ [k \in FecKey |-> states[k].distinct_seen] = [k \in FecKey |-> 0]
  BY <1>1
<1> QED BY <1>3, <1>4, <1>5, Zenon DEF assembler_view, NewView

LEMMA ListenerInitially == ListenerInit => LInv
<1> SUFFICES ASSUME ListenerInit PROVE LInv
  OBVIOUS
<1>1. IInv /\ view = assembler_view
  BY InitIInv, NewViewIsNew DEF ListenerInit
<1>2. Consistent(view)
  BY <1>1, ViewConsistent
<1>3. channel = <<>> /\ pending = <<>> /\ task = "recv"
  BY DEF ListenerInit
<1>4. channel \o pending = <<>>
  BY <1>3
<1>5. Delivers(view, channel \o pending, assembler_view)
  BY <1>1, <1>2, <1>4, DeliversNothing
<1>6. Outstanding
  BY <1>3, NoElements DEF Outstanding, sending
<1> QED BY <1>1, <1>2, <1>5, <1>6 DEF LInv

\* The steps that are not of the assembler leave its half alone.
LEMMA AssemblerIdle ==
    ASSUME UNCHANGED vars
    PROVE  assembler_view' = assembler_view /\ (IInv => IInv')
<1>1. assembler_view' = assembler_view
  BY DEF vars, assembler_view
<1>2. IInv => IInv'
  BY NextIInv
<1> QED BY <1>1, <1>2

LEMMA RecvKeeps ==
    ASSUME LInv, NEW d \in Datagrams, NEW leader \in leader_for_slot(d.slot), Recv(d, leader)
    PROVE  LInv'
<1>1. ingest(d, leader) /\ IInv /\ IInv'
  <2>1. ingest(d, leader) /\ IInv
    BY DEF Recv, LInv
  <2>2. Next
    BY <2>1 DEF Next
  <2> QED BY <2>1, <2>2, NextIInv
<1>2. /\ task = "recv" /\ pending = <<>> /\ IsSeq(channel)
      /\ channel' = channel /\ view' = view /\ rx_open' = rx_open
      /\ pending' = events' /\ task' = IF events' = <<>> THEN "recv" ELSE "send"
  BY DEF Recv, LInv, Outstanding, sending
<1>3. IsSeq(events')
  <2>1. Delivers(assembler_view, <<>>, assembler_view)
    BY <1>1, ViewConsistent, DeliversNothing
  <2> QED BY <1>1, <2>1, NoElements, IngestStream
<1>4. rx_open => Delivers(view, channel \o events', assembler_view')
  <2>1. channel \o pending = channel
    BY <1>2, NoElements, ConcatSeq
  <2> QED BY <1>1, <1>2, <2>1, IngestStream DEF LInv
<1>5. Outstanding'
  BY <1>2, <1>3 DEF Outstanding, sending
<1>6. Consistent(view') /\ (rx_open' => Delivers(view', channel' \o pending', assembler_view'))
  BY <1>2, <1>4 DEF LInv
<1> QED BY <1>1, <1>5, <1>6 DEF LInv, Consistent, Delivers, Path

LEMMA RecvErrorKeeps ==
    ASSUME LInv, RecvError
    PROVE  LInv'
<1> DEFINE e == Rejected("recv_from")
<1>1. /\ task = "recv" /\ pending = <<>> /\ IsSeq(channel)
      /\ channel' = channel /\ view' = view /\ rx_open' = rx_open
      /\ pending' = <<e>> /\ task' = "send_error"
  BY DEF RecvError, LInv, Outstanding, sending
<1>2. assembler_view' = assembler_view /\ IInv'
  BY AssemblerIdle DEF RecvError, LInv
<1>3. Outstanding'
  BY <1>1, OneEvent DEF Outstanding, sending
<1>4. ASSUME rx_open
      PROVE  Delivers(view, channel \o <<e>>, assembler_view)
  <2>1. channel \o pending = channel
    BY <1>1, NoElements, ConcatSeq
  <2>2. Delivers(view, channel, assembler_view) /\ Consistent(assembler_view)
    BY <1>4, <2>1, ViewConsistent DEF LInv
  <2>3. Delivers(view, Append(channel, e), assembler_view)
    BY <1>1, <2>2, LearnRejected, DeliversOneMore
  <2> QED BY <1>1, <2>3, OneEvent
<1>5. Consistent(view') /\ (rx_open' => Delivers(view', channel' \o pending', assembler_view'))
  BY <1>1, <1>2, <1>4 DEF LInv
<1> QED BY <1>2, <1>3, <1>5 DEF LInv, Consistent, Delivers, Path

LEMMA SendKeeps ==
    ASSUME LInv, Send
    PROVE  LInv'
<1>1. /\ IsSeq(channel) /\ IsSeq(pending) /\ pending # <<>>
      /\ task \in {"send", "send_error"}
      /\ channel' = Append(channel, Head(pending)) /\ pending' = Tail(pending)
      /\ task' = IF Tail(pending) = <<>> THEN "recv" ELSE task
      /\ view' = view /\ rx_open' = rx_open
  BY DEF Send, LInv, Outstanding, sending
<1>2. assembler_view' = assembler_view /\ IInv'
  BY AssemblerIdle DEF Send, LInv
<1>3. Outstanding'
  <2>1. IsSeq(channel') /\ IsSeq(pending')
    BY <1>1, AppendSeq, TailSeq
  <2> QED BY <1>1, <2>1 DEF Outstanding, sending
<1>4. channel' \o pending' = channel \o pending
  BY <1>1, MoveOne
<1>5. Consistent(view') /\ (rx_open' => Delivers(view', channel' \o pending', assembler_view'))
  BY <1>1, <1>2, <1>4 DEF LInv
<1> QED BY <1>2, <1>3, <1>5 DEF LInv, Consistent, Delivers, Path

LEMMA SendFailsKeeps ==
    ASSUME LInv, SendFails
    PROVE  LInv'
<1>1. /\ IsSeq(channel) /\ channel' = channel /\ pending' = <<>>
      /\ task' \in {"stopped", "recv"} /\ view' = view /\ ~rx_open'
  BY DEF SendFails, LInv, Outstanding
<1>2. IInv'
  BY AssemblerIdle DEF SendFails, LInv
<1>3. Outstanding'
  BY <1>1, NoElements DEF Outstanding, sending
<1>4. Consistent(view')
  BY <1>1 DEF LInv
<1> QED BY <1>1, <1>2, <1>3, <1>4 DEF LInv, Consistent

LEMMA ConsumeKeeps ==
    ASSUME LInv, Consume
    PROVE  LInv'
<1>1. /\ IsSeq(channel) /\ IsSeq(pending) /\ channel # <<>>
      /\ Delivers(view, channel \o pending, assembler_view)
      /\ view' = learn(view, Head(channel)) /\ channel' = Tail(channel)
      /\ pending' = pending /\ task' = task /\ rx_open' = rx_open
  BY DEF Consume, LInv, Outstanding
<1>2. assembler_view' = assembler_view /\ IInv'
  BY AssemblerIdle DEF Consume, LInv
<1>3. /\ IsSeq(channel \o pending) /\ channel \o pending # <<>>
      /\ Head(channel \o pending) = Head(channel)
      /\ Tail(channel \o pending) = Tail(channel) \o pending
  BY <1>1, ConcatSeq, TakeOne
<1>4. /\ Consistent(learn(view, Head(channel)))
      /\ Delivers(learn(view, Head(channel)), Tail(channel) \o pending, assembler_view)
  BY <1>1, <1>3, DeliversTheRest
<1>5. Outstanding'
  <2>1. IsSeq(channel')
    BY <1>1, TailSeq
  <2> QED BY <1>1, <2>1 DEF LInv, Outstanding, sending
<1>6. Consistent(view') /\ Delivers(view', channel' \o pending', assembler_view')
  BY <1>1, <1>2, <1>4
<1> QED BY <1>2, <1>5, <1>6 DEF LInv, Consistent, Delivers, Path

LEMMA DropKeeps ==
    ASSUME LInv, DropReceiver
    PROVE  LInv'
<1>1. /\ IsSeq(pending) /\ pending' = pending /\ task' = task /\ channel' = <<>>
      /\ view' = view /\ ~rx_open'
  BY DEF DropReceiver, LInv, Outstanding
<1>2. IInv'
  BY AssemblerIdle DEF DropReceiver, LInv
<1>3. Outstanding'
  BY <1>1, NoElements DEF LInv, Outstanding, sending
<1>4. Consistent(view')
  BY <1>1 DEF LInv
<1> QED BY <1>1, <1>2, <1>3, <1>4 DEF LInv, Consistent

LEMMA ListenerIdle ==
    ASSUME LInv, UNCHANGED <<vars, lvars>>
    PROVE  LInv'
<1>1. /\ task' = task /\ pending' = pending /\ channel' = channel
      /\ rx_open' = rx_open /\ view' = view
  BY DEF lvars
<1>2. assembler_view' = assembler_view /\ IInv'
  BY AssemblerIdle DEF LInv
<1>3. Outstanding'
  BY <1>1 DEF LInv, Outstanding, sending
<1>4. Consistent(view') /\ (rx_open' => Delivers(view', channel' \o pending', assembler_view'))
  BY <1>1, <1>2 DEF LInv
<1> QED BY <1>2, <1>3, <1>4 DEF LInv, Consistent, Delivers, Path

\* The invariant holds in every state of the task, the channel and the consumer.
THEOREM ListenerInvariance == ListenerSpec => []LInv
<1>1. LInv /\ [ListenerNext]_<<vars, lvars>> => LInv'
  <2> SUFFICES ASSUME LInv, [ListenerNext]_<<vars, lvars>> PROVE LInv'
    OBVIOUS
  <2>1. CASE \E d \in Datagrams : \E leader \in leader_for_slot(d.slot) : Recv(d, leader)
    BY <2>1, RecvKeeps
  <2>2. CASE RecvError
    BY <2>2, RecvErrorKeeps
  <2>3. CASE Send
    BY <2>3, SendKeeps
  <2>4. CASE SendFails
    BY <2>4, SendFailsKeeps
  <2>5. CASE Consume
    BY <2>5, ConsumeKeeps
  <2>6. CASE DropReceiver
    BY <2>6, DropKeeps
  <2>7. CASE UNCHANGED <<vars, lvars>>
    BY <2>7, ListenerIdle
  <2> QED BY <2>1, <2>2, <2>3, <2>4, <2>5, <2>6, <2>7 DEF ListenerNext
<1> QED BY <1>1, ListenerInitially, PTL DEF ListenerSpec

(***************************************************************************)
(* The event stream is complete: no path of ingest changes a set or a slot *)
(* without the event that says so, and no capacity of the channel, however *)
(* small, loses or reorders one.                                           *)
(***************************************************************************)
THEOREM Complete == ListenerSpec => []StreamComplete
<1>1. LInv => StreamComplete
  <2> SUFFICES ASSUME LInv, rx_open
               PROVE  FoldLeft(learn, view, channel \o pending) = assembler_view
    BY DEF StreamComplete
  <2>1. Delivers(view, channel \o pending, assembler_view) /\ IsSeq(channel \o pending)
    BY ConcatSeq DEF LInv, Outstanding
  <2> QED BY <2>1, DeliversFold
<1> QED BY <1>1, ListenerInvariance, PTL

(***************************************************************************)
(* Whatever prefix of the stream the consumer has received, a set it       *)
(* believes done was announced with its root and 32 shreds, and a slot it  *)
(* believes finalized covers sets announced done under those roots.        *)
(***************************************************************************)
THEOREM EveryPrefix == ListenerSpec => []PrefixConsistent
<1>1. LInv => PrefixConsistent
  BY DEF LInv, Consistent, PrefixConsistent
<1> QED BY <1>1, ListenerInvariance, PTL

=============================================================================

------------------------ MODULE LeaderResolverProofs ------------------------
(***************************************************************************)
(* Proofs about LeaderResolver for every number of threads and slots, and  *)
(* every batch and cache size.                                             *)
(***************************************************************************)
EXTENDS LeaderResolver, FiniteSetTheorems, WellFoundedInduction, TLAPS

\* `answer' lists the leaders of consecutive slots from `start'.
Lists(answer, start) ==
    \A i \in 1 .. Len(answer) :
        start + i - 1 \in Slots /\ answer[i] = Schedule[start + i - 1]

\* Until it is stored, the list a thread holds begins at the slot the thread asks for.
Aligned == \A t \in Threads : pc[t] = "fill" => Lists(leaders[t], slot[t])

\* The mutex protects the fetch, the cache never contradicts the schedule, is
\* bounded, and stays as the fill left it until the thread that filled it reads it.
IInv == TypeOK /\ Aligned /\ Coherent /\ NoStampede /\ CacheBounded /\ KnownUnlessEvicted

-----------------------------------------------------------------------------
(***************************************************************************)
(* What the eviction leaves: at most MAX_CACHE_ENTRIES entries, and exactly*)
(* that many, all of higher slots, when it removed one.                    *)
(***************************************************************************)
\* A set of naturals has a least element.
LEMMA Least ==
    ASSUME NEW T, T \subseteq Nat, T # {}
    PROVE  \E x \in T : \A y \in T : x <= y
<1> DEFINE R == OpToRel(<, Nat)
<1>1. IsWellFoundedOn(R, Nat)
  BY NatLessThanWellFounded
<1>2. \A x, y \in Nat : y < x => <<y, x>> \in R
  BY DEF OpToRel
<1> HIDE DEF R
<1>3. PICK x \in T : \A y \in T : ~(<<y, x>> \in R)
  BY <1>1, WFMin
<1>4. \A y \in T : ~(y < x)
  BY <1>2, <1>3
<1>5. \A y \in T : x <= y
  BY <1>4
<1> QED BY <1>5

\* The cached slots above s.
above(c, s) == {u \in cached(c) : u > s}

\* There are finitely many of them, fewer above a higher slot.
LEMMA AboveFinite ==
    ASSUME NEW c
    PROVE  /\ IsFiniteSet(cached(c))
           /\ \A s \in Slots : /\ IsFiniteSet(above(c, s))
                                /\ Cardinality(above(c, s)) \in Nat
           /\ \A s, u \in Slots :
                 s <= u => Cardinality(above(c, u)) <= Cardinality(above(c, s))
           /\ \A s \in Slots, u \in cached(c) :
                 s < u => Cardinality(above(c, u)) < Cardinality(above(c, s))
<1>1. cached(c) \subseteq Slots /\ Slots \subseteq Nat
  BY SlotsAssumption DEF cached
<1>2. IsFiniteSet(cached(c))
  BY <1>1, SlotsAssumption, FS_Subset
<1>3. \A s \in Slots : IsFiniteSet(above(c, s)) /\ Cardinality(above(c, s)) \in Nat
  <2> TAKE s \in Slots
  <2>1. above(c, s) \in SUBSET cached(c)
    BY DEF above
  <2> QED BY <1>2, <2>1, FS_Subset, FS_CardinalityType
<1>4. \A s, u \in Slots :
         s <= u => Cardinality(above(c, u)) <= Cardinality(above(c, s))
  <2> SUFFICES ASSUME NEW s \in Slots, NEW u \in Slots, s <= u
               PROVE  Cardinality(above(c, u)) <= Cardinality(above(c, s))
    OBVIOUS
  <2>1. above(c, u) \in SUBSET above(c, s)
    <3>1. \A v \in cached(c) : v \in Nat /\ u \in Nat /\ s \in Nat
      BY <1>1
    <3>2. \A v \in cached(c) : v > u => v > s
      BY <3>1
    <3> QED BY <3>2 DEF above
  <2> QED BY <1>3, <2>1, FS_Subset
<1>5. \A s \in Slots, u \in cached(c) :
         s < u => Cardinality(above(c, u)) < Cardinality(above(c, s))
  <2> SUFFICES ASSUME NEW s \in Slots, NEW u \in cached(c), s < u
               PROVE  Cardinality(above(c, u)) < Cardinality(above(c, s))
    OBVIOUS
  <2>1. above(c, u) \in SUBSET above(c, s) /\ u \in above(c, s) /\ u \notin above(c, u)
    <3>1. \A v \in cached(c) : v \in Nat /\ u \in Nat /\ s \in Nat
      BY <1>1
    <3>2. \A v \in cached(c) : v > u => v > s
      BY <3>1
    <3>3. u > s /\ ~(u > u)
      BY <3>1
    <3> QED BY <3>2, <3>3 DEF above
  <2>2. above(c, s) # above(c, u)
    BY <2>1
  <2>3. /\ Cardinality(above(c, u)) <= Cardinality(above(c, s))
        /\ Cardinality(above(c, s)) # Cardinality(above(c, u))
    BY <1>3, <2>1, <2>2, FS_Subset
  <2>4. Cardinality(above(c, u)) \in Nat /\ Cardinality(above(c, s)) \in Nat
    BY <1>1, <1>3
  <2> QED BY <2>3, <2>4
<1> QED BY <1>2, <1>3, <1>4, <1>5

\* What is left is what fewer than MAX_CACHE_ENTRIES higher entries outrank.
LEMMA EvictedKeeps ==
    ASSUME NEW c
    PROVE  cached(evicted(c))
             = {s \in cached(c) : Cardinality(above(c, s)) < MAX_CACHE_ENTRIES}
BY DEF cached, evicted, above

\* The lowest entry left and those above it are all there is.
LEMMA EvictedBounded ==
    ASSUME NEW c
    PROVE  Cardinality(cached(evicted(c))) <= MAX_CACHE_ENTRIES
<1> DEFINE K == cached(evicted(c))
<1>1. K = {s \in cached(c) : Cardinality(above(c, s)) < MAX_CACHE_ENTRIES}
  BY EvictedKeeps
<1> HIDE DEF K
<1>2. K \subseteq Nat /\ K \subseteq Slots
  BY <1>1, SlotsAssumption DEF cached
<1>3. CASE K = {}
  BY <1>3, FS_EmptySet, MaxCacheAssumption DEF K
<1>4. CASE K # {}
  <2>1. PICK m \in K : \A y \in K : m <= y
    BY <1>2, <1>4, Least
  <2>2. K \in SUBSET (above(c, m) \cup {m})
    BY <1>1, <1>2, <2>1 DEF above
  <2>3. m \in Slots /\ Cardinality(above(c, m)) < MAX_CACHE_ENTRIES
    BY <1>1, <1>2
  <2>4. IsFiniteSet(above(c, m)) /\ Cardinality(above(c, m)) \in Nat
    BY <2>3, AboveFinite
  <2>5. m \notin above(c, m)
    BY <1>2 DEF above
  <2>6. /\ IsFiniteSet(above(c, m) \cup {m})
        /\ Cardinality(above(c, m) \cup {m}) = Cardinality(above(c, m)) + 1
    BY <2>4, <2>5, FS_AddElement
  <2>7. /\ Cardinality(K) <= Cardinality(above(c, m)) + 1
        /\ Cardinality(K) \in Nat
    BY <2>2, <2>6, FS_Subset, FS_CardinalityType
  <2> QED BY <2>3, <2>4, <2>7, MaxCacheAssumption DEF K
<1> QED BY <1>3, <1>4

(***************************************************************************)
(* Of an entry that is removed, MAX_CACHE_ENTRIES higher ones are left.    *)
(* Were there fewer, the highest removed entry above it would be outranked *)
(* by those alone, and so would not have been removed.                     *)
(***************************************************************************)
LEMMA EvictedFull ==
    ASSUME NEW c, NEW s \in cached(c), s \notin cached(evicted(c))
    PROVE  /\ Cardinality(cached(evicted(c))) = MAX_CACHE_ENTRIES
           /\ \A u \in cached(evicted(c)) : u > s
<1> DEFINE K == cached(evicted(c))
           card(u) == Cardinality(above(c, u))
<1>1. K = {u \in cached(c) : card(u) < MAX_CACHE_ENTRIES}
  BY EvictedKeeps
<1>2. Cardinality(K) <= MAX_CACHE_ENTRIES
  BY EvictedBounded
<1>3. s \notin K
  OBVIOUS
<1> HIDE DEF K
<1>4. /\ cached(c) \subseteq Slots
      /\ Slots \subseteq Nat
      /\ IsFiniteSet(cached(c))
      /\ \A u \in Slots : IsFiniteSet(above(c, u)) /\ card(u) \in Nat
      /\ \A u, v \in Slots : u <= v => card(v) <= card(u)
      /\ \A u \in Slots, v \in cached(c) : u < v => card(v) < card(u)
  <2>1. cached(c) \subseteq Slots /\ Slots \subseteq Nat
    BY SlotsAssumption DEF cached
  <2> QED BY <2>1, AboveFinite
<1> HIDE DEF card
<1>5. s \in Slots /\ card(s) \in Nat /\ ~(card(s) < MAX_CACHE_ENTRIES)
  BY <1>1, <1>3, <1>4
<1>6. ASSUME NEW u \in K PROVE u > s
  <2>1. u \in Slots /\ card(u) \in Nat /\ card(u) < MAX_CACHE_ENTRIES /\ u \in Nat /\ s \in Nat
    BY <1>1, <1>4, <1>5
  <2>2. ~(u <= s)
    <3>1. u <= s => card(s) <= card(u)
      BY <1>4, <1>5, <2>1
    <3> QED BY <1>5, <2>1, <3>1, MaxCacheAssumption
  <2> QED BY <2>1, <2>2
<1>7. IsFiniteSet(K) /\ Cardinality(K) \in Nat
  <2>1. K \in SUBSET cached(c)
    BY <1>1
  <2> QED BY <1>4, <2>1, FS_Subset, FS_CardinalityType
<1>8. ~(Cardinality(K) < MAX_CACHE_ENTRIES)
  <2> SUFFICES ASSUME Cardinality(K) < MAX_CACHE_ENTRIES PROVE FALSE
    OBVIOUS
  <2> DEFINE D == above(c, s) \ K
             C == {card(u) : u \in D}
  <2>1. D # {}
    <3>1. ASSUME D = {} PROVE FALSE
      <4>1. above(c, s) \in SUBSET K
        BY <3>1
      <4>2. card(s) <= Cardinality(K)
        BY <1>7, <4>1, FS_Subset DEF card
      <4> QED BY <1>5, <1>7, <4>2, MaxCacheAssumption
    <3> QED BY <3>1
  <2>2. \A u \in D : u \in cached(c) /\ u > s /\ u \notin K
    BY DEF above
  <2>3. C \subseteq Nat /\ C # {}
    BY <1>4, <2>1, <2>2
  <2>4. PICK x \in C : \A y \in C : x <= y
    <3> HIDE DEF C
    <3> QED BY <2>3, Least
  <2>5. PICK m \in D : card(m) = x
    BY <2>4
  <2>6. m \in Slots /\ m \in cached(c) /\ m > s /\ m \notin K
    BY <1>4, <2>2
  <2>7. ASSUME NEW u \in above(c, m) PROVE u \in K
    <3>1. u \in cached(c) /\ u > m
      BY DEF above
    <3>2. u \in above(c, s)
      BY <1>4, <1>5, <2>6, <3>1 DEF above
    <3>3. card(u) < card(m)
      BY <1>4, <2>6, <3>1
    <3>4. u \notin D
      <4>1. ASSUME u \in D PROVE FALSE
        <5>1. card(m) <= card(u)
          BY <2>4, <2>5, <4>1
        <5>2. card(m) \in Nat /\ card(u) \in Nat
          BY <1>4, <2>6, <3>1
        <5> QED BY <3>3, <5>1, <5>2
      <4> QED BY <4>1
    <3> QED BY <3>2, <3>4
  <2>8. above(c, m) \in SUBSET K
    BY <2>7
  <2>9. card(m) <= Cardinality(K) /\ card(m) \in Nat
    BY <1>4, <1>7, <2>6, <2>8, FS_Subset DEF card
  <2>10. card(m) < MAX_CACHE_ENTRIES
    BY <1>7, <2>9, MaxCacheAssumption
  <2> QED BY <1>1, <2>6, <2>10
<1>9. Cardinality(K) = MAX_CACHE_ENTRIES
  BY <1>2, <1>7, <1>8, MaxCacheAssumption
<1> QED BY <1>6, <1>9 DEF K

-----------------------------------------------------------------------------

(***************************************************************************)
(* Storing the list by position from the slot it begins at puts each       *)
(* pubkey under the slot it leads.                                         *)
(***************************************************************************)
LEMMA InsertedAligned ==
    ASSUME NEW c \in [Slots -> Pubkeys \cup {NoLeader}],
           NEW start \in Slots, NEW answer \in Seq(Pubkeys), Lists(answer, start)
    PROVE  /\ inserted(c, start, answer) \in [Slots -> Pubkeys \cup {NoLeader}]
           /\ \A s \in Slots :
                 inserted(c, start, answer)[s]
                   = IF s - start \in 0 .. Len(answer) - 1 THEN Schedule[s] ELSE c[s]
<1>1. ASSUME NEW s \in Slots, s - start \in 0 .. Len(answer) - 1
      PROVE  answer[s - start + 1] = Schedule[s]
  <2>1. s \in Nat /\ start \in Nat /\ Len(answer) \in Nat
    BY SlotsAssumption
  <2>2. s - start + 1 \in 1 .. Len(answer) /\ start + (s - start + 1) - 1 = s
    BY <1>1, <2>1
  <2> QED BY <2>2 DEF Lists
<1>2. ASSUME NEW s \in Slots
      PROVE  inserted(c, start, answer)[s]
               = IF s - start \in 0 .. Len(answer) - 1 THEN Schedule[s] ELSE c[s]
  BY <1>1 DEF inserted
<1>3. inserted(c, start, answer) = [s \in Slots |-> inserted(c, start, answer)[s]]
  BY DEF inserted
<1>4. \A s \in Slots : inserted(c, start, answer)[s] \in Pubkeys \cup {NoLeader}
  BY <1>2, ScheduleAssumption
<1> QED BY <1>2, <1>3, <1>4

\* A fill keeps or forgets entries and adds the schedule's.
LEMMA FillCoherent ==
    ASSUME NEW c \in [Slots -> Pubkeys \cup {NoLeader}],
           NEW start \in Slots, NEW answer \in Seq(Pubkeys), Lists(answer, start),
           \A s \in Slots : c[s] \in {Schedule[s], NoLeader}
    PROVE  LET f == evicted(inserted(c, start, answer))
           IN  /\ f \in [Slots -> Pubkeys \cup {NoLeader}]
               /\ \A s \in Slots : f[s] \in {Schedule[s], NoLeader}
<1> DEFINE i == inserted(c, start, answer)
<1>1. /\ i \in [Slots -> Pubkeys \cup {NoLeader}]
      /\ \A s \in Slots : i[s] \in {Schedule[s], NoLeader}
  BY InsertedAligned
<1> HIDE DEF i
<1>2. /\ evicted(i) \in [Slots -> Pubkeys \cup {NoLeader}]
      /\ \A s \in Slots : evicted(i)[s] \in {Schedule[s], NoLeader}
  BY <1>1 DEF evicted
<1> QED BY <1>2 DEF i

\* An answer that is not empty brings the leader of `start', unless it is evicted.
LEMMA FillKnown ==
    ASSUME NEW c \in [Slots -> Pubkeys \cup {NoLeader}],
           NEW start \in Slots, NEW answer \in Seq(Pubkeys), Lists(answer, start),
           answer # <<>>
    PROVE  LET f == evicted(inserted(c, start, answer))
           IN  \/ f[start] # NoLeader
               \/ /\ Cardinality(cached(f)) = MAX_CACHE_ENTRIES
                  /\ \A u \in cached(f) : u > start
<1> DEFINE i == inserted(c, start, answer)
<1>1. start - start \in 0 .. Len(answer) - 1
  <2>1. Len(answer) \in Nat /\ Len(answer) # 0 /\ start \in Nat
    BY SlotsAssumption
  <2> QED BY <2>1
<1>2. i[start] = Schedule[start]
  BY <1>1, InsertedAligned
<1>3. start \in cached(i)
  BY <1>2, ScheduleAssumption, NoValueAssumption DEF cached
<1> HIDE DEF i
<1>4. CASE start \in cached(evicted(i))
  BY <1>4 DEF cached, i
<1>5. CASE start \notin cached(evicted(i))
  BY <1>3, <1>5, EvictedFull DEF i
<1> QED BY <1>4, <1>5

LEMMA InitIInv == Init => IInv
<1> SUFFICES ASSUME Init PROVE IInv
  OBVIOUS
<1>1. TypeOK /\ Aligned /\ Coherent /\ NoStampede /\ KnownUnlessEvicted
  BY NoValueAssumption DEF Init, TypeOK, Aligned, Coherent, NoStampede, KnownUnlessEvicted
<1>2. cached(cache) = {}
  BY DEF Init, cached
<1>3. CacheBounded
  BY <1>2, FS_EmptySet, MaxCacheAssumption DEF CacheBounded
<1> QED BY <1>1, <1>3 DEF IInv

LEMMA CallIInv ==
    ASSUME IInv, NEW t \in Threads, NEW s \in Slots, Call(t, s)
    PROVE  IInv'
BY DEF IInv, TypeOK, Aligned, Coherent, NoStampede, CacheBounded, KnownUnlessEvicted, Call

\* The answer to a fetch: a list of leaders that begins at the slot asked for.
LEMMA FetchAnswer ==
    ASSUME TypeOK, NEW t \in Threads, NEW n \in 0 .. BATCH_SIZE, FetchOk(t, n)
    PROVE  leaders'[t] \in Seq(Pubkeys) /\ Lists(leaders'[t], slot[t])
<1> DEFINE answer == [i \in 1 .. n |-> Schedule[slot[t] + i - 1]]
<1>1. leaders'[t] = answer
  BY DEF TypeOK, FetchOk
<1>2. slot[t] \in Nat /\ n \in Nat
  <2>1. slot[t] \in Nat
    BY SlotsAssumption DEF TypeOK
  <2>2. BATCH_SIZE \in Nat
    BY BatchAssumption
  <2> QED BY <2>1, <2>2
<1>3. ASSUME NEW i \in 1 .. n PROVE slot[t] + i - 1 \in Slots
  <2>1. slot[t] + i - 1 \in slot[t] .. slot[t] + n - 1
    BY <1>2
  <2> QED BY <2>1 DEF FetchOk
<1>4. \A i \in 1 .. n : Schedule[slot[t] + i - 1] \in Pubkeys
  BY <1>3, ScheduleAssumption
<1>5. answer \in Seq(Pubkeys) /\ Len(answer) = n
  BY <1>2, <1>4
<1>6. \A i \in 1 .. n : answer[i] = Schedule[slot[t] + i - 1]
  OBVIOUS
<1> HIDE DEF answer
<1>7. Lists(answer, slot[t])
  BY <1>3, <1>5, <1>6 DEF Lists
<1> QED BY <1>1, <1>5, <1>7

\* A step changes the list of its own thread only, and only a fetch leads to a fill.
LEMMA StepAligned ==
    ASSUME TypeOK, Aligned, NEW t \in Threads, Step(t)
    PROVE  Aligned'
<1> SUFFICES ASSUME NEW u \in Threads, pc'[u] = "fill"
             PROVE  Lists(leaders'[u], slot'[u])
  <2>1. Aligned' <=> \A u \in Threads : pc'[u] = "fill" => Lists(leaders'[u], slot'[u])
    BY DEF Aligned, Lists
  <2> QED BY <2>1
<1> USE DEF TypeOK
<1>1. slot' = slot
  BY DEF Step, Read, Lock, Recheck, FetchOk, FetchErr, Fill, Final
<1>2. CASE u # t
  <2>1. leaders'[u] = leaders[u] /\ pc'[u] = pc[u]
    BY <1>2 DEF Step, Read, Lock, Recheck, FetchOk, FetchErr, Fill, Final, Return
  <2> QED BY <1>1, <2>1 DEF Aligned
<1>3. CASE u = t
  <2>1. PICK n \in 0 .. BATCH_SIZE : FetchOk(t, n)
    BY <1>3 DEF Step, Read, Lock, Recheck, FetchErr, Fill, Final, Return
  <2> QED BY <1>1, <1>3, <2>1, FetchAnswer
<1> QED BY <1>2, <1>3

\* A return keeps the types of what it assigns.
LEMMA ReturnType ==
    ASSUME TypeOK, NEW t \in Threads, NEW r \in Pubkeys \cup {NoLeader}, Return(t, r)
    PROVE  /\ pc' \in [Threads -> {"idle", "read", "lock", "recheck", "fetch", "fill", "final"}]
           /\ leaders' \in [Threads -> Seq(Pubkeys)]
           /\ result' \in [Threads -> Pubkeys \cup {NoLeader}]
<1>1. <<>> \in Seq(Pubkeys)
  OBVIOUS
<1> QED BY <1>1 DEF TypeOK, Return

LEMMA StepIInv ==
    ASSUME IInv, NEW t \in Threads, Step(t)
    PROVE  IInv'
<1>0. Aligned'
  BY StepAligned DEF IInv
<1> USE NoValueAssumption, <1>0
      DEF IInv, TypeOK, Coherent, NoStampede, CacheBounded, KnownUnlessEvicted
<1>1. CASE Read(t)
  <2>1. CASE cache[slot[t]] # NoLeader
    <3>1. TypeOK'
      <4>1. cache[slot[t]] \in Pubkeys \cup {NoLeader}
        OBVIOUS
      <4>2. Return(t, cache[slot[t]]) /\ UNCHANGED <<cache, slot>> /\ inflight' \in {inflight, NoThread}
        BY <1>1, <2>1 DEF Read
      <4> QED BY <4>1, <4>2, ReturnType
    <3>2. Coherent'
      BY <1>1, <2>1 DEF Read, Return
    <3>3. NoStampede'
      BY <1>1, <2>1 DEF Read, Return
    <3>4. CacheBounded' /\ KnownUnlessEvicted'
      BY <1>1, <2>1 DEF Read, Return
    <3> QED BY <3>1, <3>2, <3>3, <3>4
  <2>2. CASE cache[slot[t]] = NoLeader
    BY <1>1, <2>2 DEF Read
  <2> QED BY <2>1, <2>2
<1>2. CASE Lock(t)
  BY <1>2 DEF Lock
<1>3. CASE Recheck(t)
  <2>1. CASE cache[slot[t]] # NoLeader
    <3>1. TypeOK'
      <4>1. cache[slot[t]] \in Pubkeys \cup {NoLeader}
        OBVIOUS
      <4>2. Return(t, cache[slot[t]]) /\ UNCHANGED <<cache, slot>> /\ inflight' \in {inflight, NoThread}
        BY <1>3, <2>1 DEF Recheck
      <4> QED BY <4>1, <4>2, ReturnType
    <3>2. Coherent'
      BY <1>3, <2>1 DEF Recheck, Return
    <3>3. NoStampede'
      BY <1>3, <2>1 DEF Recheck, Return
    <3>4. CacheBounded' /\ KnownUnlessEvicted'
      BY <1>3, <2>1 DEF Recheck, Return
    <3> QED BY <3>1, <3>2, <3>3, <3>4
  <2>2. CASE cache[slot[t]] = NoLeader
    BY <1>3, <2>2 DEF Recheck
  <2> QED BY <2>1, <2>2
<1>4. CASE \E n \in 0 .. BATCH_SIZE : FetchOk(t, n)
  <2>1. PICK n \in 0 .. BATCH_SIZE : FetchOk(t, n)
    BY <1>4
  <2>2. leaders'[t] \in Seq(Pubkeys)
    BY <2>1, FetchAnswer
  <2>3. leaders' \in [Threads -> Seq(Pubkeys)]
    BY <2>1, <2>2 DEF FetchOk
  <2> QED BY <2>1, <2>3 DEF FetchOk
<1>5. CASE FetchErr(t)
  BY <1>5 DEF FetchErr, Return
<1>6. CASE Fill(t)
  <2>0. /\ cache' = evicted(inserted(cache, slot[t], leaders[t]))
        /\ slot[t] \in Slots /\ leaders[t] \in Seq(Pubkeys) /\ Lists(leaders[t], slot[t])
    BY <1>6 DEF Fill, Aligned
  <2>1. /\ cache' \in [Slots -> Pubkeys \cup {NoLeader}]
        /\ \A s \in Slots : cache'[s] \in {Schedule[s], NoLeader}
    BY <2>0, FillCoherent
  <2>2. \A u \in Threads : u # t => pc[u] # "fetch"
    BY <1>6 DEF Fill
  <2>3. TypeOK' /\ Coherent' /\ NoStampede'
    BY <1>6, <2>1, <2>2 DEF Fill
  <2>4. CacheBounded'
    BY <1>6, EvictedBounded DEF Fill
  <2>5. KnownUnlessEvicted'
    <3> SUFFICES ASSUME NEW u \in Threads, pc'[u] = "final", leaders'[u] # <<>>
                 PROVE  \/ cache'[slot'[u]] # NoLeader
                        \/ /\ Cardinality(cached(cache')) = MAX_CACHE_ENTRIES
                           /\ \A s \in cached(cache') : s > slot'[u]
      OBVIOUS
    <3>1. u = t
      BY <1>6 DEF Fill
    <3>2. slot' = slot /\ leaders' = leaders
      BY <1>6 DEF Fill
    <3>3. \/ cache'[slot[t]] # NoLeader
          \/ /\ Cardinality(cached(cache')) = MAX_CACHE_ENTRIES
             /\ \A s \in cached(cache') : s > slot[t]
      <4>1. leaders[t] # <<>>
        BY <3>1, <3>2
      <4> QED BY <2>0, <4>1, FillKnown
    <3> QED BY <3>1, <3>2, <3>3
  <2> QED BY <2>3, <2>4, <2>5
<1>7. CASE Final(t)
  BY <1>7 DEF Final, Return
<1> QED BY <1>1, <1>2, <1>3, <1>4, <1>5, <1>6, <1>7 DEF Step

LEMMA NextIInv == IInv /\ [Next]_vars => IInv'
<1> SUFFICES ASSUME IInv, [Next]_vars PROVE IInv'
  OBVIOUS
<1>1. CASE Next
  BY <1>1, CallIInv, StepIInv DEF Next
<1>2. CASE UNCHANGED vars
  BY <1>2 DEF vars, IInv, TypeOK, Aligned, Coherent, NoStampede, CacheBounded, KnownUnlessEvicted
<1> QED BY <1>1, <1>2

\* Every reachable state satisfies the invariant.
THEOREM Invariance == Spec => []IInv
BY InitIInv, NextIInv, PTL DEF Spec

(***************************************************************************)
(* Whatever threads, fetches, failures and evictions do, every pubkey of   *)
(* an answer is stored under the slot it leads, and leader_for_slot        *)
(* returns the leader of the slot it was asked for, or None.               *)
(***************************************************************************)
THEOREM NeverWrong == Spec => []Coherent
<1>1. IInv => Coherent
  BY DEF IInv
<1> QED BY Invariance, <1>1, PTL

(***************************************************************************)
(* The inflight mutex admits one fetch at a time, and only for a slot that *)
(* is missing from the cache at the moment of the fetch.                   *)
(***************************************************************************)
THEOREM OneFetch == Spec => []NoStampede
<1>1. IInv => NoStampede
  BY DEF IInv
<1> QED BY Invariance, <1>1, PTL

(***************************************************************************)
(* Whatever windows are fetched, the cache never holds more than           *)
(* MAX_CACHE_ENTRIES entries.                                              *)
(***************************************************************************)
THEOREM Bounded == Spec => []CacheBounded
<1>1. IInv => CacheBounded
  BY DEF IInv
<1> QED BY Invariance, <1>1, PTL

(***************************************************************************)
(* A call whose fetch brought its slot answers None only if the cache is   *)
(* full of higher slots: nothing another thread does comes between.        *)
(***************************************************************************)
THEOREM Known == Spec => []KnownUnlessEvicted
<1>1. IInv => KnownUnlessEvicted
  BY DEF IInv
<1> QED BY Invariance, <1>1, PTL

=============================================================================

---------------------------- MODULE AttestProofs ----------------------------
(***************************************************************************)
(* The delta of a slot and the hash of the account set, for every finite   *)
(* set of accounts, every LIMB and every number of changes.                *)
(***************************************************************************)
EXTENDS Attest, FiniteSetTheorems, WellFoundedInduction, TLAPS

-----------------------------------------------------------------------------
(***************************************************************************)
(* Limbs: the remainder of a division by LIMB.                             *)
(***************************************************************************)
LEMMA Limb == LIMB \in Nat /\ LIMB > 1
BY LimbAssumption

\* A multiple of LIMB is at least LIMB from a smaller one.
LEMMA Multiples ==
    ASSUME NEW u \in Int, NEW v \in Int, u > v
    PROVE  LIMB * u >= LIMB * v + LIMB /\ LIMB * u \in Int /\ LIMB * v \in Int
<1>1. PICK k \in Nat : u = v + 1 + k
  <2>1. u - v - 1 \in Nat /\ u = v + 1 + (u - v - 1)
    OBVIOUS
  <2> QED BY <2>1
<1>2. LIMB * u = LIMB * v + LIMB + LIMB * k
  BY <1>1, Limb
<1>3. LIMB * k >= 0 /\ LIMB * k \in Int /\ LIMB * v \in Int
  BY Limb
<1> QED BY <1>2, <1>3, Limb

LEMMA Divided ==
    ASSUME NEW x \in Int
    PROVE  x % LIMB \in 0 .. LIMB - 1 /\ \E k \in Int : x = LIMB * k + (x % LIMB)
<1>1. x % LIMB \in 0 .. LIMB - 1
  BY Limb
<1>2. x \div LIMB \in Int
  BY Limb
<1>3. x = LIMB * (x \div LIMB) + (x % LIMB)
  BY Limb
<1> QED BY <1>1, <1>2, <1>3

\* Numbers less than LIMB apart with the same remainder are equal.
LEMMA Close ==
    ASSUME NEW x \in Int, NEW y \in Int, x % LIMB = y % LIMB,
           x - y < LIMB, y - x < LIMB
    PROVE  x = y
<1>1. PICK k \in Int : x = LIMB * k + (x % LIMB)
  BY Divided
<1>2. PICK l \in Int : y = LIMB * l + (x % LIMB)
  BY Divided
<1>3. x % LIMB \in Int
  BY Limb
<1>4. CASE k > l
  BY <1>1, <1>2, <1>3, <1>4, Multiples, Limb
<1>5. CASE l > k
  BY <1>1, <1>2, <1>3, <1>5, Multiples, Limb
<1>6. CASE k = l
  BY <1>1, <1>2, <1>6
<1> QED BY <1>4, <1>5, <1>6

LEMMA Remainder ==
    ASSUME NEW k \in Int, NEW r \in 0 .. LIMB - 1
    PROVE  (LIMB * k + r) % LIMB = r
<1> DEFINE x == LIMB * k + r
           t == x % LIMB
<1>1. LIMB * k \in Int /\ x \in Int
  BY Limb
<1>2. t \in 0 .. LIMB - 1 /\ \E l \in Int : x = LIMB * l + t
  BY <1>1, Divided
<1>3. PICK l \in Int : LIMB * k + r = LIMB * l + t
  BY <1>2
<1> SUFFICES t = r
  OBVIOUS
<1> HIDE DEF t
<1>4. CASE k > l
  BY <1>2, <1>3, <1>4, Multiples, Limb
<1>5. CASE l > k
  BY <1>2, <1>3, <1>5, Multiples, Limb
<1>6. CASE k = l
  <2>1. LIMB * k + r = LIMB * k + t /\ r \in Int /\ t \in Int
    BY <1>2, <1>3, <1>6
  <2> QED BY <1>1, <2>1
<1> QED BY <1>4, <1>5, <1>6

LEMMA Reduced ==
    ASSUME NEW x \in 0 .. LIMB - 1
    PROVE  x % LIMB = x
<1>1. (LIMB * 0 + x) % LIMB = x
  BY Remainder
<1>2. LIMB * 0 + x = x
  BY Limb
<1> QED BY <1>1, <1>2

\* A sum may be reduced at any time.
LEMMA Wraps ==
    ASSUME NEW x \in Int, NEW d \in Int
    PROVE  ((x % LIMB) + d) % LIMB = (x + d) % LIMB
<1> DEFINE r == x % LIMB
           t == (r + d) % LIMB
<1>1. r \in Int
  BY Limb
<1>2. PICK k \in Int : x = LIMB * k + r
  BY Divided
<1> HIDE DEF r
<1>3. r + d \in Int
  BY <1>1
<1>4. t \in 0 .. LIMB - 1 /\ \E l \in Int : r + d = LIMB * l + t
  BY <1>3, Divided
<1>5. PICK l \in Int : r + d = LIMB * l + t
  BY <1>4
<1> HIDE DEF t
<1>6. x + d = LIMB * (k + l) + t
  <2>1. LIMB * (k + l) = LIMB * k + LIMB * l
    BY Limb
  <2>2. LIMB * k \in Int /\ LIMB * l \in Int
    BY Limb
  <2> QED BY <1>1, <1>2, <1>4, <1>5, <2>1, <2>2
<1>7. k + l \in Int
  OBVIOUS
<1>8. (LIMB * (k + l) + t) % LIMB = t
  BY <1>4, <1>7, Remainder
<1> QED BY <1>6, <1>8 DEF t, r

\* Taking out o and putting in n.
LEMMA Moved ==
    ASSUME NEW x \in Int, NEW o \in Int, NEW n \in Int
    PROVE  ((((x % LIMB) - o) % LIMB) + n) % LIMB = (x - o + n) % LIMB
<1>1. 0 - o \in Int /\ x - o \in Int /\ x % LIMB \in Int
  BY Limb
<1>2. ((x % LIMB) + (0 - o)) % LIMB = (x + (0 - o)) % LIMB
  BY <1>1, Wraps
<1>3. (x % LIMB) + (0 - o) = (x % LIMB) - o /\ x + (0 - o) = x - o
  BY <1>1
<1>4. (((x - o) % LIMB) + n) % LIMB = (x - o + n) % LIMB
  BY <1>1, Wraps
<1> QED BY <1>2, <1>3, <1>4

\* Adding the difference of y to x gives y.
LEMMA Added ==
    ASSUME NEW x \in Int, NEW y \in 0 .. LIMB - 1
    PROVE  (x + ((y - x) % LIMB)) % LIMB = y
<1>1. y - x \in Int /\ (y - x) % LIMB \in Int
  BY Limb
<1>2. (((y - x) % LIMB) + x) % LIMB = (y - x + x) % LIMB
  BY <1>1, Wraps
<1>3. y - x + x = y /\ ((y - x) % LIMB) + x = x + ((y - x) % LIMB)
  BY <1>1
<1> QED BY <1>2, <1>3, Reduced

-----------------------------------------------------------------------------
(***************************************************************************)
(* What a hash counts.                                                     *)
(***************************************************************************)
\* How often the live state a is account x: once or not at all.
is(x, a) == IF x = a /\ a.lamports # 0 THEN 1 ELSE 0

LEMMA IsOneOrNone ==
    ASSUME NEW x, NEW a
    PROVE  is(x, a) \in {0, 1}
BY DEF is

LEMMA HashIs ==
    ASSUME NEW x \in AccountForHash, NEW a \in AccountForHash
    PROVE  hash_account(x)[a] = is(x, a)
<1>1. CASE x.lamports = 0
  BY <1>1 DEF hash_account, identity, is
<1>2. CASE x.lamports # 0
  BY <1>2 DEF hash_account, is
<1> QED BY <1>1, <1>2

\* SlotDelta::mix at one account state.
LEMMA MixAt ==
    ASSUME NEW h, NEW a \in AccountForHash, h[a] \in 0 .. LIMB - 1,
           NEW old \in Option, NEW new \in Option
    PROVE  mix(h, old, new)[a] = (((h[a] - is(old, a)) % LIMB) + is(new, a)) % LIMB
<1> DEFINE out == IF old = NoAccount THEN h ELSE mix_out(h, hash_account(old))
           r == (h[a] - is(old, a)) % LIMB
<1>1. is(old, a) \in {0, 1} /\ is(new, a) \in {0, 1}
  BY IsOneOrNone
<1>2. r \in 0 .. LIMB - 1
  <2>1. h[a] - is(old, a) \in Int
    BY <1>1, Limb
  <2> HIDE DEF Option
  <2> QED BY <2>1, Limb
<1>3. out[a] = r
  <2>1. CASE old = NoAccount
    <3>1. is(old, a) = 0
      BY <2>1, NoAccountAssumption DEF is
    <3>2. h[a] - 0 = h[a] /\ h[a] % LIMB = h[a]
      BY Limb, Reduced
    <3> QED BY <2>1, <3>1, <3>2
  <2>2. CASE old # NoAccount
    <3>1. old \in AccountForHash
      BY <2>2 DEF Option
    <3> QED BY <2>2, <3>1, HashIs DEF mix_out
  <2> QED BY <2>1, <2>2
<1>4. mix(h, old, new) = IF new = NoAccount THEN out ELSE mix_in(out, hash_account(new))
  BY DEF mix
<1> HIDE DEF out, r
<1>5. CASE new = NoAccount
  <2>1. is(new, a) = 0
    BY <1>5, NoAccountAssumption DEF is
  <2>2. (r + 0) % LIMB = r
    BY <1>2, Limb, Reduced
  <2> QED BY <1>3, <1>4, <1>5, <2>1, <2>2 DEF r
<1>6. CASE new # NoAccount
  <2>1. new \in AccountForHash
    BY <1>6 DEF Option
  <2>2. mix_in(out, hash_account(new))[a] = (out[a] + is(new, a)) % LIMB
    BY <2>1, HashIs DEF mix_in
  <2> QED BY <1>3, <1>4, <1>6, <2>2 DEF r
<1> QED BY <1>5, <1>6

-----------------------------------------------------------------------------
(***************************************************************************)
(* Folds over a sequence.  FoldLeft is a CHOOSE of a function on sets of   *)
(* positions that takes away the last one; a function of that kind with a  *)
(* closed form shows that it exists, and the fold agrees with it.          *)
(***************************************************************************)
\* A set of naturals that is not empty has a least member.
LEMMA Least ==
    ASSUME NEW S \in SUBSET Nat, S # {}
    PROVE  \E x \in S : \A y \in S : x <= y
<1>1. IsWellFoundedOn(OpToRel(<, Nat), Nat)
  BY NatLessThanWellFounded
<1>2. PICK x \in S : \A y \in S : ~ (<<y, x>> \in OpToRel(<, Nat))
  BY <1>1, WFMin
<1>3. ASSUME NEW y \in S PROVE x <= y
  <2>1. ~ (y < x)
    BY <1>2 DEF OpToRel
  <2> QED BY <2>1
<1> QED BY <1>3

\* Positions have a last one.
LEMMA MaxIn ==
    ASSUME NEW n \in Nat, NEW s \in SUBSET (1 .. n), s # {}
    PROVE  Max(s) \in s
<1> DEFINE T == {n - x : x \in s}
<1>1. T \in SUBSET Nat /\ T # {}
  <2>1. ASSUME NEW x \in s PROVE n - x \in Nat
    <3>1. x \in Int /\ x <= n
      OBVIOUS
    <3> QED BY <3>1
  <2>2. PICK x : x \in s
    OBVIOUS
  <2>3. n - x \in T
    BY <2>2
  <2> QED BY <2>1, <2>3
<1> HIDE DEF T
<1>2. PICK t \in T : \A u \in T : t <= u
  BY <1>1, Least
<1>3. PICK x \in s : t = n - x
  BY DEF T
<1>4. ASSUME NEW y \in s PROVE x >= y
  <2>1. n - y \in T
    BY DEF T
  <2>2. n - x <= n - y
    BY <1>2, <1>3, <2>1
  <2>3. x \in Nat /\ y \in Nat
    OBVIOUS
  <2> QED BY <2>2, <2>3
<1> QED BY <1>4 DEF Max

LEMMA MaxTo ==
    ASSUME NEW n \in Nat \ {0}
    PROVE  Max(1 .. n) = n
<1>1. n \in 1 .. n /\ (\A y \in 1 .. n : n >= y)
  OBVIOUS
<1>2. \A x \in 1 .. n : (\A y \in 1 .. n : x >= y) => x = n
  OBVIOUS
<1> QED BY <1>1, <1>2 DEF Max

LEMMA Initial ==
    ASSUME NEW n \in Nat, NEW m \in 1 .. n
    PROVE  1 .. m \in SUBSET (1 .. n) /\ 1 .. m # {} /\ (1 .. m) \ {m} = 1 .. m - 1
<1>1. m \in Nat /\ 1 <= m /\ m <= n
  OBVIOUS
<1>2. 1 .. m \in SUBSET (1 .. n)
  BY <1>1
<1>3. m \in 1 .. m
  BY <1>1
<1>4. (1 .. m) \ {m} = 1 .. m - 1
  BY <1>1
<1> QED BY <1>2, <1>3, <1>4

\* Two functions on prefixes that take the same steps agree.
LEMMA Agree ==
    ASSUME NEW n \in Nat, NEW g, NEW w, g[{}] = w[{}],
           \A m \in 1 .. n : g[1 .. m - 1] = w[1 .. m - 1] => g[1 .. m] = w[1 .. m]
    PROVE  g[1 .. n] = w[1 .. n]
<1> DEFINE Bad == {m \in Nat : m <= n /\ g[1 .. m] # w[1 .. m]}
<1>1. Bad = {}
  <2> SUFFICES ASSUME Bad # {} PROVE FALSE
    OBVIOUS
  <2>1. PICK m \in Bad : \A y \in Bad : m <= y
    <3>1. Bad \in SUBSET Nat
      OBVIOUS
    <3> HIDE DEF Bad
    <3> QED BY <3>1, Least
  <2>2. m \in Nat /\ m <= n /\ g[1 .. m] # w[1 .. m]
    OBVIOUS
  <2>3. m # 0
    <3>1. 1 .. 0 = {}
      OBVIOUS
    <3> QED BY <2>2, <3>1
  <2>4. m - 1 \in Nat /\ m - 1 <= n /\ ~ (m <= m - 1) /\ m \in 1 .. n
    BY <2>2, <2>3
  <2>5. m - 1 \notin Bad
    <3> HIDE DEF Bad
    <3> QED BY <2>1, <2>4
  <2>6. g[1 .. m - 1] = w[1 .. m - 1]
    BY <2>4, <2>5
  <2> QED BY <2>2, <2>4, <2>6
<1>2. n \in Nat /\ n <= n /\ n \notin Bad
  BY <1>1
<1> QED BY <1>2

-----------------------------------------------------------------------------
(***************************************************************************)
(* The hash of an account set.                                             *)
(***************************************************************************)
\* SetToSeq lists every member of a finite set once.
LEMMA Listed ==
    ASSUME NEW S, IsFiniteSet(S)
    PROVE  /\ Cardinality(S) \in Nat
           /\ SetToSeq(S) \in [1 .. Cardinality(S) -> S]
           /\ \A i, j \in 1 .. Cardinality(S) : SetToSeq(S)[i] = SetToSeq(S)[j] => i = j
           /\ \A x \in S : \E i \in 1 .. Cardinality(S) : SetToSeq(S)[i] = x
<1> DEFINE n == Cardinality(S)
           f == SetToSeq(S)
<1>1. n \in Nat /\ ExistsBijection(1 .. n, S)
  BY FS_CardinalityType
<1>2. \E g \in [1 .. n -> S] : IsInjective(g)
  BY <1>1 DEF ExistsBijection, Bijection, Injection
<1>3. f \in [1 .. n -> S] /\ IsInjective(f)
  BY <1>2 DEF SetToSeq
<1> HIDE DEF f
<1>4. \A i, j \in 1 .. n : f[i] = f[j] => i = j
  BY <1>3 DEF IsInjective
<1> DEFINE R == {f[i] : i \in 1 .. n}
<1>5. R \in SUBSET S
  BY <1>3
<1>6. ExistsBijection(1 .. n, R)
  <2>1. f \in [1 .. n -> R]
    BY <1>3
  <2>2. f \in Injection(1 .. n, R)
    BY <1>3, <2>1 DEF Injection
  <2>3. \A r \in R : \E i \in 1 .. n : f[i] = r
    OBVIOUS
  <2>4. f \in Surjection(1 .. n, R)
    BY <2>1, <2>3 DEF Surjection
  <2> QED BY <2>2, <2>4 DEF ExistsBijection, Bijection
<1>7. Cardinality(R) = n
  BY <1>1, <1>6, FS_CountingElements
<1>8. R = S
  <2> HIDE DEF R
  <2> QED BY <1>5, <1>7, FS_Subset
<1> QED BY <1>1, <1>3, <1>4, <1>8 DEF f

\* The live states of an account set.
held(accts) ==
    [a \in AccountForHash |-> IF a.lamports # 0 /\ \E p \in AccountKeys : accts[p] = a THEN 1 ELSE 0]

LEMMA StateHash ==
    ASSUME NEW accts, \A p \in AccountKeys : accts[p] \in Option
    PROVE  state_lthash(accts) = held(accts)
<1> DEFINE S == {accts[p] : p \in AccountKeys}
           q == SetToSeq(S)
           n == Cardinality(S)
           add(h, x) == IF x = NoAccount THEN h ELSE mix_in(h, hash_account(x))
           body(g) == [s \in SUBSET (1 .. n) |->
                         IF s = {} THEN identity ELSE add(g[s \ {Max(s)}], q[Max(s)])]
           it == CHOOSE g : g = body(g)
           w == [s \in SUBSET (1 .. n) |->
                   [a \in AccountForHash |->
                      IF a.lamports # 0 /\ \E j \in s : q[j] = a THEN 1 ELSE 0]]
<1>1. IsFiniteSet(S)
  <2>1. [p \in AccountKeys |-> accts[p]] \in Surjection(AccountKeys, S)
    BY DEF Surjection
  <2> HIDE DEF S
  <2> QED BY <2>1, AccountKeysAssumption, FS_Surjection
<1>2. /\ n \in Nat /\ q \in [1 .. n -> S]
      /\ \A i, j \in 1 .. n : q[i] = q[j] => i = j
      /\ \A x \in S : \E i \in 1 .. n : q[i] = x
  <2> HIDE DEF S
  <2> QED BY <1>1, Listed
<1>3. state_lthash(accts) = it[1 .. n]
  <2>1. DOMAIN q = 1 .. n
    BY <1>2
  <2> QED BY <2>1 DEF state_lthash, FoldLeft, MapThenFoldSet
<1>4. S \subseteq Option
  OBVIOUS
<1> HIDE DEF S, q, n
<1>5. ASSUME NEW s \in SUBSET (1 .. n), s # {}
      PROVE  w[s] = add(w[s \ {Max(s)}], q[Max(s)])
  <2> DEFINE x == Max(s)
             t == s \ {x}
  <2>1. x \in s /\ x \in 1 .. n /\ q[x] \in Option
    BY <1>2, <1>4, <1>5, MaxIn
  <2>2. t \in SUBSET (1 .. n) /\ \A j \in t : q[j] # q[x]
    BY <1>2, <2>1
  <2> HIDE DEF x
  <2>3. \A a \in AccountForHash :
           w[s][a] = (IF a.lamports # 0 /\ \E j \in s : q[j] = a THEN 1 ELSE 0)
    OBVIOUS
  <2>4. \A a \in AccountForHash :
           w[t][a] = (IF a.lamports # 0 /\ \E j \in t : q[j] = a THEN 1 ELSE 0)
    BY <2>2
  <2>5. s = t \cup {x}
    BY <2>1
  <2>6. CASE q[x] = NoAccount
    <3>1. \A a \in AccountForHash : w[s][a] = w[t][a]
      BY <2>3, <2>4, <2>5, <2>6, NoAccountAssumption
    <3>2. w[s] = [a \in AccountForHash |-> w[s][a]] /\ w[t] = [a \in AccountForHash |-> w[t][a]]
      BY <2>2
    <3> HIDE DEF w, t
    <3>3. w[s] = w[t]
      BY <3>1, <3>2
    <3> QED BY <2>6, <3>3 DEF t, x
  <2>7. CASE q[x] # NoAccount
    <3>1. q[x] \in AccountForHash
      BY <2>1, <2>7 DEF Option
    <3>2. ASSUME NEW a \in AccountForHash
          PROVE  w[s][a] = (w[t][a] + hash_account(q[x])[a]) % LIMB
      <4>1. hash_account(q[x])[a] = is(q[x], a)
        BY <3>1, HashIs
      <4>2. 0 % LIMB = 0 /\ 1 % LIMB = 1
        BY Limb, Reduced
      <4>3. CASE q[x] = a /\ a.lamports # 0
        <5>1. w[t][a] = 0 /\ w[s][a] = 1 /\ is(q[x], a) = 1
          BY <2>1, <2>2, <2>3, <2>4, <4>3 DEF is
        <5> HIDE DEF w
        <5> QED BY <4>1, <4>2, <5>1
      <4>4. CASE ~ (q[x] = a /\ a.lamports # 0)
        <5>1. w[s][a] = w[t][a] /\ is(q[x], a) = 0
          BY <2>3, <2>4, <2>5, <4>4 DEF is
        <5>2. w[t][a] \in {0, 1}
          BY <2>4
        <5> HIDE DEF w
        <5> QED BY <4>1, <4>2, <5>1, <5>2
      <4> QED BY <4>3, <4>4
    <3>3. w[s] = [a \in AccountForHash |-> w[s][a]]
      OBVIOUS
    <3> HIDE DEF w, t
    <3>4. w[s] = mix_in(w[t], hash_account(q[x]))
      BY <3>2, <3>3 DEF mix_in
    <3> QED BY <2>7, <3>4 DEF t, x
  <2> QED BY <2>6, <2>7
<1>6. w[{}] = identity
  BY DEF identity
<1>7. w = [s \in SUBSET (1 .. n) |-> w[s]]
  OBVIOUS
<1>8. w[1 .. n] = held(accts)
  <2>1. \A a : (\E j \in 1 .. n : q[j] = a) <=> (\E p \in AccountKeys : accts[p] = a)
    <3>1. \A a : a \in S <=> \E p \in AccountKeys : accts[p] = a
      BY DEF S
    <3> QED BY <1>2, <3>1
  <2>2. w[1 .. n] = [a \in AccountForHash |->
                       IF a.lamports # 0 /\ \E j \in 1 .. n : q[j] = a THEN 1 ELSE 0]
    OBVIOUS
  <2> QED BY <2>1, <2>2 DEF held
<1> HIDE DEF w, add
<1>9. w = body(w)
  BY <1>5, <1>6, <1>7
<1>10. it = body(it)
  <2> HIDE DEF body
  <2> QED BY <1>9
<1> HIDE DEF it
<1>11. it[{}] = w[{}]
  BY <1>6, <1>10
<1>12. ASSUME NEW m \in 1 .. n, it[1 .. m - 1] = w[1 .. m - 1]
       PROVE  it[1 .. m] = w[1 .. m]
  <2>1. 1 .. m \in SUBSET (1 .. n) /\ 1 .. m # {} /\ (1 .. m) \ {m} = 1 .. m - 1
    BY <1>2, Initial
  <2>2. Max(1 .. m) = m
    BY <1>2, MaxTo
  <2>3. it[1 .. m] = add(it[1 .. m - 1], q[m])
    BY <1>10, <2>1, <2>2
  <2>4. w[1 .. m] = add(w[1 .. m - 1], q[m])
    BY <1>5, <2>1, <2>2
  <2> QED BY <1>12, <2>3, <2>4
<1>13. it[1 .. n] = w[1 .. n]
  BY <1>2, <1>11, <1>12, Agree
<1> QED BY <1>3, <1>8, <1>13

-----------------------------------------------------------------------------
(***************************************************************************)
(* The inductive invariant: every account is in a state of its own, and    *)
(* the delta is, state by state, what is held now less what was held at    *)
(* the start.  That accounts keep their own states is what makes a change  *)
(* of one account a change of its own states' limbs alone.                 *)
(***************************************************************************)
Owned(accts) == \A p \in AccountKeys : accts[p] \in states_of(p)

Difference ==
    \A a \in AccountForHash : delta[a] = (held(accounts)[a] - held(start)[a]) % LIMB

DInv ==
    /\ accounts \in [AccountKeys -> Option]
    /\ Owned(accounts)
    /\ Owned(start)
    /\ delta = [a \in AccountForHash |-> delta[a]]
    /\ Difference

\* An account set holds a if and only if the account of that name is a.
LEMMA HeldIs ==
    ASSUME NEW accts, Owned(accts), NEW a \in AccountForHash, a.pubkey \in AccountKeys
    PROVE  held(accts)[a] = is(accts[a.pubkey], a)
<1>1. \A p \in AccountKeys : accts[p] = a => p = a.pubkey
  BY NoAccountAssumption DEF Owned, states_of
<1> QED BY <1>1 DEF held, is

LEMMA NamesKnown ==
    ASSUME NEW a \in AccountForHash
    PROVE  a.pubkey \in AccountKeys
BY AccountAssumption

LEMMA OwnedOption ==
    ASSUME NEW p \in AccountKeys
    PROVE  states_of(p) \subseteq Option
BY DEF states_of, Option

LEMMA HeldOneOrNone ==
    ASSUME NEW accts, NEW a \in AccountForHash
    PROVE  held(accts)[a] \in {0, 1}
BY DEF held

\* SlotDelta::mix gives a hash with one limb for every account state.
LEMMA MixDomain ==
    ASSUME NEW h, h = [a \in AccountForHash |-> h[a]],
           NEW old \in Option, NEW new \in Option
    PROVE  mix(h, old, new) = [a \in AccountForHash |-> mix(h, old, new)[a]]
BY DEF mix, mix_in, mix_out

LEMMA InitDifference == Init => DInv
<1> SUFFICES ASSUME Init PROVE DInv
  OBVIOUS
<1>1. start \in [AccountKeys -> Option] /\ Owned(start)
  BY StartsAssumption DEF Init, Owned
<1>2. accounts = start /\ delta = identity
  BY DEF Init
<1>3. ASSUME NEW a \in AccountForHash
      PROVE  delta[a] = (held(accounts)[a] - held(start)[a]) % LIMB
  <2>1. held(start)[a] \in {0, 1}
    BY HeldOneOrNone
  <2>2. held(start)[a] - held(start)[a] = 0
    BY <2>1
  <2>3. 0 % LIMB = 0
    BY Limb, Reduced
  <2>4. identity[a] = 0
    BY DEF identity
  <2> QED BY <1>2, <2>2, <2>3, <2>4
<1>4. delta = [a \in AccountForHash |-> delta[a]]
  BY <1>2 DEF identity
<1> QED BY <1>1, <1>2, <1>3, <1>4 DEF DInv, Difference

LEMMA ChangeDifference ==
    ASSUME DInv, NEW p \in AccountKeys, NEW new \in states_of(p), Change(p, new)
    PROVE  DInv'
<1>1. /\ accounts' = [accounts EXCEPT ![p] = new]
      /\ delta' = mix(delta, accounts[p], new)
      /\ start' = start
  BY DEF Change
<1>2. accounts \in [AccountKeys -> Option] /\ new \in Option /\ accounts[p] \in Option
  BY OwnedOption DEF DInv
<1>3. accounts' \in [AccountKeys -> Option]
  BY <1>1, <1>2
<1>4. Owned(accounts')
  BY <1>1, <1>2 DEF DInv, Owned
<1>5. Owned(accounts) /\ Owned(start)
  BY DEF DInv
<1>6. delta' = [a \in AccountForHash |-> delta'[a]]
  BY <1>1, <1>2, MixDomain DEF DInv
<1>7. ASSUME NEW a \in AccountForHash
      PROVE  delta'[a] = (held(accounts')[a] - held(start)[a]) % LIMB
  <2> DEFINE x == held(start)[a]
             o == held(accounts)[a]
             n == held(accounts')[a]
  <2>1. a.pubkey \in AccountKeys
    BY NamesKnown
  <2>2. o = is(accounts[a.pubkey], a) /\ n = is(accounts'[a.pubkey], a)
    BY <1>4, <1>5, <2>1, HeldIs
  <2>3. x \in {0, 1} /\ o \in {0, 1} /\ n \in {0, 1}
    BY HeldOneOrNone
  <2>4. delta[a] = (o - x) % LIMB
    BY DEF DInv, Difference
  <2> HIDE DEF x
  <2> HIDE DEF o
  <2> HIDE DEF n
  <2>5. delta[a] \in 0 .. LIMB - 1
    <3>1. o - x \in Int
      BY <2>3
    <3> QED BY <2>4, <3>1, Limb
  <2>6. delta'[a] = (((delta[a] - is(accounts[p], a)) % LIMB) + is(new, a)) % LIMB
    BY <1>1, <1>2, <2>5, MixAt
  <2>7. CASE a.pubkey = p
    <3>1. is(accounts[p], a) = o /\ is(new, a) = n
      BY <1>1, <1>2, <2>2, <2>7
    <3>2. delta'[a] = (((((o - x) % LIMB) - o) % LIMB) + n) % LIMB
      BY <2>4, <2>6, <3>1
    <3>3. (((((o - x) % LIMB) - o) % LIMB) + n) % LIMB = (n - x) % LIMB
      BY <2>3, Moved
    <3> QED BY <3>2, <3>3 DEF n, x
  <2>8. CASE a.pubkey # p
    <3>1. is(accounts[p], a) = 0 /\ is(new, a) = 0
      BY <1>5, <2>8, NoAccountAssumption DEF Owned, states_of, is
    <3>2. o = n
      BY <1>1, <1>2, <2>1, <2>2, <2>8
    <3>3. delta[a] - 0 = delta[a] /\ delta[a] + 0 = delta[a] /\ delta[a] % LIMB = delta[a]
      BY <2>5, Limb, Reduced
    <3>4. delta'[a] = delta[a]
      BY <2>6, <3>1, <3>3
    <3> QED BY <2>4, <3>2, <3>4 DEF n, x
  <2> QED BY <2>7, <2>8
<1> QED BY <1>1, <1>3, <1>4, <1>5, <1>6, <1>7 DEF DInv, Difference

LEMMA NextDifference == DInv /\ [Next]_vars => DInv'
<1> SUFFICES ASSUME DInv, [Next]_vars PROVE DInv'
  OBVIOUS
<1>1. CASE UNCHANGED <<start, accounts, delta>>
  BY <1>1 DEF DInv, Difference
<1>2. ASSUME NEW p \in AccountKeys, NEW new \in states_of(p), Change(p, new)
      PROVE  DInv'
  BY <1>2, ChangeDifference
<1>3. ASSUME NEW intact \in BOOLEAN, Publish(intact)
      PROVE  DInv'
  BY <1>1, <1>3 DEF Publish
<1>4. ASSUME NEW ts, Verify(ts) \/ CmdVerifySlot(ts) \/ \E convertible \in BOOLEAN : VerifyJs(ts, convertible)
      PROVE  DInv'
  BY <1>1, <1>4 DEF Verify, CmdVerifySlot, VerifyJs
<1>5. CASE UNCHANGED vars
  BY <1>1, <1>5 DEF vars
<1> QED BY <1>2, <1>3, <1>4, <1>5 DEF Next

LEMMA DifferenceImplies == DInv => DeltaTracksState
<1> SUFFICES ASSUME DInv PROVE DeltaTracksState
  OBVIOUS
<1>1. state_lthash(accounts) = held(accounts) /\ state_lthash(start) = held(start)
  <2>1. \A p \in AccountKeys : accounts[p] \in Option /\ start[p] \in Option
    BY OwnedOption DEF DInv, Owned
  <2> QED BY <2>1, StateHash
<1>2. ASSUME NEW a \in AccountForHash
      PROVE  held(accounts)[a] = (held(start)[a] + delta[a]) % LIMB
  <2>1. held(accounts)[a] \in {0, 1} /\ held(start)[a] \in {0, 1}
    BY HeldOneOrNone
  <2>2. delta[a] = (held(accounts)[a] - held(start)[a]) % LIMB
    BY DEF DInv, Difference
  <2> DEFINE x == held(start)[a]
             y == held(accounts)[a]
  <2>3. x \in {0, 1} /\ y \in {0, 1} /\ delta[a] = (y - x) % LIMB
    BY <2>1, <2>2
  <2> HIDE DEF x, y
  <2>4. (x + ((y - x) % LIMB)) % LIMB = y
    <3>1. x \in Int /\ y \in 0 .. LIMB - 1
      BY <2>3, Limb
    <3> QED BY <3>1, Added
  <2>5. y = (x + delta[a]) % LIMB
    BY <2>3, <2>4, Limb
  <2> QED BY <2>5 DEF x, y
<1>3. held(accounts) = [a \in AccountForHash |-> held(accounts)[a]]
  BY DEF held
<1>4. held(accounts) = mix_in(held(start), delta)
  BY <1>2, <1>3 DEF mix_in
<1> QED BY <1>1, <1>4 DEF DeltaTracksState

(***************************************************************************)
(* "new_state_lthash = old_state_lthash + delta" for every slot: however   *)
(* many accounts there are and however often each is created, changed,     *)
(* closed or revived, SlotDelta::mix leaves the difference of the account  *)
(* sets' hashes, with every LIMB.                                          *)
(***************************************************************************)
THEOREM Tracked == Spec => []DeltaTracksState
<1>1. Spec => []DInv
  BY InitDifference, NextDifference, PTL DEF Spec
<1> QED BY <1>1, DifferenceImplies, PTL

-----------------------------------------------------------------------------
(***************************************************************************)
(* What verify_slot_delta sums up: of each state, how often it is put in   *)
(* less how often it is taken out, over the positions s of a list ts.      *)
(***************************************************************************)
entering(ts, s, a) == {j \in s : ts[j].new = a}
leaving(ts, s, a)  == {j \in s : ts[j].old = a}

sum(ts, s, a) ==
    IF a.lamports = 0 THEN 0
    ELSE Cardinality(entering(ts, s, a)) - Cardinality(leaving(ts, s, a))

limbs(ts, s) == [a \in AccountForHash |-> sum(ts, s, a) % LIMB]

LEMMA PositionsFinite ==
    ASSUME NEW n \in Nat, NEW s \in SUBSET (1 .. n)
    PROVE  IsFiniteSet(s)
<1>1. IsFiniteSet(1 .. n)
  BY FS_Interval
<1> QED BY <1>1, FS_Subset

LEMMA SumType ==
    ASSUME NEW s, IsFiniteSet(s), NEW ts, NEW a
    PROVE  sum(ts, s, a) \in Int
<1>1. entering(ts, s, a) \in SUBSET s /\ leaving(ts, s, a) \in SUBSET s
  BY DEF entering, leaving
<1>2. Cardinality(entering(ts, s, a)) \in Nat /\ Cardinality(leaving(ts, s, a)) \in Nat
  BY <1>1, FS_Subset, FS_CardinalityType
<1> QED BY <1>2 DEF sum

\* One position more or less.
LEMMA SumStep ==
    ASSUME NEW s, IsFiniteSet(s), NEW x \in s, NEW ts, NEW a
    PROVE  sum(ts, s, a) = sum(ts, s \ {x}, a) - is(ts[x].old, a) + is(ts[x].new, a)
<1> DEFINE E == entering(ts, s, a)
           L == leaving(ts, s, a)
           E0 == entering(ts, s \ {x}, a)
           L0 == leaving(ts, s \ {x}, a)
<1>1. E \in SUBSET s /\ L \in SUBSET s
  BY DEF entering, leaving
<1>2. E0 = E \ {x} /\ L0 = L \ {x}
  BY DEF entering, leaving
<1>3. (x \in E <=> ts[x].new = a) /\ (x \in L <=> ts[x].old = a)
  BY DEF entering, leaving
<1>4. sum(ts, s, a) = (IF a.lamports = 0 THEN 0 ELSE Cardinality(E) - Cardinality(L))
  BY DEF sum
<1>5. sum(ts, s \ {x}, a) = (IF a.lamports = 0 THEN 0 ELSE Cardinality(E0) - Cardinality(L0))
  BY DEF sum
<1> HIDE DEF E, L, E0, L0
<1>6. IsFiniteSet(E) /\ IsFiniteSet(L)
  BY <1>1, FS_Subset
<1>7. Cardinality(E) \in Nat /\ Cardinality(L) \in Nat
  BY <1>6, FS_CardinalityType
<1>8. /\ Cardinality(E0) = (IF ts[x].new = a THEN Cardinality(E) - 1 ELSE Cardinality(E))
      /\ Cardinality(L0) = (IF ts[x].old = a THEN Cardinality(L) - 1 ELSE Cardinality(L))
  BY <1>2, <1>3, <1>6, FS_RemoveElement
<1>9. CASE a.lamports = 0
  <2>1. is(ts[x].old, a) = 0 /\ is(ts[x].new, a) = 0
    BY <1>9 DEF is
  <2> QED BY <1>4, <1>5, <1>9, <2>1
<1>10. CASE a.lamports # 0
  <2>1. /\ is(ts[x].old, a) = (IF ts[x].old = a THEN 1 ELSE 0)
        /\ is(ts[x].new, a) = (IF ts[x].new = a THEN 1 ELSE 0)
    BY <1>10 DEF is
  <2>2. CASE ts[x].old = a
    BY <1>4, <1>5, <1>7, <1>8, <1>10, <2>1, <2>2
  <2>3. CASE ts[x].old # a
    BY <1>4, <1>5, <1>7, <1>8, <1>10, <2>1, <2>3
  <2> QED BY <2>2, <2>3
<1> QED BY <1>9, <1>10

LEMMA SumEmpty ==
    ASSUME NEW ts, NEW a
    PROVE  sum(ts, {}, a) = 0
<1>1. entering(ts, {}, a) = {} /\ leaving(ts, {}, a) = {}
  BY DEF entering, leaving
<1>2. Cardinality({}) = 0
  BY FS_EmptySet
<1> QED BY <1>1, <1>2 DEF sum

\* The fields of the transitions of a list.
LEMMA Transitions ==
    ASSUME NEW ts \in Seq(AccountTransition)
    PROVE  /\ Len(ts) \in Nat
           /\ DOMAIN ts = 1 .. Len(ts)
           /\ \A j \in 1 .. Len(ts) : ts[j].old \in Option /\ ts[j].new \in Option
<1>1. \A j \in 1 .. Len(ts) : ts[j] \in AccountTransition
  OBVIOUS
<1>2. \A t \in AccountTransition : t.old \in Option /\ t.new \in Option
  BY DEF AccountTransition
<1> QED BY <1>1, <1>2

\* SlotDelta::mix with the transition at position x.
LEMMA MixSum ==
    ASSUME NEW ts, NEW s, IsFiniteSet(s), NEW x \in s,
           ts[x].old \in Option, ts[x].new \in Option
    PROVE  mix(limbs(ts, s \ {x}), ts[x].old, ts[x].new) = limbs(ts, s)
<1> DEFINE w == limbs(ts, s \ {x})
           old == ts[x].old
           new == ts[x].new
           t == s \ {x}
<1>1. old \in Option /\ new \in Option
  OBVIOUS
<1>2. IsFiniteSet(t)
  BY FS_RemoveElement
<1>3. \A a : sum(ts, s, a) = sum(ts, t, a) - is(old, a) + is(new, a)
  BY SumStep
<1>4. w = [a \in AccountForHash |-> sum(ts, t, a) % LIMB]
  BY DEF limbs
<1> HIDE DEF w, t, old, new
<1>5. mix(w, old, new) = [a \in AccountForHash |-> mix(w, old, new)[a]]
  BY <1>1, <1>4, MixDomain
<1>6. ASSUME NEW a \in AccountForHash
      PROVE  mix(w, old, new)[a] = sum(ts, s, a) % LIMB
  <2> DEFINE y == sum(ts, t, a)
             o == is(old, a)
             m == is(new, a)
  <2>1. y \in Int
    BY <1>2, SumType
  <2>2. o \in Int /\ m \in Int
    BY IsOneOrNone
  <2>3. w[a] = y % LIMB /\ sum(ts, s, a) = y - o + m
    BY <1>3, <1>4
  <2> HIDE DEF y, o, m
  <2>4. w[a] \in 0 .. LIMB - 1
    BY <2>1, <2>3, Divided
  <2>5. mix(w, old, new)[a] = (((w[a] - is(old, a)) % LIMB) + is(new, a)) % LIMB
    BY <1>1, <2>4, MixAt
  <2>6. mix(w, old, new)[a] = ((((y % LIMB) - o) % LIMB) + m) % LIMB
    BY <2>3, <2>5 DEF o, m
  <2> QED BY <2>1, <2>2, <2>3, <2>6, Moved
<1>7. mix(w, old, new) = limbs(ts, s)
  BY <1>5, <1>6 DEF limbs
<1> QED BY <1>7 DEF w, old, new

\* The loop of verify_slot_delta computes the sums, reduced.
LEMMA Recomputed ==
    ASSUME NEW ts \in Seq(AccountTransition)
    PROVE  recompute(ts) = limbs(ts, 1 .. Len(ts))
<1> DEFINE n == Len(ts)
           step(h, t) == mix(h, t.old, t.new)
           body(g) == [s \in SUBSET (1 .. n) |->
                         IF s = {} THEN identity ELSE step(g[s \ {Max(s)}], ts[Max(s)])]
           it == CHOOSE g : g = body(g)
           w == [s \in SUBSET (1 .. n) |-> limbs(ts, s)]
<1>1. /\ n \in Nat /\ DOMAIN ts = 1 .. n
      /\ \A j \in 1 .. n : ts[j].old \in Option /\ ts[j].new \in Option
  BY Transitions
<1>2. recompute(ts) = it[1 .. n]
  BY <1>1 DEF recompute, FoldLeft, MapThenFoldSet
<1>3. w[1 .. n] = limbs(ts, 1 .. n)
  OBVIOUS
<1> HIDE DEF n
<1>4. ASSUME NEW s \in SUBSET (1 .. n), s # {}
      PROVE  w[s] = step(w[s \ {Max(s)}], ts[Max(s)])
  <2> DEFINE x == Max(s)
  <2>1. x \in s /\ ts[x].old \in Option /\ ts[x].new \in Option
    BY <1>1, <1>4, MaxIn
  <2>2. IsFiniteSet(s)
    BY <1>1, PositionsFinite
  <2> HIDE DEF x
  <2>3. w[s \ {x}] = limbs(ts, s \ {x}) /\ w[s] = limbs(ts, s)
    OBVIOUS
  <2> HIDE DEF w
  <2>4. w[s] = mix(w[s \ {x}], ts[x].old, ts[x].new)
    BY <2>1, <2>2, <2>3, MixSum
  <2> QED BY <2>4 DEF x
<1>5. w[{}] = identity
  <2>1. w[{}] = [a \in AccountForHash |-> sum(ts, {}, a) % LIMB]
    BY DEF limbs
  <2>2. 0 % LIMB = 0
    BY Limb, Reduced
  <2> HIDE DEF w
  <2> QED BY <2>1, <2>2, SumEmpty DEF identity
<1>6. w = [s \in SUBSET (1 .. n) |-> w[s]]
  OBVIOUS
<1> HIDE DEF w, step
<1>7. w = body(w)
  BY <1>4, <1>5, <1>6
<1>8. it = body(it)
  <2> HIDE DEF body
  <2> QED BY <1>7
<1> HIDE DEF it
<1>9. it[{}] = w[{}]
  BY <1>5, <1>8
<1>10. ASSUME NEW m \in 1 .. n, it[1 .. m - 1] = w[1 .. m - 1]
       PROVE  it[1 .. m] = w[1 .. m]
  <2>1. 1 .. m \in SUBSET (1 .. n) /\ 1 .. m # {} /\ (1 .. m) \ {m} = 1 .. m - 1
    BY <1>1, Initial
  <2>2. Max(1 .. m) = m
    BY <1>1, MaxTo
  <2>3. it[1 .. m] = step(it[1 .. m - 1], ts[m])
    BY <1>8, <2>1, <2>2
  <2>4. w[1 .. m] = step(w[1 .. m - 1], ts[m])
    BY <1>4, <2>1, <2>2
  <2> QED BY <1>10, <2>3, <2>4
<1>11. it[1 .. n] = w[1 .. n]
  BY <1>1, <1>9, <1>10, Agree
<1> QED BY <1>2, <1>3, <1>11 DEF n

\* One more transition in the list.
LEMMA Appended ==
    ASSUME NEW ts \in Seq(AccountTransition), NEW t \in AccountTransition
    PROVE  recompute(Append(ts, t)) = mix(recompute(ts), t.old, t.new)
<1> DEFINE us == Append(ts, t)
           l == Len(ts)
           s == 1 .. l + 1
           x == l + 1
<1>1. l \in Nat /\ us \in Seq(AccountTransition) /\ Len(us) = l + 1 /\ us[l + 1] = t
  BY Transitions
<1>2. \A j \in 1 .. l : us[j] = ts[j]
  OBVIOUS
<1> HIDE DEF us, l
<1>3. x \in s /\ s \ {x} = 1 .. l
  BY <1>1
<1>4. IsFiniteSet(s)
  BY <1>1, FS_Interval
<1>5. us[x].old \in Option /\ us[x].new \in Option /\ us[x] = t
  BY <1>1, <1>3, Transitions
<1>6. recompute(us) = limbs(us, s)
  BY <1>1, Recomputed
<1>7. \A a : sum(us, 1 .. l, a) = sum(ts, 1 .. l, a)
  <2>1. \A a : entering(us, 1 .. l, a) = entering(ts, 1 .. l, a)
    BY <1>2 DEF entering
  <2>2. \A a : leaving(us, 1 .. l, a) = leaving(ts, 1 .. l, a)
    BY <1>2 DEF leaving
  <2> QED BY <2>1, <2>2 DEF sum
<1>8. recompute(ts) = limbs(us, s \ {x})
  <2>1. recompute(ts) = limbs(ts, 1 .. l)
    BY Recomputed DEF l
  <2> QED BY <1>3, <1>7, <2>1 DEF limbs
<1> HIDE DEF s, x
<1>9. mix(recompute(ts), us[x].old, us[x].new) = limbs(us, s)
  BY <1>3, <1>4, <1>5, <1>8, MixSum
<1> QED BY <1>5, <1>6, <1>9 DEF us

-----------------------------------------------------------------------------
(***************************************************************************)
(* Lists that say the same.                                                *)
(***************************************************************************)
\* f pairs the positions A of ts with the positions B of us.
Pairs(f, ts, A, us, B) ==
    f \in Bijection(A, B) /\ \A j \in A : us[f[j]] = ts[j]

LEMMA PairedSum ==
    ASSUME NEW A, IsFiniteSet(A), NEW B, NEW ts, NEW us,
           NEW f, Pairs(f, ts, A, us, B), NEW a
    PROVE  sum(ts, A, a) = sum(us, B, a)
<1>1. /\ f \in [A -> B]
      /\ \A i, j \in A : f[i] = f[j] => i = j
      /\ \A k \in B : \E j \in A : f[j] = k
  BY DEF Pairs, Bijection, Injection, Surjection, IsInjective
<1>2. \A j \in A : us[f[j]] = ts[j]
  BY DEF Pairs
<1>3. ASSUME NEW C \in SUBSET A, NEW D \in SUBSET B,
             \A j \in A : j \in C <=> f[j] \in D
      PROVE  Cardinality(C) = Cardinality(D)
  <2> DEFINE g == [j \in C |-> f[j]]
  <2>1. g \in [C -> D]
    BY <1>1, <1>3
  <2>2. \A i, j \in C : g[i] = g[j] => i = j
    BY <1>1
  <2>3. \A k \in D : \E j \in C : g[j] = k
    BY <1>1, <1>3
  <2> HIDE DEF g
  <2>4. g \in Bijection(C, D)
    BY <2>1, <2>2, <2>3 DEF Bijection, Injection, Surjection, IsInjective
  <2>5. ExistsBijection(C, D)
    BY <2>4 DEF ExistsBijection
  <2>6. IsFiniteSet(C)
    BY FS_Subset
  <2> QED BY <2>5, <2>6, FS_Bijection
<1>4. Cardinality(entering(ts, A, a)) = Cardinality(entering(us, B, a))
  <2> DEFINE C == entering(ts, A, a)
             D == entering(us, B, a)
  <2>1. C \in SUBSET A /\ D \in SUBSET B /\ \A j \in A : j \in C <=> f[j] \in D
    BY <1>1, <1>2 DEF entering
  <2> HIDE DEF C, D
  <2>2. Cardinality(C) = Cardinality(D)
    BY <1>3, <2>1
  <2> QED BY <2>2 DEF C, D
<1>5. Cardinality(leaving(ts, A, a)) = Cardinality(leaving(us, B, a))
  <2> DEFINE C == leaving(ts, A, a)
             D == leaving(us, B, a)
  <2>1. C \in SUBSET A /\ D \in SUBSET B /\ \A j \in A : j \in C <=> f[j] \in D
    BY <1>1, <1>2 DEF leaving
  <2> HIDE DEF C, D
  <2>2. Cardinality(C) = Cardinality(D)
    BY <1>3, <2>1
  <2> QED BY <2>2 DEF C, D
<1> QED BY <1>4, <1>5 DEF sum

\* Where ts has the transition t.
spots(ts, t) == {n \in DOMAIN ts : ts[n] = t}

\* The same transitions equally often: one list is the other reordered.
LEMMA Reordered ==
    ASSUME NEW ts \in Seq(AccountTransition), NEW us \in Seq(AccountTransition),
           same_transitions(ts, us)
    PROVE  \E f : Pairs(f, ts, 1 .. Len(ts), us, 1 .. Len(us))
<1>1. /\ DOMAIN ts = 1 .. Len(ts) /\ Len(ts) \in Nat
      /\ DOMAIN us = 1 .. Len(us) /\ Len(us) \in Nat
  BY Transitions
<1>2. ASSUME NEW t \in Range(ts) \cup Range(us)
      PROVE  ExistsBijection(spots(ts, t), spots(us, t))
  <2>1. spots(ts, t) \in SUBSET (1 .. Len(ts)) /\ spots(us, t) \in SUBSET (1 .. Len(us))
    BY <1>1 DEF spots
  <2>2. IsFiniteSet(spots(ts, t)) /\ IsFiniteSet(spots(us, t))
    BY <1>1, <2>1, PositionsFinite
  <2>3. Cardinality(spots(ts, t)) = Cardinality(spots(us, t))
    BY DEF same_transitions, spots
  <2> QED BY <2>2, <2>3, FS_SameCardinalityBij
<1> DEFINE b(t) == CHOOSE g : g \in Bijection(spots(ts, t), spots(us, t))
           f == [j \in 1 .. Len(ts) |-> b(ts[j])[j]]
<1>3. ASSUME NEW t \in Range(ts) \cup Range(us)
      PROVE  /\ \A j \in spots(ts, t) : b(t)[j] \in spots(us, t)
             /\ \A i, j \in spots(ts, t) : b(t)[i] = b(t)[j] => i = j
             /\ \A k \in spots(us, t) : \E j \in spots(ts, t) : b(t)[j] = k
  <2>1. b(t) \in Bijection(spots(ts, t), spots(us, t))
    BY <1>2 DEF ExistsBijection
  <2> HIDE DEF b
  <2> QED BY <2>1 DEF Bijection, Injection, Surjection, IsInjective
<1> HIDE DEF b
<1>4. \A j \in 1 .. Len(ts) : ts[j] \in Range(ts) /\ j \in spots(ts, ts[j])
  BY <1>1 DEF Range, spots
<1>5. \A k \in 1 .. Len(us) : us[k] \in Range(us) /\ k \in spots(us, us[k])
  BY <1>1 DEF Range, spots
<1>6. ASSUME NEW j \in 1 .. Len(ts)
      PROVE  f[j] = b(ts[j])[j] /\ f[j] \in 1 .. Len(us) /\ us[f[j]] = ts[j]
  <2>1. f[j] = b(ts[j])[j]
    OBVIOUS
  <2>2. f[j] \in spots(us, ts[j])
    BY <1>3, <1>4, <2>1
  <2> QED BY <1>1, <2>1, <2>2 DEF spots
<1>7. f \in [1 .. Len(ts) -> 1 .. Len(us)]
  BY <1>6
<1> HIDE DEF f
<1>8. ASSUME NEW i \in 1 .. Len(ts), NEW j \in 1 .. Len(ts), f[i] = f[j]
      PROVE  i = j
  <2>1. ts[i] = ts[j]
    BY <1>6, <1>8
  <2>2. b(ts[i])[i] = b(ts[i])[j] /\ i \in spots(ts, ts[i]) /\ j \in spots(ts, ts[i])
    BY <1>4, <1>6, <1>8, <2>1
  <2> QED BY <1>3, <1>4, <2>2
<1>9. ASSUME NEW k \in 1 .. Len(us)
      PROVE  \E j \in 1 .. Len(ts) : f[j] = k
  <2>1. PICK j \in spots(ts, us[k]) : b(us[k])[j] = k
    BY <1>3, <1>5
  <2>2. j \in 1 .. Len(ts) /\ ts[j] = us[k]
    BY <1>1 DEF spots
  <2> QED BY <1>6, <2>1, <2>2
<1>10. f \in Bijection(1 .. Len(ts), 1 .. Len(us))
  BY <1>7, <1>8, <1>9 DEF Bijection, Injection, Surjection, IsInjective
<1>11. Pairs(f, ts, 1 .. Len(ts), us, 1 .. Len(us))
  BY <1>6, <1>10 DEF Pairs
<1> QED BY <1>11

LEMMA SameSum ==
    ASSUME NEW ts \in Seq(AccountTransition), NEW us \in Seq(AccountTransition),
           same_transitions(ts, us), NEW a
    PROVE  sum(ts, 1 .. Len(ts), a) = sum(us, 1 .. Len(us), a)
<1>1. PICK f : Pairs(f, ts, 1 .. Len(ts), us, 1 .. Len(us))
  BY Reordered
<1>2. IsFiniteSet(1 .. Len(ts))
  BY Transitions, FS_Interval
<1> QED BY <1>1, <1>2, PairedSum

\* A list without position n.
LEMMA RemovedSum ==
    ASSUME NEW ts \in Seq(AccountTransition), NEW n \in 1 .. Len(ts), NEW a
    PROVE  /\ RemoveAt(ts, n) \in Seq(AccountTransition)
           /\ sum(RemoveAt(ts, n), 1 .. Len(RemoveAt(ts, n)), a) = sum(ts, (1 .. Len(ts)) \ {n}, a)
<1> DEFINE us == RemoveAt(ts, n)
           l == Len(ts)
           f == [j \in 1 .. l - 1 |-> IF j < n THEN j ELSE j + 1]
<1>1. l \in Nat /\ n \in Nat /\ 1 <= n /\ n <= l
  OBVIOUS
<1>2. /\ us \in Seq(AccountTransition) /\ Len(us) = l - 1
      /\ \A j \in 1 .. l - 1 : us[j] = IF j < n THEN ts[j] ELSE ts[j + 1]
  <2> DEFINE u == SubSeq(ts, 1, n - 1)
             v == SubSeq(ts, n + 1, l)
  <2>1. /\ u \in Seq(AccountTransition) /\ Len(u) = n - 1
        /\ \A j \in 1 .. n - 1 : u[j] = ts[j]
    BY <1>1
  <2>2. /\ v \in Seq(AccountTransition) /\ Len(v) = l - n
        /\ \A j \in 1 .. l - n : v[j] = ts[n + j]
    BY <1>1
  <2>3. us = u \o v
    BY DEF RemoveAt
  <2> HIDE DEF u, v, us
  <2>4. us \in Seq(AccountTransition) /\ Len(us) = l - 1
    BY <1>1, <2>1, <2>2, <2>3
  <2>5. ASSUME NEW j \in 1 .. l - 1
        PROVE  us[j] = IF j < n THEN ts[j] ELSE ts[j + 1]
    <3>1. CASE j < n
      BY <1>1, <2>1, <2>2, <2>3, <3>1
    <3>2. CASE ~ (j < n)
      <4>1. us[j] = v[j - (n - 1)]
        BY <1>1, <2>1, <2>2, <2>3, <3>2
      <4>2. j - (n - 1) \in 1 .. l - n /\ n + (j - (n - 1)) = j + 1
        BY <1>1, <3>2
      <4>3. v[j - (n - 1)] = ts[n + (j - (n - 1))]
        BY <2>2, <4>2
      <4> QED BY <3>2, <4>1, <4>2, <4>3
    <3> QED BY <3>1, <3>2
  <2> QED BY <2>4, <2>5
<1> HIDE DEF us, l
<1>3. f \in [1 .. l - 1 -> (1 .. l) \ {n}]
  BY <1>1
<1>4. \A i, j \in 1 .. l - 1 : f[i] = f[j] => i = j
  BY <1>1
<1>5. ASSUME NEW k \in (1 .. l) \ {n}
      PROVE  \E j \in 1 .. l - 1 : f[j] = k
  <2>1. CASE k < n
    <3>1. k \in 1 .. l - 1 /\ f[k] = k
      BY <1>1, <2>1
    <3> QED BY <3>1
  <2>2. CASE ~ (k < n)
    <3>1. k - 1 \in 1 .. l - 1 /\ ~ (k - 1 < n) /\ k - 1 + 1 = k
      BY <1>1, <2>2
    <3>2. f[k - 1] = k
      BY <3>1
    <3> QED BY <3>1, <3>2
  <2> QED BY <2>1, <2>2
<1>6. \A j \in 1 .. l - 1 : ts[f[j]] = us[j]
  BY <1>2
<1> HIDE DEF f
<1>7. Pairs(f, us, 1 .. l - 1, ts, (1 .. l) \ {n})
  BY <1>3, <1>4, <1>5, <1>6 DEF Pairs, Bijection, Injection, Surjection, IsInjective
<1>8. IsFiniteSet(1 .. l - 1)
  BY <1>1, FS_Interval
<1>9. sum(us, 1 .. l - 1, a) = sum(ts, (1 .. l) \ {n}, a)
  BY <1>7, <1>8, PairedSum
<1> QED BY <1>2, <1>9 DEF us, l

\* What the hash sees of an account determines its live state.
LEMMA Seen ==
    ASSUME NEW x \in Option, NEW y \in Option,
           \A a \in AccountForHash : is(x, a) = is(y, a)
    PROVE  live(x) = live(y)
<1>1. ASSUME NEW u \in Option, NEW v \in Option, live(u) # NoAccount,
             \A a \in AccountForHash : is(u, a) = is(v, a)
      PROVE  u = v
  <2>1. u \in AccountForHash /\ u.lamports # 0
    BY <1>1 DEF live, Option
  <2>2. is(u, u) = 1
    BY <2>1 DEF is
  <2>3. is(v, u) = 1
    BY <1>1, <2>1, <2>2
  <2> QED BY <2>3 DEF is
<1>2. CASE live(x) # NoAccount
  <2>1. x = y
    BY <1>1, <1>2
  <2> QED BY <2>1
<1>3. CASE live(y) # NoAccount
  <2>1. y = x
    BY <1>1, <1>3
  <2> QED BY <2>1
<1> QED BY <1>2, <1>3

\* Another new state at one position that verifies is the same to the hash.
LEMMA Altered ==
    ASSUME NEW ts \in Seq(AccountTransition), NEW us \in Seq(AccountTransition),
           Len(ts) = Len(us), NEW n \in 1 .. Len(ts), ts[n].old = us[n].old,
           \A m \in (1 .. Len(ts)) \ {n} : ts[m] = us[m],
           recompute(ts) = recompute(us)
    PROVE  live(ts[n].new) = live(us[n].new)
<1> DEFINE l == Len(ts)
           s == (1 .. l) \ {n}
<1>1. IsFiniteSet(1 .. l) /\ IsFiniteSet(s)
  <2>1. l \in Nat
    BY Transitions
  <2>2. IsFiniteSet(1 .. l)
    BY <2>1, FS_Interval
  <2> HIDE DEF l
  <2> QED BY <2>2, FS_RemoveElement
<1>2. ASSUME NEW a \in AccountForHash
      PROVE  is(ts[n].new, a) = is(us[n].new, a)
  <2> DEFINE y == sum(ts, s, a)
             o == is(ts[n].old, a)
             u == is(ts[n].new, a)
             v == is(us[n].new, a)
  <2>1. sum(ts, s, a) = sum(us, s, a)
    <3>1. entering(ts, s, a) = entering(us, s, a) /\ leaving(ts, s, a) = leaving(us, s, a)
      BY DEF entering, leaving
    <3> QED BY <3>1 DEF sum
  <2>2. sum(ts, 1 .. l, a) = y - o + u
    BY <1>1, SumStep
  <2>3. sum(us, 1 .. l, a) = y - o + v
    BY <1>1, <2>1, SumStep
  <2>4. sum(ts, 1 .. l, a) % LIMB = sum(us, 1 .. l, a) % LIMB
    BY Recomputed DEF limbs
  <2>5. y \in Int /\ o \in {0, 1} /\ u \in {0, 1} /\ v \in {0, 1}
    BY <1>1, SumType, IsOneOrNone
  <2> HIDE DEF y, o, u, v
  <2>6. (y - o + u) % LIMB = (y - o + v) % LIMB
    BY <2>2, <2>3, <2>4
  <2>7. /\ y - o + u \in Int /\ y - o + v \in Int
        /\ (y - o + u) - (y - o + v) < LIMB /\ (y - o + v) - (y - o + u) < LIMB
    BY <2>5, Limb
  <2>8. y - o + u = y - o + v
    BY <2>6, <2>7, Close
  <2>9. u = v
    BY <2>5, <2>8
  <2> QED BY <2>9 DEF u, v
<1>3. ts[n].new \in Option /\ us[n].new \in Option
  BY Transitions
<1> QED BY <1>2, <1>3, Seen

\* A transition added to the others that verifies is nothing to the hash.
LEMMA Extra ==
    ASSUME NEW ts \in Seq(AccountTransition), NEW us \in Seq(AccountTransition),
           NEW n \in 1 .. Len(ts), same_transitions(RemoveAt(ts, n), us),
           recompute(ts) = recompute(us)
    PROVE  live(ts[n].old) = live(ts[n].new)
<1> DEFINE l == Len(ts)
           s == (1 .. l) \ {n}
<1>1. IsFiniteSet(1 .. l) /\ IsFiniteSet(s)
  <2>1. l \in Nat
    BY Transitions
  <2>2. IsFiniteSet(1 .. l)
    BY <2>1, FS_Interval
  <2> HIDE DEF l
  <2> QED BY <2>2, FS_RemoveElement
<1>2. ASSUME NEW a \in AccountForHash
      PROVE  is(ts[n].old, a) = is(ts[n].new, a)
  <2> DEFINE y == sum(ts, s, a)
             o == is(ts[n].old, a)
             u == is(ts[n].new, a)
  <2>1. sum(ts, 1 .. l, a) = y - o + u
    BY <1>1, SumStep
  <2>2. sum(us, 1 .. Len(us), a) = y
    <3>1. /\ RemoveAt(ts, n) \in Seq(AccountTransition)
          /\ sum(RemoveAt(ts, n), 1 .. Len(RemoveAt(ts, n)), a) = y
      BY RemovedSum
    <3> QED BY <3>1, SameSum
  <2>3. sum(ts, 1 .. l, a) % LIMB = sum(us, 1 .. Len(us), a) % LIMB
    BY Recomputed DEF limbs
  <2>4. y \in Int /\ o \in {0, 1} /\ u \in {0, 1}
    BY <1>1, SumType, IsOneOrNone
  <2> HIDE DEF y, o, u
  <2>5. (y - o + u) % LIMB = y % LIMB
    BY <2>1, <2>2, <2>3
  <2>6. y - o + u \in Int /\ (y - o + u) - y < LIMB /\ y - (y - o + u) < LIMB
    BY <2>4, Limb
  <2>7. y - o + u = y
    BY <2>4, <2>5, <2>6, Close
  <2>8. o = u
    BY <2>4, <2>7
  <2> QED BY <2>8 DEF o, u
<1>3. ts[n].old \in Option /\ ts[n].new \in Option
  BY Transitions
<1> QED BY <1>2, <1>3, Seen

-----------------------------------------------------------------------------
(***************************************************************************)
(* The inductive invariant of the verifier: the delta is what the list of  *)
(* the slot's transitions sums up to, and a verdict and an exit code are   *)
(* about the delta and the list as they still are, since neither changes   *)
(* after the attestation is published.                                     *)
(***************************************************************************)
Empty(t) == t.old = NoAccount /\ t.new = NoAccount

Logged ==
    /\ log \in Seq(AccountTransition)
    /\ \A n \in DOMAIN log : ~ Empty(log[n])
    /\ delta = recompute(log)

Judged ==
    /\ claims \in Seq(AccountTransition)
    /\ verdict = "Ok" => recompute(claims) = delta /\ \A n \in DOMAIN claims : ~ Empty(claims[n])
    /\ verdict = "DeltaMismatch" => recompute(claims) # delta
    /\ attestation = "none" => verdict = "none"
    /\ verdict = "none" => exit = "none"
    /\ exit # "none" => exit = IF claims = log THEN "SUCCESS" ELSE "2"

VInv == DInv /\ Logged /\ Judged

LEMMA VerdictOk ==
    ASSUME NEW intact, NEW ts, NEW h, verify_slot_delta(intact, h, ts) = "Ok"
    PROVE  recompute(ts) = h /\ \A n \in DOMAIN ts : ~ Empty(ts[n])
BY DEF verify_slot_delta, Empty

LEMMA VerdictMismatch ==
    ASSUME NEW intact, NEW ts, NEW h, verify_slot_delta(intact, h, ts) = "DeltaMismatch"
    PROVE  recompute(ts) # h
BY DEF verify_slot_delta

LEMMA VerdictNone ==
    ASSUME NEW intact, NEW ts, NEW h
    PROVE  verify_slot_delta(intact, h, ts) # "none"
BY DEF verify_slot_delta

LEMMA InitVerifier == Init => VInv
<1> SUFFICES ASSUME Init PROVE VInv
  OBVIOUS
<1>1. log = <<>> /\ claims = <<>> /\ delta = identity
  BY DEF Init
<1>2. \A q : q = <<>> => q \in Seq(AccountTransition) /\ Len(q) = 0
  OBVIOUS
<1>3. log \in Seq(AccountTransition) /\ Len(log) = 0 /\ claims \in Seq(AccountTransition)
  BY <1>1, <1>2
<1>4. DOMAIN log = {}
  BY <1>3
<1>5. recompute(log) = identity
  <2>1. recompute(log) = [a \in AccountForHash |-> sum(log, 1 .. Len(log), a) % LIMB]
    BY <1>3, Recomputed DEF limbs
  <2>2. 1 .. Len(log) = {}
    BY <1>3
  <2>3. 0 % LIMB = 0
    BY Limb, Reduced
  <2> QED BY <2>1, <2>2, <2>3, SumEmpty DEF identity
<1>6. Logged
  BY <1>1, <1>3, <1>4, <1>5 DEF Logged
<1>7. Judged
  BY <1>3 DEF Init, Judged
<1> QED BY <1>6, <1>7, InitDifference DEF VInv

\* The list of the slot verifies.
LEMMA TrueListVerifies ==
    ASSUME Logged
    PROVE  verify_slot_delta(TRUE, delta, log) = "Ok"
BY DEF Logged, verify_slot_delta, Empty

\* A list that CmdVerifySlot tampered with does not.
LEMMA TamperedListFails ==
    ASSUME Logged, NEW ts \in tampered
    PROVE  /\ ts \in Seq(AccountTransition)
           /\ ts # log
           /\ verify_slot_delta(TRUE, delta, ts) = "DeltaMismatch"
<1>1. PICK n \in DOMAIN log : \E b \in AccountForHash :
         /\ log[n].new # NoAccount
         /\ b # log[n].new /\ b.lamports = log[n].new.lamports /\ b.lamports > 0
         /\ ts = [log EXCEPT ![n] = [log[n] EXCEPT !.new = b]]
  BY DEF tampered
<1>2. PICK b \in AccountForHash :
         /\ log[n].new # NoAccount
         /\ b # log[n].new /\ b.lamports = log[n].new.lamports /\ b.lamports > 0
         /\ ts = [log EXCEPT ![n] = [log[n] EXCEPT !.new = b]]
  BY <1>1
<1> DEFINE t == [log[n] EXCEPT !.new = b]
<1>3. log \in Seq(AccountTransition) /\ n \in 1 .. Len(log) /\ log[n] \in AccountTransition
  BY DEF Logged
<1>4. t \in AccountTransition /\ t.new = b /\ t.old = log[n].old
  BY <1>3 DEF AccountTransition, Option
<1> HIDE DEF t
<1>5. ts = [log EXCEPT ![n] = t]
  BY <1>2 DEF t
<1>6. /\ ts \in Seq(AccountTransition) /\ Len(ts) = Len(log) /\ DOMAIN ts = DOMAIN log
      /\ ts[n] = t /\ \A m \in (1 .. Len(ts)) \ {n} : ts[m] = log[m]
  BY <1>3, <1>4, <1>5
<1>7. b # NoAccount
  BY NoAccountAssumption
<1>8. \A m \in DOMAIN ts : ~ Empty(ts[m])
  <2>1. \A m \in DOMAIN log : ~ Empty(log[m])
    BY DEF Logged
  <2> QED BY <1>3, <1>4, <1>6, <1>7, <2>1 DEF Empty
<1>9. live(b) = b /\ live(log[n].new) = log[n].new
  BY <1>2, <1>7, AccountAssumption DEF live
<1>10. recompute(ts) # recompute(log)
  <2> SUFFICES ASSUME recompute(ts) = recompute(log) PROVE FALSE
    OBVIOUS
  <2>1. live(ts[n].new) = live(log[n].new)
    BY <1>3, <1>4, <1>6, Altered
  <2> QED BY <1>2, <1>4, <1>6, <1>9, <2>1
<1>11. verify_slot_delta(TRUE, delta, ts) = "DeltaMismatch"
  BY <1>8, <1>10 DEF Logged, verify_slot_delta, Empty
<1> QED BY <1>2, <1>4, <1>6, <1>11

LEMMA ChangeVerifier ==
    ASSUME VInv, NEW p \in AccountKeys, NEW new \in states_of(p), Change(p, new)
    PROVE  Logged' /\ Judged'
<1> DEFINE t == [old |-> accounts[p], new |-> new]
<1>1. /\ log' = Append(log, t) /\ delta' = mix(delta, accounts[p], new)
      /\ attestation = "none" /\ UNCHANGED <<attestation, claims, verdict, exit>>
      /\ accounts[p] # NoAccount \/ new # NoAccount
  BY DEF Change
<1>2. accounts[p] \in Option /\ new \in Option
  BY OwnedOption DEF VInv, DInv
<1>3. t \in AccountTransition /\ t.old = accounts[p] /\ t.new = new /\ ~ Empty(t)
  BY <1>1, <1>2 DEF AccountTransition, Empty
<1> HIDE DEF t
<1>4. log \in Seq(AccountTransition) /\ delta = recompute(log) /\ \A n \in DOMAIN log : ~ Empty(log[n])
  BY DEF VInv, Logged
<1>5. log' \in Seq(AccountTransition) /\ \A n \in DOMAIN log' : log'[n] = t \/ (n \in DOMAIN log /\ log'[n] = log[n])
  BY <1>1, <1>3, <1>4
<1>6. delta' = recompute(log')
  BY <1>1, <1>3, <1>4, Appended
<1>7. \A n \in DOMAIN log' : ~ Empty(log'[n])
  BY <1>3, <1>4, <1>5
<1>8. Logged'
  BY <1>5, <1>6, <1>7 DEF Logged
<1>9. Judged'
  <2>1. verdict = "none" /\ exit = "none" /\ claims \in Seq(AccountTransition)
    BY <1>1 DEF VInv, Judged
  <2> QED BY <1>1, <2>1 DEF Judged
<1> QED BY <1>8, <1>9

\* A verdict on a list of transitions, by whichever front end.
LEMMA JudgeVerifier ==
    ASSUME VInv, NEW ts \in Seq(AccountTransition), attestation # "none", verdict = "none",
           claims' = ts,
           verdict' \in {"ParseError", verify_slot_delta(attestation = "delta", delta, ts)},
           UNCHANGED <<log, delta, attestation, exit>>
    PROVE  Logged' /\ Judged'
<1>1. Logged'
  BY DEF VInv, Logged
<1>2. exit = "none" /\ exit' = "none"
  BY DEF VInv, Judged
<1>3. verdict' = "Ok" => recompute(ts) = delta /\ \A n \in DOMAIN ts : ~ Empty(ts[n])
  BY VerdictOk
<1>4. verdict' = "DeltaMismatch" => recompute(ts) # delta
  BY VerdictMismatch
<1>5. Judged'
  BY <1>2, <1>3, <1>4 DEF Judged
<1> QED BY <1>1, <1>5

LEMMA CmdVerifier ==
    ASSUME VInv, NEW ts \in {log} \cup tampered, CmdVerifySlot(ts)
    PROVE  Logged' /\ Judged'
<1>1. /\ attestation = "delta" /\ UNCHANGED <<log, delta, attestation>>
      /\ claims' = ts /\ verdict' = verify_slot_delta(TRUE, delta, ts)
      /\ exit' = CASE verdict' = "Ok" -> "SUCCESS"
                   [] verdict' = "DeltaMismatch" -> "2"
                   [] OTHER -> "FAILURE"
  BY DEF CmdVerifySlot
<1>2. Logged /\ Logged'
  BY <1>1 DEF VInv, Logged
<1>3. CASE ts = log
  <2>1. verdict' = "Ok" /\ exit' = "SUCCESS"
    BY <1>1, <1>2, <1>3, TrueListVerifies
  <2>2. recompute(ts) = delta /\ \A n \in DOMAIN ts : ~ Empty(ts[n])
    BY <1>2, <1>3 DEF Logged
  <2>3. ts \in Seq(AccountTransition) /\ claims' = log'
    BY <1>1, <1>2, <1>3 DEF Logged
  <2> QED BY <1>1, <1>2, <2>1, <2>2, <2>3 DEF Judged
<1>4. CASE ts \in tampered
  <2>1. ts \in Seq(AccountTransition) /\ ts # log /\ verdict' = "DeltaMismatch"
    BY <1>1, <1>2, <1>4, TamperedListFails
  <2>2. exit' = "2" /\ claims' # log'
    BY <1>1, <2>1
  <2>3. recompute(ts) # delta
    BY <1>1, <2>1, VerdictMismatch
  <2> QED BY <1>1, <1>2, <2>1, <2>2, <2>3 DEF Judged
<1> QED BY <1>3, <1>4

LEMMA NextVerifier == VInv /\ [Next]_vars => VInv'
<1> SUFFICES ASSUME VInv, [Next]_vars PROVE Logged' /\ Judged'
  BY NextDifference DEF VInv
<1>1. ASSUME NEW p \in AccountKeys, NEW new \in states_of(p), Change(p, new)
      PROVE  Logged' /\ Judged'
  BY <1>1, ChangeVerifier
<1>2. ASSUME NEW intact \in BOOLEAN, Publish(intact)
      PROVE  Logged' /\ Judged'
  <2>1. UNCHANGED <<log, delta, claims, verdict, exit>> /\ attestation' # "none"
    BY <1>2 DEF Publish
  <2> QED BY <2>1 DEF VInv, Logged, Judged
<1>3. ASSUME NEW n \in 0 .. MaxClaims, NEW ts \in [1 .. n -> AccountTransition],
             Verify(ts) \/ \E convertible \in BOOLEAN : VerifyJs(ts, convertible)
      PROVE  Logged' /\ Judged'
  <2>1. n \in Nat
    OBVIOUS
  <2>2. ts \in Seq(AccountTransition)
    BY <2>1
  <2>3. /\ attestation # "none" /\ verdict = "none" /\ claims' = ts
        /\ UNCHANGED <<log, delta, attestation, exit>>
    BY <1>3 DEF Verify, VerifyJs
  <2>4. verdict' \in {"ParseError", verify_slot_delta(attestation = "delta", delta, ts)}
    BY <1>3 DEF Verify, VerifyJs
  <2> QED BY <2>2, <2>3, <2>4, JudgeVerifier
<1>4. ASSUME NEW ts \in {log} \cup tampered, CmdVerifySlot(ts)
      PROVE  Logged' /\ Judged'
  BY <1>4, CmdVerifier
<1>5. CASE UNCHANGED vars
  BY <1>5 DEF VInv, Logged, Judged, vars
<1> QED BY <1>1, <1>2, <1>3, <1>4, <1>5 DEF Next

\* What SlotDelta, the published attestation, verify_slot_delta and verify-slot
\* leave behind agrees in every reachable state.
THEOREM VerifierInvariance == Spec => []VInv
BY InitVerifier, NextVerifier, PTL DEF Spec

LEMMA TamperImplied == VInv => TamperNoticed
<1> SUFFICES ASSUME VInv PROVE TamperNoticed
  OBVIOUS
<1>1. claims \in Seq(AccountTransition) /\ log \in Seq(AccountTransition)
  BY DEF VInv, Logged, Judged
<1>2. ASSUME verdict = "Ok", NEW n \in DOMAIN claims, alters(n)
      PROVE  live(claims[n].new) = live(log[n].new)
  <2>1. recompute(claims) = recompute(log)
    BY <1>2 DEF VInv, Logged, Judged
  <2>2. DOMAIN claims = 1 .. Len(claims) /\ DOMAIN log = 1 .. Len(log)
    BY <1>1, Transitions
  <2>3. /\ Len(claims) = Len(log) /\ claims[n].old = log[n].old
        /\ \A m \in (1 .. Len(claims)) \ {n} : claims[m] = log[m]
    BY <1>2, <2>2 DEF alters
  <2> QED BY <1>1, <2>1, <2>2, <2>3, Altered
<1>3. ASSUME verdict = "Ok", NEW n \in DOMAIN claims, adds(n)
      PROVE  live(claims[n].old) = live(claims[n].new)
  <2>1. recompute(claims) = recompute(log)
    BY <1>3 DEF VInv, Logged, Judged
  <2>2. n \in 1 .. Len(claims)
    BY <1>1, Transitions
  <2> QED BY <1>1, <1>3, <2>1, <2>2, Extra DEF adds
<1>4. exit # "none" => exit = IF claims = log THEN "SUCCESS" ELSE "2"
  BY DEF VInv, Judged
<1> QED BY <1>2, <1>3, <1>4 DEF TamperNoticed

(***************************************************************************)
(* A replaced new state or an added transition that verify_slot_delta      *)
(* accepts is one that the hash does not see, and verify-slot exits with 0 *)
(* on the true list and 2 on a tampered one, for lists of every length.    *)
(***************************************************************************)
THEOREM Tampering == Spec => []TamperNoticed
BY VerifierInvariance, TamperImplied, PTL

-----------------------------------------------------------------------------
(***************************************************************************)
(* A list of one effective transition per account that verifies.  Its sums *)
(* are -1, 0 or 1, as are the differences that the delta holds: limbs that *)
(* tell -1 from 1 tell all of them apart.                                  *)
(***************************************************************************)
\* The account of a transition.
owner(t) == IF t.old # NoAccount THEN t.old.pubkey ELSE t.new.pubkey

\* proper, with the account of a transition by its name.
Proper(ts) ==
    /\ \A n \in DOMAIN ts :
          /\ live(ts[n].old) # live(ts[n].new)
          /\ ts[n].old = NoAccount \/ ts[n].new = NoAccount
                \/ ts[n].old.pubkey = ts[n].new.pubkey
    /\ \A m, n \in DOMAIN ts : owner(ts[m]) = owner(ts[n]) => m = n

LEMMA ProperIs ==
    ASSUME NEW ts, proper(ts)
    PROVE  Proper(ts)
BY DEF proper, Proper, owner

\* A state in a transition is a state of the transition's account.
LEMMA OwnerIs ==
    ASSUME NEW ts, Proper(ts), NEW n \in DOMAIN ts, NEW a \in AccountForHash,
           ts[n].old = a \/ ts[n].new = a
    PROVE  owner(ts[n]) = a.pubkey
BY NoAccountAssumption DEF Proper, owner

LEMMA OwnerKnown ==
    ASSUME NEW t, t.old \in Option, t.new \in Option, ~ Empty(t)
    PROVE  owner(t) \in AccountKeys
BY AccountAssumption DEF owner, Empty, Option

\* The sum of a state over positions where it does not occur.
LEMMA SumNothing ==
    ASSUME NEW ts, NEW s, NEW a, \A j \in s : ts[j].old # a /\ ts[j].new # a
    PROVE  sum(ts, s, a) = 0
<1>1. entering(ts, s, a) = {} /\ leaving(ts, s, a) = {}
  BY DEF entering, leaving
<1>2. Cardinality({}) = 0
  BY FS_EmptySet
<1> QED BY <1>1, <1>2 DEF sum

LEMMA SumOnce ==
    ASSUME NEW ts \in Seq(AccountTransition), Proper(ts), NEW n \in 1 .. Len(ts),
           NEW a \in AccountForHash, owner(ts[n]) = a.pubkey
    PROVE  sum(ts, 1 .. Len(ts), a) = is(ts[n].new, a) - is(ts[n].old, a)
<1> DEFINE s == 1 .. Len(ts)
<1>1. IsFiniteSet(s) /\ DOMAIN ts = s
  BY Transitions, FS_Interval
<1>2. n \in s
  OBVIOUS
<1> HIDE DEF s
<1>3. ASSUME NEW j \in s \ {n}
      PROVE  ts[j].old # a /\ ts[j].new # a
  <2>1. owner(ts[j]) # a.pubkey
    BY <1>1, <1>2 DEF Proper
  <2> QED BY <1>1, <2>1, OwnerIs
<1>4. sum(ts, s \ {n}, a) = 0
  BY <1>3, SumNothing
<1>5. sum(ts, s, a) = sum(ts, s \ {n}, a) - is(ts[n].old, a) + is(ts[n].new, a)
  BY <1>1, <1>2, SumStep
<1>6. is(ts[n].old, a) \in {0, 1} /\ is(ts[n].new, a) \in {0, 1}
  BY IsOneOrNone
<1>7. sum(ts, s, a) = is(ts[n].new, a) - is(ts[n].old, a)
  BY <1>4, <1>5, <1>6
<1> QED BY <1>7 DEF s

LEMMA SumNever ==
    ASSUME NEW ts \in Seq(AccountTransition), Proper(ts), NEW a \in AccountForHash,
           \A n \in 1 .. Len(ts) : owner(ts[n]) # a.pubkey
    PROVE  sum(ts, 1 .. Len(ts), a) = 0
<1>1. DOMAIN ts = 1 .. Len(ts)
  BY Transitions
<1>2. \A j \in 1 .. Len(ts) : ts[j].old # a /\ ts[j].new # a
  BY <1>1, OwnerIs
<1> QED BY <1>2, SumNothing

\* What a verified list of that kind sums up to, without the modulus.
LEMMA NetSum ==
    ASSUME VInv, verdict = "Ok", Proper(claims), LIMB > 2, NEW a \in AccountForHash
    PROVE  sum(claims, 1 .. Len(claims), a)
             = is(accounts[a.pubkey], a) - is(start[a.pubkey], a)
<1> DEFINE x == is(start[a.pubkey], a)
           y == is(accounts[a.pubkey], a)
           z == sum(claims, 1 .. Len(claims), a)
<1>1. claims \in Seq(AccountTransition) /\ recompute(claims) = delta
  BY DEF VInv, Judged
<1>2. delta[a] = (y - x) % LIMB
  <2>1. held(accounts)[a] = y /\ held(start)[a] = x
    BY NamesKnown, HeldIs DEF VInv, DInv
  <2>2. delta[a] = (held(accounts)[a] - held(start)[a]) % LIMB
    BY DEF VInv, DInv, Difference
  <2> QED BY <2>1, <2>2
<1>3. delta[a] = z % LIMB
  BY <1>1, Recomputed DEF limbs
<1>4. x \in {0, 1} /\ y \in {0, 1}
  BY IsOneOrNone
<1>5. z \in Int /\ -1 <= z /\ z <= 1
  <2>1. CASE \A n \in 1 .. Len(claims) : owner(claims[n]) # a.pubkey
    <3>1. z = 0
      BY <1>1, <2>1, SumNever
    <3> QED BY <3>1
  <2>2. ASSUME NEW n \in 1 .. Len(claims), owner(claims[n]) = a.pubkey
        PROVE  z \in Int /\ -1 <= z /\ z <= 1
    <3>1. z = is(claims[n].new, a) - is(claims[n].old, a)
      BY <1>1, <2>2, SumOnce
    <3>2. is(claims[n].new, a) \in {0, 1} /\ is(claims[n].old, a) \in {0, 1}
      BY IsOneOrNone
    <3> QED BY <3>1, <3>2
  <2> QED BY <2>1, <2>2
<1> HIDE DEF x, y, z
<1>6. z % LIMB = (y - x) % LIMB
  BY <1>2, <1>3
<1>7. y - x \in Int /\ z - (y - x) < LIMB /\ (y - x) - z < LIMB
  BY <1>4, <1>5, Limb
<1>8. z = y - x
  BY <1>5, <1>6, <1>7, Close
<1> QED BY <1>8 DEF x, y, z

\* An effective difference of two states determines them.
LEMMA NewDetermined ==
    ASSUME NEW o \in Option, NEW n \in Option, NEW x \in Option, NEW y \in Option,
           live(o) # live(n),
           \A a \in AccountForHash : is(n, a) - is(o, a) = is(y, a) - is(x, a)
    PROVE  live(y) = live(n)
<1>1. \A u, a : is(u, a) \in {0, 1}
  BY IsOneOrNone
<1>2. \A u, a : is(u, a) = 1 => u = a
  BY DEF is
<1>3. \A u \in Option : live(u) # NoAccount => u \in AccountForHash /\ is(u, u) = 1
  BY DEF live, Option, is
<1>4. CASE live(n) # NoAccount
  <2>1. n \in AccountForHash /\ is(n, n) = 1
    BY <1>3, <1>4
  <2>2. is(o, n) = 0
    BY <1>1, <1>2
  <2>3. is(y, n) - is(x, n) = 1
    BY <2>1, <2>2
  <2>4. is(y, n) = 1
    BY <1>1, <2>3
  <2> QED BY <1>2, <2>4
<1>5. CASE live(n) = NoAccount
  <2> SUFFICES ASSUME live(y) # NoAccount PROVE FALSE
    BY <1>5
  <2>1. y \in AccountForHash /\ is(y, y) = 1
    BY <1>3
  <2>2. is(n, y) = 0
    BY <1>1, <1>2, <1>5
  <2>3. 0 - is(o, y) = 1 - is(x, y)
    BY <2>1, <2>2
  <2>4. is(x, y) = 1
    BY <1>1, <2>3
  <2>5. x = y
    BY <1>2, <2>4
  <2>6. o \in AccountForHash /\ is(o, o) = 1
    BY <1>3, <1>5
  <2>7. is(n, o) = 0
    BY <1>1, <1>2
  <2>8. 0 - 1 = is(y, o) - is(y, o)
    BY <2>5, <2>6, <2>7
  <2> QED BY <1>1, <2>8
<1> QED BY <1>4, <1>5

LEMMA Determined ==
    ASSUME NEW o \in Option, NEW n \in Option, NEW x \in Option, NEW y \in Option,
           live(o) # live(n),
           \A a \in AccountForHash : is(n, a) - is(o, a) = is(y, a) - is(x, a)
    PROVE  live(x) = live(o) /\ live(y) = live(n)
<1>1. live(y) = live(n)
  BY NewDetermined
<1>2. \A u, a : is(u, a) \in Int
  BY IsOneOrNone
<1>3. \A a \in AccountForHash : is(o, a) - is(n, a) = is(x, a) - is(y, a)
  BY <1>2
<1>4. live(x) = live(o)
  BY <1>3, NewDetermined
<1> QED BY <1>1, <1>4

\* The states of other accounts do not show in an account.
LEMMA Foreign ==
    ASSUME NEW accts, Owned(accts), NEW p \in AccountKeys, NEW a \in AccountForHash, a.pubkey # p
    PROVE  is(accts[p], a) = 0
BY NoAccountAssumption DEF Owned, states_of, is

\* A claimed transition is the net change of its account.
LEMMA ClaimIsNet ==
    ASSUME VInv, verdict = "Ok", Proper(claims), LIMB > 2, NEW n \in 1 .. Len(claims),
           NEW p \in AccountKeys, owner(claims[n]) = p
    PROVE  live(start[p]) = live(claims[n].old) /\ live(accounts[p]) = live(claims[n].new)
<1> DEFINE o == claims[n].old
           m == claims[n].new
<1>1. claims \in Seq(AccountTransition) /\ Owned(accounts) /\ Owned(start)
  BY DEF VInv, Judged, DInv
<1>2. o \in Option /\ m \in Option /\ n \in DOMAIN claims
  BY <1>1, Transitions
<1>3. start[p] \in Option /\ accounts[p] \in Option
  BY <1>1, OwnedOption DEF Owned
<1>4. live(o) # live(m)
  BY <1>2 DEF Proper
<1>5. ASSUME NEW a \in AccountForHash
      PROVE  is(m, a) - is(o, a) = is(accounts[p], a) - is(start[p], a)
  <2>1. CASE a.pubkey = p
    <3>1. sum(claims, 1 .. Len(claims), a) = is(m, a) - is(o, a)
      BY <1>1, <2>1, SumOnce
    <3>2. sum(claims, 1 .. Len(claims), a) = is(accounts[p], a) - is(start[p], a)
      BY <2>1, NetSum
    <3> QED BY <3>1, <3>2
  <2>2. CASE a.pubkey # p
    <3>1. m # a /\ o # a
      BY <1>2, <2>2, OwnerIs
    <3>2. is(m, a) = 0 /\ is(o, a) = 0
      BY <3>1 DEF is
    <3>3. is(accounts[p], a) = 0 /\ is(start[p], a) = 0
      BY <1>1, <2>2, Foreign
    <3> QED BY <3>2, <3>3
  <2> QED BY <2>1, <2>2
<1> HIDE DEF o, m
<1>6. live(start[p]) = live(o) /\ live(accounts[p]) = live(m)
  BY <1>2, <1>3, <1>4, <1>5, Determined
<1> QED BY <1>6 DEF o, m

\* Every net change is claimed.
LEMMA NetIsClaimed ==
    ASSUME VInv, verdict = "Ok", Proper(claims), LIMB > 2, NEW p \in AccountKeys,
           live(start[p]) # live(accounts[p])
    PROVE  \E n \in 1 .. Len(claims) : owner(claims[n]) = p
<1> SUFFICES ASSUME \A n \in 1 .. Len(claims) : owner(claims[n]) # p
             PROVE  FALSE
  OBVIOUS
<1>1. claims \in Seq(AccountTransition) /\ Owned(accounts) /\ Owned(start)
  BY DEF VInv, Judged, DInv
<1>2. start[p] \in Option /\ accounts[p] \in Option
  BY <1>1, OwnedOption DEF Owned
<1>3. ASSUME NEW a \in AccountForHash
      PROVE  is(start[p], a) = is(accounts[p], a)
  <2>1. CASE a.pubkey = p
    <3>1. sum(claims, 1 .. Len(claims), a) = 0
      BY <1>1, <2>1, SumNever
    <3>2. 0 = is(accounts[p], a) - is(start[p], a)
      BY <2>1, <3>1, NetSum
    <3>3. is(accounts[p], a) \in {0, 1} /\ is(start[p], a) \in {0, 1}
      BY IsOneOrNone
    <3> QED BY <3>2, <3>3
  <2>2. CASE a.pubkey # p
    BY <1>1, <2>2, Foreign
  <2> QED BY <2>1, <2>2
<1> QED BY <1>2, <1>3, Seen

LEMMA TruthImplied == LIMB > 2 /\ VInv => VerifiedIsTruth
<1> SUFFICES ASSUME LIMB > 2, VInv PROVE VerifiedIsTruth
  OBVIOUS
<1>1. claims \in Seq(AccountTransition) /\ log \in Seq(AccountTransition)
  BY DEF VInv, Logged, Judged
<1>2. ASSUME verdict = "DeltaMismatch", same_transitions(claims, log)
      PROVE  FALSE
  <2>1. recompute(claims) # recompute(log)
    BY <1>2 DEF VInv, Logged, Judged
  <2>2. \A a : sum(claims, 1 .. Len(claims), a) = sum(log, 1 .. Len(log), a)
    BY <1>1, <1>2, SameSum
  <2>3. limbs(claims, 1 .. Len(claims)) = limbs(log, 1 .. Len(log))
    BY <2>2 DEF limbs
  <2> QED BY <1>1, <2>1, <2>3, Recomputed
<1> DEFINE claimed == {[old |-> live(claims[n].old), new |-> live(claims[n].new)] : n \in DOMAIN claims}
<1>3. ASSUME verdict = "Ok", proper(claims)
      PROVE  claimed = net_changes
  <2>1. Proper(claims) /\ DOMAIN claims = 1 .. Len(claims)
    BY <1>1, <1>3, ProperIs, Transitions
  <2>2. ASSUME NEW n \in DOMAIN claims
        PROVE  [old |-> live(claims[n].old), new |-> live(claims[n].new)] \in net_changes
    <3>1. PICK p \in AccountKeys : owner(claims[n]) = p
      <4>1. ~ Empty(claims[n])
        BY <1>3 DEF VInv, Judged
      <4>2. claims[n].old \in Option /\ claims[n].new \in Option
        BY <1>1, <2>1, Transitions
      <4> QED BY <4>1, <4>2, OwnerKnown
    <3>2. live(start[p]) = live(claims[n].old) /\ live(accounts[p]) = live(claims[n].new)
      BY <1>3, <2>1, <3>1, ClaimIsNet
    <3>3. live(start[p]) # live(accounts[p])
      BY <2>1, <3>2 DEF Proper
    <3> QED BY <3>2, <3>3 DEF net_changes
  <2>3. ASSUME NEW p \in AccountKeys, live(start[p]) # live(accounts[p])
        PROVE  [old |-> live(start[p]), new |-> live(accounts[p])] \in claimed
    <3>1. PICK n \in 1 .. Len(claims) : owner(claims[n]) = p
      BY <1>3, <2>1, <2>3, NetIsClaimed
    <3>2. live(start[p]) = live(claims[n].old) /\ live(accounts[p]) = live(claims[n].new)
      BY <1>3, <2>1, <3>1, ClaimIsNet
    <3> QED BY <2>1, <3>2
  <2>4. claimed \subseteq net_changes
    BY <2>2
  <2>5. net_changes \subseteq claimed
    BY <2>3 DEF net_changes
  <2> QED BY <2>4, <2>5
<1> QED BY <1>2, <1>3 DEF VerifiedIsTruth

(***************************************************************************)
(* verify_slot_delta tells the truth from everything else, for every       *)
(* number of accounts and lists of every length: the slot's transitions    *)
(* verify in any order, and a list of one effective transition per account *)
(* that verifies is the net change of the slot.  It needs limbs that tell  *)
(* -1 from 1: modulo 2, a transition and its reverse have the same sum.    *)
(***************************************************************************)
THEOREM Truth == LIMB > 2 => (Spec => []VerifiedIsTruth)
<1> SUFFICES ASSUME LIMB > 2 PROVE Spec => []VerifiedIsTruth
  OBVIOUS
<1>1. VInv => VerifiedIsTruth
  BY TruthImplied
<1> QED BY <1>1, VerifierInvariance, PTL

=============================================================================

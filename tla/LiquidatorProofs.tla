-------------------------- MODULE LiquidatorProofs --------------------------
(***************************************************************************)
(* What a loaded market map contains, why a lookup in it can panic, what   *)
(* instruction is built and what the scans of the users have in common,    *)
(* for every number of markets, bound of the scan and set of users.        *)
(***************************************************************************)
EXTENDS Liquidator, FiniteSetTheorems, WellFoundedInduction, TLAPS

\* The scan of list k has ended, other than by a market that does not decode.
complete(k) == pc = "loaded" \/ (k = "perp" /\ pc = "spot")

\* Map k holds the first n markets, and n is explained by how its scan ended.
holds_first(k, n) ==
    /\ n <= MAX_MARKETS
    /\ n <= listed[k]
    /\ cache[k] = 0 .. n - 1
    /\ pc = k => n = next
    /\ pc = "perp" /\ k = "spot" => n = 0
    /\ complete(k) => rpc_error[k] \/ n = MAX_MARKETS \/ n >= listed_at[k]

MarketsTypeOK ==
    /\ listed \in [Kinds -> Nat]
    /\ pc \in {"perp", "spot", "loaded"} \cup DecodeOutcomes
    /\ next \in Nat
    /\ cache \in [Kinds -> SUBSET Nat]
    /\ listed_at \in [Kinds -> Nat]
    /\ rpc_error \in [Kinds -> BOOLEAN]

\* The inductive invariant of the scans.
MInv ==
    /\ MarketsTypeOK
    /\ \A k \in Kinds : listed_at[k] <= listed[k]
    /\ \A k \in Kinds : \E n \in Nat : holds_first(k, n)

\* With the panic, which is explained.
IInv == MInv /\ PanicExplained

-----------------------------------------------------------------------------
\* A set of naturals has a least element.
LEMMA Least ==
    ASSUME NEW T, T \subseteq Nat, T # {}
    PROVE  \E x \in T : \A y \in T : x <= y
<1> DEFINE R == OpToRel(<, Nat)
<1>1. IsWellFoundedOn(R, Nat)
  BY NatLessThanWellFounded
<1>2. \A x, y \in Nat : y < x => <<y, x>> \in R
  BY DEF OpToRel
<1> HIDE DEF R
<1>3. \E x \in T : \A y \in T : ~(<<y, x>> \in R)
  BY <1>1, WFMin
<1>4. PICK x \in T : \A y \in T : ~(<<y, x>> \in R)
  BY <1>3
<1>5. \A y \in T : ~(y < x)
  BY <1>2, <1>4
<1>6. \A y \in T : x <= y
  BY <1>5
<1> QED BY <1>6

LEMMA InitMInv == MarketsInit => MInv
<1> SUFFICES ASSUME MarketsInit PROVE MInv
  OBVIOUS
<1>1. MarketsTypeOK
  BY MaxMarketsAssumption DEF MarketsInit, MarketsTypeOK
<1>2. \A k \in Kinds : listed_at[k] <= listed[k]
  BY <1>1 DEF MarketsInit, MarketsTypeOK
<1>3. \A k \in Kinds : holds_first(k, 0)
  BY <1>1, MaxMarketsAssumption DEF MarketsInit, MarketsTypeOK, holds_first, complete
<1> QED BY <1>1, <1>2, <1>3 DEF MInv

LEMMA ListMarketMInv ==
    ASSUME MInv, NEW k \in Kinds, ListMarket(k)
    PROVE  MInv'
<1> USE DEF ListMarket
<1>1. MarketsTypeOK'
  BY DEF MInv, MarketsTypeOK
<1>2. \A j \in Kinds : listed[j] <= listed'[j] /\ listed'[j] \in Nat
  BY DEF MInv, MarketsTypeOK
<1>3. \A j \in Kinds : listed_at'[j] <= listed'[j]
  BY <1>2 DEF MInv, MarketsTypeOK
<1>4. ASSUME NEW j \in Kinds PROVE \E n \in Nat : holds_first(j, n)'
  <2>1. PICK n \in Nat : holds_first(j, n)
    BY DEF MInv
  <2> QED BY <2>1, <1>2 DEF MInv, MarketsTypeOK, holds_first, complete
<1> QED BY <1>1, <1>3, <1>4 DEF MInv

LEMMA LoadMInv ==
    ASSUME MInv, NEW k \in Kinds, Load(k)
    PROVE  MInv'
<1> USE MaxMarketsAssumption
<1>0. listed' = listed /\ pc = k
  BY DEF Load, FetchMarket, DecodeFails, FetchErr, Exhausted
<1>1. CASE FetchMarket(k)
  <2>1. MarketsTypeOK'
    BY <1>1 DEF FetchMarket, MInv, MarketsTypeOK
  <2>2. \A j \in Kinds : listed_at'[j] <= listed'[j]
    BY <1>1 DEF FetchMarket, MInv
  <2>3. ASSUME NEW j \in Kinds PROVE \E n \in Nat : holds_first(j, n)'
    <3>1. PICK n \in Nat : holds_first(j, n)
      BY DEF MInv
    <3>2. CASE j = k
      <4>1. n = next /\ cache[k] = 0 .. next - 1 /\ next \in Nat
        BY <3>1, <3>2, <1>0 DEF holds_first, MInv, MarketsTypeOK
      <4>2. cache'[k] = 0 .. (next + 1) - 1
        <5>1. (0 .. next - 1) \cup {next} = 0 .. (next + 1) - 1
          BY <4>1
        <5> QED BY <1>1, <4>1, <5>1 DEF FetchMarket, MInv, MarketsTypeOK
      <4>3. next + 1 <= MAX_MARKETS /\ next + 1 <= listed[k]
        BY <1>1, <4>1 DEF FetchMarket, MInv, MarketsTypeOK
      <4>4. PICK m \in Nat : m = next + 1
        BY <4>1
      <4>5. holds_first(j, m)'
        BY <1>1, <1>0, <3>1, <3>2, <4>1, <4>2, <4>3, <4>4 DEF FetchMarket, holds_first, complete, Kinds
      <4> QED BY <4>5
    <3>3. CASE j # k
      BY <1>1, <1>0, <3>1, <3>3 DEF FetchMarket, holds_first, complete, Kinds, MInv, MarketsTypeOK
    <3> QED BY <3>2, <3>3
  <2> QED BY <2>1, <2>2, <2>3 DEF MInv
<1>2. CASE \E how \in DecodeOutcomes : DecodeFails(k, how)
  <2>1. MarketsTypeOK'
    BY <1>2 DEF DecodeFails, MInv, MarketsTypeOK
  <2>2. \A j \in Kinds : listed_at'[j] <= listed'[j]
    BY <1>2 DEF DecodeFails, MInv
  <2>3. ASSUME NEW j \in Kinds PROVE \E n \in Nat : holds_first(j, n)'
    <3>1. PICK n \in Nat : holds_first(j, n)
      BY DEF MInv
    <3>2. pc' \notin {"perp", "spot", "loaded"}
      BY <1>2 DEF DecodeFails, DecodeOutcomes
    <3>3. UNCHANGED <<listed, next, cache, listed_at, rpc_error>>
      BY <1>2 DEF DecodeFails
    <3> QED BY <3>1, <3>2, <3>3 DEF holds_first, complete, Kinds
  <2> QED BY <2>1, <2>2, <2>3 DEF MInv
<1>3. ASSUME EndScan(k), cache' = cache,
             \/ /\ next < MAX_MARKETS
                /\ \E failed \in BOOLEAN :
                      /\ failed \/ next >= listed[k]
                      /\ rpc_error' = [rpc_error EXCEPT ![k] = failed]
             \/ next = MAX_MARKETS /\ rpc_error' = rpc_error
      PROVE  MInv'
  <2>1. MarketsTypeOK'
    BY <1>0, <1>3 DEF EndScan, MInv, MarketsTypeOK
  <2>2. \A j \in Kinds : listed_at'[j] <= listed'[j]
    BY <1>0, <1>3 DEF EndScan, MInv, MarketsTypeOK
  <2>3. ASSUME NEW j \in Kinds PROVE \E n \in Nat : holds_first(j, n)'
    <3>1. PICK n \in Nat : holds_first(j, n)
      BY DEF MInv
    <3>2. CASE j = k
      <4>1. n = next /\ listed_at'[k] = listed[k]
        BY <3>1, <3>2, <1>0, <1>3 DEF EndScan, holds_first, MInv, MarketsTypeOK
      <4>2. rpc_error'[k] \/ n = MAX_MARKETS \/ n >= listed_at'[k]
        BY <4>1, <1>3 DEF MInv, MarketsTypeOK
      <4>3. pc' # k /\ pc' # "perp"
        BY <1>0, <1>3 DEF EndScan, Kinds
      <4> QED BY <1>0, <1>3, <3>1, <3>2, <4>2, <4>3 DEF holds_first
    <3>3. CASE j # k
      <4>1. listed_at'[j] = listed_at[j] /\ rpc_error'[j] = rpc_error[j]
        BY <1>3, <3>3 DEF EndScan, MInv, MarketsTypeOK
      <4>2. CASE k = "perp"
        <5>1. j = "spot" /\ n = 0 /\ pc' = "spot" /\ next' = 0
          BY <1>0, <1>3, <3>1, <3>3, <4>2 DEF EndScan, holds_first, Kinds
        <5> QED BY <1>0, <1>3, <3>1, <5>1 DEF holds_first, complete
      <4>3. CASE k = "spot"
        <5>1. j = "perp" /\ pc' = "loaded"
          BY <1>3, <3>3, <4>3 DEF EndScan, Kinds
        <5> QED BY <1>0, <1>3, <3>1, <4>1, <4>3, <5>1 DEF holds_first, complete
      <4> QED BY <4>2, <4>3 DEF Kinds
    <3> QED BY <3>2, <3>3
  <2> QED BY <2>1, <2>2, <2>3 DEF MInv
<1>4. CASE \E failed \in BOOLEAN : FetchErr(k, failed)
  BY <1>3, <1>4 DEF FetchErr
<1>5. CASE Exhausted(k)
  BY <1>3, <1>5 DEF Exhausted
<1> QED BY <1>1, <1>2, <1>4, <1>5 DEF Load

LEMMA MInvUnchanged == MInv /\ UNCHANGED markets_vars => MInv'
BY DEF MInv, MarketsTypeOK, holds_first, complete, markets_vars

LEMMA MInvPrefix == MInv => CacheIsPrefix
<1> SUFFICES ASSUME MInv, NEW k \in Kinds
             PROVE  \E n \in 0 .. min(MAX_MARKETS, listed[k]) :
                        cache[k] = 0 .. n - 1 /\ (pc = k => n = next)
  BY DEF CacheIsPrefix
<1>1. PICK n \in Nat : holds_first(k, n)
  BY DEF MInv
<1>2. n \in 0 .. min(MAX_MARKETS, listed[k])
  BY <1>1, MaxMarketsAssumption DEF holds_first, min, MInv, MarketsTypeOK
<1> QED BY <1>1, <1>2 DEF holds_first

-----------------------------------------------------------------------------
\* The user that is picked is one of the answer, and its target a market it holds.
LEMMA PickedHolds ==
    ASSUME NEW answer \in program_accounts, picked(answer) # {}
    PROVE  LET user == first_picked(answer)
           IN  /\ user \in UserAccounts
               /\ holdable(user)
               /\ first_open_market(user.perps) \in open_markets(user.perps)
<1> DEFINE user == first_picked(answer)
<1>1. PICK len \in 0 .. MaxAnswer : answer \in [1 .. len -> {a \in UserAccounts : holdable(a)}]
  BY DEF program_accounts
<1>2. picked(answer) \subseteq Nat
  BY <1>1 DEF picked
<1>3. \E n \in picked(answer) : \A m \in picked(answer) : n <= m
  BY <1>2, Least
<1>4. PICK p \in picked(answer) : user = answer[p]
  BY <1>3 DEF first_picked
<1>5. user \in UserAccounts /\ holdable(user) /\ picks(user)
  BY <1>1, <1>4 DEF picked
<1> HIDE DEF user
<1>6. open_markets(user.perps) # {}
  BY <1>5 DEF picks
<1> DEFINE used == {n \in DOMAIN user.perps : user.perps[n] # Available}
<1>7. used # {} /\ used \subseteq Nat
  BY <1>5, <1>6, UserAccountsAssumption DEF open_markets
<1>8. \E n \in used : \A m \in used : n <= m
  BY <1>7, Least
<1>9. PICK n \in used : first_open_market(user.perps) = user.perps[n]
  BY <1>8 DEF first_open_market
<1>10. first_open_market(user.perps) \in open_markets(user.perps)
  BY <1>9 DEF open_markets
<1> QED BY <1>5, <1>10 DEF user

\* A map that is neither short nor stale has every market the chain lists.
LEMMA FullCache ==
    ASSUME MInv, pc = "loaded", NEW k \in Kinds,
           ~rpc_error[k], ~(listed_at[k] < listed[k]), ~(listed[k] > MAX_MARKETS)
    PROVE  cache[k] = 0 .. listed[k] - 1
<1>1. PICK n \in Nat : holds_first(k, n)
  BY DEF MInv
<1>2. /\ listed[k] \in Nat /\ listed_at[k] \in Nat
      /\ n <= listed[k] /\ n <= MAX_MARKETS
      /\ n = MAX_MARKETS \/ n >= listed_at[k]
  BY <1>1 DEF holds_first, complete, MInv, MarketsTypeOK
<1>3. n = listed[k]
  BY <1>2, MaxMarketsAssumption
<1> QED BY <1>1, <1>3 DEF holds_first

\* The panic itself: with full maps every lookup succeeds.
LEMMA LookupFailureExplained ==
    ASSUME MInv, pc = "loaded", NEW answer \in program_accounts, picked(answer) # {},
           ~lookups_succeed(cache["perp"], cache["spot"], first_picked(answer),
                            first_picked(answer), first_open_market(first_picked(answer).perps))
    PROVE  \/ listed["spot"] = 0
           \/ \E k \in Kinds :
                 rpc_error[k] \/ listed_at[k] < listed[k] \/ listed[k] > MAX_MARKETS
<1> DEFINE user == first_picked(answer)
<1>1. SUFFICES ASSUME listed["spot"] # 0,
                      \A k \in Kinds : /\ ~rpc_error[k]
                                       /\ ~(listed_at[k] < listed[k])
                                       /\ ~(listed[k] > MAX_MARKETS)
               PROVE  FALSE
  OBVIOUS
<1>2. cache["perp"] = 0 .. listed["perp"] - 1 /\ cache["spot"] = 0 .. listed["spot"] - 1
  BY <1>1, FullCache DEF Kinds
<1>3. /\ open_markets(user.perps) \subseteq cache["perp"]
      /\ open_markets(user.spots) \subseteq cache["spot"]
      /\ first_open_market(user.perps) \in cache["perp"]
  BY <1>2, PickedHolds DEF holdable
<1>4. QUOTE_SPOT \in cache["spot"]
  BY <1>1, <1>2 DEF QUOTE_SPOT, MInv, MarketsTypeOK, Kinds
<1> HIDE DEF user
<1>5. lookups_succeed(cache["perp"], cache["spot"], user, user, first_open_market(user.perps))
  BY <1>3, <1>4 DEF lookups_succeed
<1> QED BY <1>5 DEF user

\* What explains a panic still explains it after a market was listed.
LEMMA StillExplained ==
    ASSUME MInv, PanicExplained, exit = "panic", pc # "panicked", NEW k \in Kinds, ListMarket(k)
    PROVE  \/ listed'["spot"] = 0
           \/ \E j \in Kinds :
                 rpc_error'[j] \/ listed_at'[j] < listed'[j] \/ listed'[j] > MAX_MARKETS
<1>1. \A j \in Kinds : /\ listed[j] \in Nat /\ listed'[j] \in Nat /\ listed[j] <= listed'[j]
                       /\ listed_at[j] \in Nat /\ listed_at[j] <= listed[j]
  BY DEF ListMarket, MInv, MarketsTypeOK
<1>2. rpc_error' = rpc_error /\ listed_at' = listed_at
  BY DEF ListMarket
<1>3. CASE listed["spot"] = 0
  BY <1>1, <1>2, <1>3 DEF Kinds
<1>4. CASE \E j \in Kinds : rpc_error[j] \/ listed_at[j] < listed[j] \/ listed[j] > MAX_MARKETS
  BY <1>1, <1>2, <1>4, MaxMarketsAssumption
<1> QED BY <1>3, <1>4 DEF PanicExplained

LEMMA InitIInv == Init => IInv
BY InitMInv DEF Init, IInv, PanicExplained

LEMMA CommandIInv ==
    ASSUME IInv, Command
    PROVE  IInv'
<1> USE DEF IInv
<1>1. CASE \E k \in Kinds : LoadMarkets(k)
  <2>1. PICK k \in Kinds : LoadMarkets(k)
    BY <1>1
  <2>2. MInv'
    BY <2>1, LoadMInv DEF LoadMarkets
  <2>3. exit' = "panic" => pc' = "panicked"
    BY <2>1 DEF LoadMarkets, end
  <2> QED BY <2>2, <2>3 DEF PanicExplained
<1>2. CASE RequestFails
  BY <1>2, MInvUnchanged DEF RequestFails, running, end, PanicExplained
<1>3. CASE \E answer \in program_accounts : PickAndBuild(answer)
  <2>1. PICK answer \in program_accounts : PickAndBuild(answer)
    BY <1>3
  <2>2. MInv' /\ UNCHANGED markets_vars /\ pc = "loaded" /\ exit = "running"
    BY <2>1, MInvUnchanged DEF PickAndBuild, running
  <2>3. CASE exit' = "panic"
    <3>1. /\ picked(answer) # {}
          /\ ~lookups_succeed(cache["perp"], cache["spot"], first_picked(answer),
                              first_picked(answer), first_open_market(first_picked(answer).perps))
      BY <2>1, <2>2, <2>3 DEF PickAndBuild, end
    <3>2. \/ listed["spot"] = 0
          \/ \E k \in Kinds :
                rpc_error[k] \/ listed_at[k] < listed[k] \/ listed[k] > MAX_MARKETS
      BY <2>2, <3>1, LookupFailureExplained
    <3> QED BY <2>2, <3>2 DEF PanicExplained, markets_vars
  <2> QED BY <2>2, <2>3 DEF PanicExplained
<1>4. CASE \E answer \in program_accounts : ScanAndPrint(answer)
  BY <1>4, MInvUnchanged DEF ScanAndPrint, running, end, PanicExplained
<1>5. CASE Simulate
  BY <1>5, MInvUnchanged DEF Simulate, running, end, PanicExplained
<1> QED BY <1>1, <1>2, <1>3, <1>4, <1>5 DEF Command

LEMMA NextIInv == IInv /\ [Next]_all_vars => IInv'
<1> SUFFICES ASSUME IInv, [Next]_all_vars PROVE IInv'
  OBVIOUS
<1>1. CASE Command
  BY <1>1, CommandIInv
<1>2. CASE \E k \in Kinds : ListMarket(k) /\ UNCHANGED liquidator_vars
  <2>1. PICK k \in Kinds : ListMarket(k) /\ UNCHANGED liquidator_vars
    BY <1>2
  <2>2. MInv' /\ exit' = exit /\ pc' = pc
    BY <2>1, ListMarketMInv DEF IInv, liquidator_vars, ListMarket
  <2> QED BY <2>1, <2>2, StillExplained DEF IInv, PanicExplained
<1>3. CASE UNCHANGED all_vars
  BY <1>3, MInvUnchanged DEF IInv, PanicExplained, all_vars, markets_vars, liquidator_vars
<1> QED BY <1>1, <1>2, <1>3 DEF Next

(***************************************************************************)
(* Markets::load builds maps without holes, whatever the chain lists       *)
(* meanwhile and whichever request fails.                                  *)
(***************************************************************************)
THEOREM NoHoles == Spec => []CacheIsPrefix
<1>1. IInv => CacheIsPrefix
  BY MInvPrefix DEF IInv
<1> QED BY <1>1, InitIInv, NextIInv, PTL DEF Spec

(***************************************************************************)
(* build_liquidate_perp_ix panics on a market that is not in the maps only *)
(* if a request failed, a market was listed since, the scan's bound was    *)
(* reached, or there is no quote market.                                   *)
(***************************************************************************)
THEOREM PanicHasCause == Spec => []PanicExplained
<1>1. IInv => PanicExplained
  BY DEF IInv, PanicExplained
<1> QED BY <1>1, InitIInv, NextIInv, PTL DEF Spec

-----------------------------------------------------------------------------
(***************************************************************************)
(* The remaining accounts of an instruction as a BTreeSet keeps them.      *)
(***************************************************************************)
RemainingAccount == [kind : {"Oracle", "Spot", "Perp"}, pubkey : Nat, writable : BOOLEAN]

\* Only one account of ra has a given kind and key.
Deduped(ra) == \A x, y \in ra : same(x, y) => x = y

\* The accounts of ra before x.
below(ra, x) == {y \in ra : before(y, x)}

rank(ra, x) == Cardinality(below(ra, x))

LEMMA Discriminants ==
    ASSUME NEW x \in RemainingAccount
    PROVE  /\ x.pubkey \in Nat /\ x.kind \in {"Oracle", "Spot", "Perp"}
           /\ discriminant(x) \in 0 .. 2
           /\ x.kind = "Oracle" <=> discriminant(x) = 0
           /\ x.kind = "Spot" <=> discriminant(x) = 1
           /\ x.kind = "Perp" <=> discriminant(x) = 2
<1>1. x.pubkey \in Nat /\ x.kind \in {"Oracle", "Spot", "Perp"}
  BY DEF RemainingAccount
<1>2. CASE x.kind = "Oracle"
  BY <1>1, <1>2 DEF discriminant
<1>3. CASE x.kind = "Spot"
  BY <1>1, <1>3 DEF discriminant
<1>4. CASE x.kind = "Perp"
  BY <1>1, <1>4 DEF discriminant
<1> QED BY <1>1, <1>2, <1>3, <1>4

\* cmp is a total order up to eq.
LEMMA TotalOrder ==
    ASSUME NEW x \in RemainingAccount, NEW y \in RemainingAccount
    PROVE  /\ before(x, y) \/ before(y, x) \/ same(x, y)
           /\ ~ (before(x, y) /\ before(y, x))
           /\ ~ before(x, x)
BY Discriminants DEF before, same

LEMMA Transitive ==
    ASSUME NEW x \in RemainingAccount, NEW y \in RemainingAccount, NEW z \in RemainingAccount,
           before(x, y), before(y, z)
    PROVE  before(x, z)
BY Discriminants DEF before

LEMMA RankGrows ==
    ASSUME NEW ra \in SUBSET RemainingAccount, IsFiniteSet(ra),
           NEW x \in ra, NEW y \in ra, before(x, y)
    PROVE  rank(ra, x) < rank(ra, y)
<1> DEFINE X == below(ra, x)
           Y == below(ra, y)
<1>1. IsFiniteSet(X) /\ IsFiniteSet(Y)
  <2>1. X \in SUBSET ra /\ Y \in SUBSET ra
    BY DEF below
  <2> QED BY <2>1, FS_Subset
<1>2. X \cup {x} \in SUBSET Y
  BY Transitive DEF below
<1>3. x \notin X
  BY TotalOrder DEF below
<1> HIDE DEF X, Y
<1>4. Cardinality(X \cup {x}) = Cardinality(X) + 1
  BY <1>1, <1>3, FS_AddElement
<1>5. Cardinality(X \cup {x}) <= Cardinality(Y)
  BY <1>1, <1>2, FS_Subset
<1>6. Cardinality(X) \in Nat /\ Cardinality(Y) \in Nat
  BY <1>1, FS_CardinalityType
<1>7. Cardinality(X) < Cardinality(Y)
  BY <1>4, <1>5, <1>6
<1> QED BY <1>7 DEF X, Y, rank

\* The ranks are 0 .. Cardinality(ra) - 1, each taken once.
LEMMA Ranks ==
    ASSUME NEW ra \in SUBSET RemainingAccount, IsFiniteSet(ra), Deduped(ra)
    PROVE  /\ Cardinality(ra) \in Nat
           /\ \A x \in ra : rank(ra, x) \in 0 .. Cardinality(ra) - 1
           /\ \A x, y \in ra : rank(ra, x) = rank(ra, y) => x = y
           /\ \A r \in 0 .. Cardinality(ra) - 1 : \E x \in ra : rank(ra, x) = r
<1> DEFINE n == Cardinality(ra)
           T == 0 .. n - 1
           f == [x \in ra |-> rank(ra, x)]
<1>1. n \in Nat
  BY FS_CardinalityType
<1>2. ASSUME NEW x \in ra PROVE rank(ra, x) \in T
  <2>1. below(ra, x) \in SUBSET (ra \ {x})
    BY TotalOrder DEF below
  <2>2. IsFiniteSet(ra \ {x}) /\ Cardinality(ra \ {x}) = n - 1
    BY FS_RemoveElement
  <2>3. Cardinality(below(ra, x)) <= n - 1 /\ IsFiniteSet(below(ra, x))
    BY <2>1, <2>2, FS_Subset
  <2>4. Cardinality(below(ra, x)) \in Nat
    BY <2>3, FS_CardinalityType
  <2> HIDE DEF n
  <2> QED BY <1>1, <2>3, <2>4 DEF rank
<1>3. ASSUME NEW x \in ra, NEW y \in ra, rank(ra, x) = rank(ra, y)
      PROVE  x = y
  <2>1. rank(ra, x) \in Nat /\ rank(ra, y) \in Nat
    BY <1>1, <1>2
  <2>2. ~ before(x, y) /\ ~ before(y, x)
    BY <1>3, <2>1, RankGrows
  <2>3. same(x, y)
    BY <2>2, TotalOrder
  <2> QED BY <2>3 DEF Deduped
<1> HIDE DEF n
<1>4. f \in Injection(ra, T)
  BY <1>2, <1>3 DEF Injection, IsInjective
<1>5. IsFiniteSet(T) /\ Cardinality(T) = n
  BY <1>1, FS_Interval
<1>6. \A r \in T : \E x \in ra : f[x] = r
  <2> HIDE DEF f, T
  <2>1. f \in Surjection(ra, T)
    BY <1>4, <1>5, FS_Injection DEF n
  <2> QED BY <2>1 DEF Surjection
<1>7. \A r \in T : \E x \in ra : rank(ra, x) = r
  BY <1>6
<1> QED BY <1>1, <1>2, <1>3, <1>7 DEF n

\* Iterating over the BTreeSet gives every account, in strictly ascending order.
LEMMA InOrder ==
    ASSUME NEW ra \in SUBSET RemainingAccount, IsFiniteSet(ra), Deduped(ra)
    PROVE  LET q == in_order(ra)
               l == Cardinality(ra)
           IN  /\ l \in Nat /\ q = [n \in 1 .. l |-> q[n]]
               /\ \A n \in 1 .. l : q[n] \in ra
               /\ \A x \in ra : \E n \in 1 .. l : q[n] = x
               /\ \A m, n \in 1 .. l : m < n => before(q[m], q[n])
<1> DEFINE q == in_order(ra)
           l == Cardinality(ra)
<1>1. l \in Nat /\ q = [n \in 1 .. l |-> q[n]]
  <2>1. l \in Nat
    BY Ranks
  <2>2. q = [n \in 1 .. l |-> q[n]]
    BY DEF in_order
  <2> QED BY <2>1, <2>2
<1>2. ASSUME NEW n \in 1 .. l
      PROVE  q[n] \in ra /\ rank(ra, q[n]) = n - 1
  <2>1. q[n] = CHOOSE x \in ra : rank(ra, x) = n - 1
    BY DEF in_order, rank, below
  <2>2. n - 1 \in 0 .. l - 1
    BY <1>1
  <2>3. \E x \in ra : rank(ra, x) = n - 1
    BY <2>2, Ranks
  <2> HIDE DEF q
  <2> QED BY <2>1, <2>3
<1> HIDE DEF q
<1>3. ASSUME NEW x \in ra PROVE \E n \in 1 .. l : q[n] = x
  <2>1. rank(ra, x) \in 0 .. l - 1
    BY Ranks
  <2>2. rank(ra, x) + 1 \in 1 .. l /\ (rank(ra, x) + 1) - 1 = rank(ra, x)
    BY <1>1, <2>1
  <2>3. q[rank(ra, x) + 1] \in ra /\ rank(ra, q[rank(ra, x) + 1]) = rank(ra, x)
    BY <1>2, <2>2
  <2>4. q[rank(ra, x) + 1] = x
    BY <2>3, Ranks
  <2> QED BY <2>2, <2>4
<1>4. ASSUME NEW m \in 1 .. l, NEW n \in 1 .. l, m < n
      PROVE  before(q[m], q[n])
  <2>1. /\ q[m] \in ra /\ q[n] \in ra
        /\ rank(ra, q[m]) = m - 1 /\ rank(ra, q[n]) = n - 1
    BY <1>2
  <2>2. m \in Nat /\ n \in Nat
    BY <1>1
  <2>3. ~ before(q[n], q[m])
    <3> SUFFICES ASSUME before(q[n], q[m]) PROVE FALSE
      OBVIOUS
    <3>1. rank(ra, q[n]) < rank(ra, q[m])
      BY <2>1, RankGrows
    <3> QED BY <1>4, <2>1, <2>2, <3>1
  <2>4. q[m] # q[n]
    BY <1>4, <2>1, <2>2
  <2>5. ~ same(q[m], q[n])
    BY <2>1, <2>4 DEF Deduped
  <2> QED BY <2>1, <2>3, <2>5, TotalOrder
<1> QED BY <1>1, <1>2, <1>3, <1>4 DEF q

-----------------------------------------------------------------------------
(***************************************************************************)
(* What the program loads from accounts in that order.                     *)
(***************************************************************************)
\* A run of accounts of one kind is an interval that ends where the kind does.
LEMMA RunIs ==
    ASSUME NEW q, Len(q) \in Nat, NEW kind, NEW from \in Nat, from >= 1, from <= Len(q) + 1
    PROVE  \E k \in Nat :
              /\ run_of(kind, q, from) = from .. from + k - 1
              /\ Cardinality(run_of(kind, q, from)) = k
              /\ from + k <= Len(q) + 1
              /\ from + k <= Len(q) => q[from + k].kind # kind
<1> DEFINE l == Len(q)
           R == run_of(kind, q, from)
           S == {n \in from .. l : q[n].kind # kind}
<1>1. R = {n \in from .. l : \A m \in from .. n : q[m].kind = kind}
  BY DEF run_of
<1>2. l \in Nat
  OBVIOUS
<1> HIDE DEF l, R
<1>3. ASSUME NEW k \in Nat, R = from .. from + k - 1
      PROVE  Cardinality(R) = k
  <2>1. from + k - 1 \in Int /\ from \in Int
    OBVIOUS
  <2>2. Cardinality(from .. from + k - 1) = IF from > from + k - 1 THEN 0 ELSE from + k - 1 - from + 1
    BY <2>1, FS_Interval
  <2> QED BY <1>3, <2>2
<1>4. CASE S = {}
  <2> DEFINE k == l - from + 1
  <2>1. k \in Nat /\ from + k - 1 = l /\ from + k = l + 1
    BY <1>2 DEF l
  <2>2. R = from .. l
    BY <1>1, <1>2, <1>4
  <2> HIDE DEF k
  <2>3. R = from .. from + k - 1
    BY <2>1, <2>2
  <2>4. Cardinality(R) = k
    BY <1>3, <2>1, <2>3
  <2> QED BY <1>2, <2>1, <2>3, <2>4 DEF R, l
<1>5. CASE S # {}
  <2>1. S \subseteq Nat
    BY <1>2
  <2>2. PICK x \in S : \A y \in S : x <= y
    BY <1>5, <2>1, Least
  <2>3. x \in Nat /\ from <= x /\ x <= l /\ q[x].kind # kind
    BY <2>1
  <2> DEFINE k == x - from
  <2>4. k \in Nat /\ from + k = x /\ from + k - 1 = x - 1
    BY <2>3
  <2>5. \A n \in from .. x - 1 : q[n].kind = kind
    <3> SUFFICES ASSUME NEW n \in from .. x - 1, q[n].kind # kind PROVE FALSE
      OBVIOUS
    <3>1. n \in Nat /\ n <= l /\ from <= n /\ ~ (x <= n)
      BY <1>2, <2>3
    <3>2. n \in S
      BY <1>2, <3>1
    <3> QED BY <2>2, <3>1, <3>2
  <2>6. R = from .. x - 1
    <3>1. \A n \in from .. x - 1 : n \in from .. l /\ \A m \in from .. n : m \in from .. x - 1
      BY <1>2, <2>3
    <3>2. \A n \in from .. l : ~ (n <= x - 1) => x \in from .. n
      BY <1>2, <2>3
    <3>3. \A n \in from .. l : n <= x - 1 => n \in from .. x - 1
      BY <1>2, <2>3
    <3>4. from .. x - 1 \subseteq R
      BY <1>1, <2>5, <3>1
    <3>5. R \subseteq from .. x - 1
      BY <1>1, <2>3, <3>2, <3>3
    <3> QED BY <3>4, <3>5
  <2> HIDE DEF k, S
  <2>7. R = from .. from + k - 1
    BY <2>4, <2>6
  <2>8. Cardinality(R) = k
    BY <1>3, <2>4, <2>7
  <2>9. from + k <= l + 1 /\ q[from + k].kind # kind
    BY <1>2, <2>3, <2>4
  <2> QED BY <2>4, <2>7, <2>8, <2>9 DEF R, l
<1> QED BY <1>4, <1>5

\* In ascending order every account is loaded: first oracles, then spot, then perp markets.
LEMMA AllLoaded ==
    ASSUME NEW q, Len(q) \in Nat,
           \A n \in 1 .. Len(q) : q[n] \in RemainingAccount,
           \A m, n \in 1 .. Len(q) : m < n => before(q[m], q[n])
    PROVE  {q[n] : n \in 1 .. Len(q)} \subseteq loaded_accounts(q)
<1> DEFINE l == Len(q)
           d(n) == discriminant(q[n])
           O == run_of("Oracle", q, 1)
           a == Cardinality(O)
           S == run_of("Spot", q, a + 1)
           b == Cardinality(S)
           P == run_of("Perp", q, a + b + 1)
<1>1. loaded_accounts(q) = {q[n] : n \in O \cup S \cup P}
  BY DEF loaded_accounts
<1>2. l \in Nat
  OBVIOUS
<1>3. \A n \in 1 .. l :
         /\ d(n) \in 0 .. 2
         /\ (q[n].kind = "Oracle" <=> d(n) = 0)
         /\ (q[n].kind = "Spot" <=> d(n) = 1)
         /\ (q[n].kind = "Perp" <=> d(n) = 2)
  BY Discriminants
<1>4. \A m, n \in 1 .. l : m <= n => d(m) <= d(n)
  <2> SUFFICES ASSUME NEW m \in 1 .. l, NEW n \in 1 .. l, m <= n PROVE d(m) <= d(n)
    OBVIOUS
  <2>1. d(m) \in 0 .. 2 /\ d(n) \in 0 .. 2
    BY <1>3
  <2>2. CASE m = n
    BY <2>1, <2>2
  <2>3. CASE m # n
    <3>1. m < n
      BY <1>2, <2>3
    <3>2. before(q[m], q[n])
      BY <3>1
    <3> QED BY <2>1, <3>2 DEF before
  <2> QED BY <2>2, <2>3
<1>5. /\ a \in Nat /\ O = 1 .. a /\ a + 1 <= l + 1
      /\ a + 1 <= l => q[a + 1].kind # "Oracle"
  <2>1. PICK k \in Nat : /\ O = 1 .. 1 + k - 1 /\ a = k /\ 1 + k <= l + 1
                         /\ 1 + k <= l => q[1 + k].kind # "Oracle"
    BY <1>2, RunIs
  <2>2. 1 + k - 1 = k /\ 1 + k = k + 1
    OBVIOUS
  <2> QED BY <2>1, <2>2
<1> HIDE DEF O, a
<1>6. /\ b \in Nat /\ S = a + 1 .. a + b /\ a + b + 1 <= l + 1
      /\ a + b + 1 <= l => q[a + b + 1].kind # "Spot"
  <2> DEFINE c == a + 1
  <2>1. c \in Nat /\ c >= 1 /\ c <= l + 1 /\ S = run_of("Spot", q, c)
    BY <1>5
  <2> HIDE DEF c, S
  <2>2. PICK k \in Nat : /\ S = c .. c + k - 1 /\ Cardinality(S) = k /\ c + k <= l + 1
                         /\ c + k <= l => q[c + k].kind # "Spot"
    BY <1>2, <2>1, RunIs
  <2>3. c + k - 1 = a + k /\ c + k = a + k + 1
    BY <1>5 DEF c
  <2> QED BY <2>2, <2>3 DEF c
<1> HIDE DEF S, b
<1>7. ASSUME NEW n \in 1 .. l PROVE n \in O \cup S \cup P
  <2>1. n \in Nat /\ 1 <= n /\ n <= l
    BY <1>2
  <2>2. CASE n <= a
    BY <1>5, <2>1, <2>2
  <2>3. CASE a < n /\ n <= a + b
    BY <1>5, <1>6, <2>1, <2>3
  <2>4. CASE a + b < n
    <3>1. a + b + 1 \in 1 .. l /\ a + 1 \in 1 .. l /\ a + 1 <= a + b + 1
      BY <1>2, <1>5, <1>6, <2>1, <2>4
    <3>2. d(a + 1) \in 0 .. 2 /\ d(a + 1) # 0 /\ d(a + b + 1) \in 0 .. 2 /\ d(a + b + 1) # 1
      BY <1>3, <1>5, <1>6, <3>1
    <3>3. d(a + 1) <= d(a + b + 1)
      BY <1>4, <3>1
    <3>4. d(a + b + 1) = 2
      <4> HIDE DEF d
      <4> QED BY <3>2, <3>3
    <3>5. ASSUME NEW m \in a + b + 1 .. n PROVE q[m].kind = "Perp"
      <4>1. m \in 1 .. l /\ a + b + 1 <= m
        BY <1>2, <1>5, <1>6, <2>1
      <4>2. d(m) \in 0 .. 2 /\ d(a + b + 1) <= d(m)
        BY <1>3, <1>4, <3>1, <4>1
      <4>3. d(m) = 2
        <5> HIDE DEF d
        <5> QED BY <3>4, <4>2
      <4> QED BY <1>3, <4>1, <4>3
    <3>6. n \in a + b + 1 .. l
      BY <1>2, <1>5, <1>6, <2>1, <2>4
    <3>7. n \in P
      BY <3>5, <3>6 DEF run_of
    <3> QED BY <3>7
  <2> HIDE DEF P
  <2> QED BY <1>5, <1>6, <2>1, <2>2, <2>3, <2>4
<1> HIDE DEF P
<1> QED BY <1>1, <1>7

-----------------------------------------------------------------------------
(***************************************************************************)
(* The accounts that build_liquidate_perp_ix inserts: the target perp      *)
(* market P is the only writable one, and it is inserted once.             *)
(***************************************************************************)
Readable == {x \in RemainingAccount : x.writable = FALSE}

\* A set of accounts as it is after the target went in.
Building(ra, P) ==
    /\ IsFiniteSet(ra)
    /\ P \in ra
    /\ \A x \in ra : x = P \/ (x \in Readable /\ ~ same(x, P))

LEMMA ReadableSame ==
    ASSUME NEW x \in Readable, NEW y \in Readable, same(x, y)
    PROVE  x = y
BY DEF Readable, RemainingAccount, same

LEMMA SameSymmetric ==
    ASSUME NEW x, NEW y, same(x, y)
    PROVE  same(y, x)
BY DEF same

LEMMA InsertBuilding ==
    ASSUME NEW ra, NEW P, Building(ra, P), NEW new \in SUBSET Readable, IsFiniteSet(new)
    PROVE  /\ Building(insert(ra, new), P)
           /\ ra \subseteq insert(ra, new)
           /\ \A x \in new : ~ same(x, P) => x \in insert(ra, new)
<1> DEFINE more == {x \in new : \A y \in ra : ~ same(x, y)}
<1>1. insert(ra, new) = ra \cup more
  BY DEF insert
<1>2. IsFiniteSet(ra) /\ P \in ra /\ \A x \in ra : x = P \/ (x \in Readable /\ ~ same(x, P))
  BY DEF Building
<1>3. IsFiniteSet(more)
  <2>1. more \in SUBSET new
    OBVIOUS
  <2> HIDE DEF more
  <2> QED BY <2>1, FS_Subset
<1>4. \A x \in more : x \in Readable /\ ~ same(x, P)
  BY <1>2
<1>5. ASSUME NEW x \in new, ~ same(x, P)
      PROVE  x \in ra \cup more
  <2>1. CASE \A y \in ra : ~ same(x, y)
    BY <2>1
  <2>2. ASSUME NEW y \in ra, same(x, y) PROVE x \in ra
    <3>1. y # P
      BY <1>5, <2>2
    <3>2. x = y
      BY <1>2, <2>2, <3>1, ReadableSame
    <3> QED BY <3>2
  <2> QED BY <2>1, <2>2
<1> HIDE DEF more
<1>6. IsFiniteSet(ra \cup more)
  BY <1>2, <1>3, FS_Union
<1>7. Building(ra \cup more, P)
  BY <1>2, <1>4, <1>6 DEF Building
<1> QED BY <1>1, <1>5, <1>7

LEMMA BuiltDeduped ==
    ASSUME NEW ra, NEW P \in RemainingAccount, Building(ra, P)
    PROVE  ra \in SUBSET RemainingAccount /\ Deduped(ra)
<1>1. \A x \in ra : x = P \/ (x \in Readable /\ ~ same(x, P))
  BY DEF Building
<1>2. ra \in SUBSET RemainingAccount
  BY <1>1 DEF Readable
<1>3. ASSUME NEW x \in ra, NEW y \in ra, same(x, y) PROVE x = y
  <2>1. CASE x = P
    BY <1>1, <1>3, <2>1, SameSymmetric
  <2>2. CASE y = P
    BY <1>1, <1>3, <2>2
  <2>3. CASE x # P /\ y # P
    BY <1>1, <1>3, <2>3, ReadableSame
  <2> QED BY <2>1, <2>2, <2>3
<1> QED BY <1>2, <1>3 DEF Deduped

\* A market of which the keys are known.
Known(m) == {perp_pda[m], spot_pda[m], perp_oracle[m], spot_oracle[m]} \subseteq Nat

LEMMA ReadableAccounts ==
    ASSUME NEW key \in Nat
    PROVE  Oracle(key) \in Readable /\ Spot(key, FALSE) \in Readable /\ Perp(key, FALSE) \in Readable
BY DEF Readable, RemainingAccount, Oracle, Spot, Perp

LEMMA TargetKept ==
    ASSUME NEW key \in Nat, NEW k \in Nat
    PROVE  /\ Perp(key, TRUE) \in RemainingAccount
           /\ ~ same(Oracle(k), Perp(key, TRUE))
           /\ ~ same(Spot(k, FALSE), Perp(key, TRUE))
BY DEF RemainingAccount, Oracle, Spot, Perp, same

\* The accounts a user touches are finitely many and readable.
LEMMA TouchedReadable ==
    ASSUME NEW u, IsFiniteSet(open_markets(u.perps)), IsFiniteSet(open_markets(u.spots)),
           \A m \in open_markets(u.perps) \cup open_markets(u.spots) : Known(m)
    PROVE  touched(u) \in SUBSET Readable /\ IsFiniteSet(touched(u))
<1> DEFINE S == open_markets(u.spots)
           P == open_markets(u.perps)
           A == {Spot(spot_pda[m], FALSE) : m \in S}
           B == {Oracle(spot_oracle[m]) : m \in S}
           C == {Perp(perp_pda[m], FALSE) : m \in P}
           D == {Oracle(perp_oracle[m]) : m \in P}
<1>1. touched(u) = A \cup B \cup C \cup D
  BY DEF touched
<1>2. \A m \in S \cup P : /\ perp_pda[m] \in Nat /\ spot_pda[m] \in Nat
                          /\ perp_oracle[m] \in Nat /\ spot_oracle[m] \in Nat
  BY DEF Known
<1> HIDE DEF S, P
<1>3. IsFiniteSet(S) /\ IsFiniteSet(P)
  BY DEF S, P
<1>4. A \in SUBSET Readable /\ B \in SUBSET Readable /\ C \in SUBSET Readable /\ D \in SUBSET Readable
  BY <1>2, ReadableAccounts
<1>5. IsFiniteSet(A)
  <2>1. [m \in S |-> Spot(spot_pda[m], FALSE)] \in Surjection(S, A)
    BY DEF Surjection
  <2> QED BY <1>3, <2>1, FS_Surjection
<1>6. IsFiniteSet(B)
  <2>1. [m \in S |-> Oracle(spot_oracle[m])] \in Surjection(S, B)
    BY DEF Surjection
  <2> QED BY <1>3, <2>1, FS_Surjection
<1>7. IsFiniteSet(C)
  <2>1. [m \in P |-> Perp(perp_pda[m], FALSE)] \in Surjection(P, C)
    BY DEF Surjection
  <2> QED BY <1>3, <2>1, FS_Surjection
<1>8. IsFiniteSet(D)
  <2>1. [m \in P |-> Oracle(perp_oracle[m])] \in Surjection(P, D)
    BY DEF Surjection
  <2> QED BY <1>3, <2>1, FS_Surjection
<1> HIDE DEF A, B, C, D
<1>9. IsFiniteSet(A \cup B \cup C \cup D)
  BY <1>5, <1>6, <1>7, <1>8, FS_Union
<1> QED BY <1>1, <1>4, <1>9

\* The set that is built: the target, and every account the program needs.
LEMMA RemainingBuilt ==
    ASSUME NEW u, NEW v, NEW t, Known(t), Known(QUOTE_SPOT),
           touched(u) \in SUBSET Readable, IsFiniteSet(touched(u)),
           touched(v) \in SUBSET Readable, IsFiniteSet(touched(v))
    PROVE  /\ Building(remaining_accounts(u, v, t), Perp(perp_pda[t], TRUE))
           /\ required(u, v, t) \subseteq remaining_accounts(u, v, t)
<1> DEFINE P == Perp(perp_pda[t], TRUE)
           r1 == insert({}, target_accounts(t))
           r2 == insert(r1, touched(u))
           r3 == insert(r2, touched(v))
           r4 == insert(r3, quote_accounts)
<1>1. remaining_accounts(u, v, t) = r4
  BY DEF remaining_accounts
<1>2. perp_pda[t] \in Nat /\ perp_oracle[t] \in Nat /\ spot_pda[QUOTE_SPOT] \in Nat /\ spot_oracle[QUOTE_SPOT] \in Nat
  BY DEF Known
<1>3. r1 = {P, Oracle(perp_oracle[t])}
  BY DEF insert, target_accounts
<1>4. /\ Oracle(perp_oracle[t]) \in Readable /\ ~ same(Oracle(perp_oracle[t]), P)
      /\ ~ same(Spot(spot_pda[QUOTE_SPOT], FALSE), P) /\ ~ same(Oracle(spot_oracle[QUOTE_SPOT]), P)
  BY <1>2, ReadableAccounts, TargetKept
<1>5. quote_accounts \in SUBSET Readable /\ IsFiniteSet(quote_accounts)
  <2>1. quote_accounts = {Spot(spot_pda[QUOTE_SPOT], FALSE)} \cup {Oracle(spot_oracle[QUOTE_SPOT])}
    BY DEF quote_accounts
  <2>2. IsFiniteSet(quote_accounts)
    BY <2>1, FS_Singleton, FS_Union
  <2> QED BY <1>2, <2>1, <2>2, ReadableAccounts
<1>6. \A x : same(x, Perp(perp_pda[t], FALSE)) <=> same(x, P)
  BY DEF same, Perp
<1> HIDE DEF P, r1
<1>7. Building(r1, P)
  <2>1. r1 = {P} \cup {Oracle(perp_oracle[t])}
    BY <1>3
  <2>2. IsFiniteSet(r1)
    BY <2>1, FS_Singleton, FS_Union
  <2> QED BY <1>4, <2>1, <2>2 DEF Building
<1>8. /\ Building(r2, P) /\ r1 \subseteq r2
      /\ \A x \in touched(u) : ~ same(x, P) => x \in r2
  BY <1>7, InsertBuilding
<1> HIDE DEF r2
<1>9. /\ Building(r3, P) /\ r2 \subseteq r3
      /\ \A x \in touched(v) : ~ same(x, P) => x \in r3
  BY <1>8, InsertBuilding
<1> HIDE DEF r3
<1>10. /\ Building(r4, P) /\ r3 \subseteq r4
       /\ \A x \in quote_accounts : ~ same(x, P) => x \in r4
  BY <1>5, <1>9, InsertBuilding
<1> HIDE DEF r4
<1>11. target_accounts(t) \subseteq r4
  BY <1>3, <1>8, <1>9, <1>10 DEF target_accounts, P
<1>12. quote_accounts \subseteq r4
  BY <1>4, <1>10 DEF quote_accounts
<1>13. required(u, v, t) \subseteq r4
  BY <1>6, <1>8, <1>9, <1>10, <1>11, <1>12 DEF required
<1> QED BY <1>1, <1>10, <1>13 DEF P

\* What InstructionLoads says of an instruction ix0 for the user u.
Loads(ix0, u) ==
    /\ program_loads(ix0, u, u)
    /\ \A m, n \in DOMAIN ix0.remaining : m < n => before(ix0.remaining[m], ix0.remaining[n])
    /\ {n \in DOMAIN ix0.remaining : ix0.remaining[n].writable}
          = {n \in DOMAIN ix0.remaining :
                same(ix0.remaining[n], Perp(perp_pda[ix0.market_index], TRUE))}

\* build_liquidate_perp_ix with every lookup successful.
LEMMA BuiltLoads ==
    ASSUME NEW u, NEW t, u.pubkey = user_pda(u), Known(t), Known(QUOTE_SPOT),
           IsFiniteSet(open_markets(u.perps)), IsFiniteSet(open_markets(u.spots)),
           \A m \in open_markets(u.perps) \cup open_markets(u.spots) : Known(m)
    PROVE  Loads(build_liquidate_perp_ix(u, u, t), u)
<1> DEFINE P == Perp(perp_pda[t], TRUE)
           ra == remaining_accounts(u, u, t)
           q == in_order(ra)
           l == Cardinality(ra)
           ix0 == build_liquidate_perp_ix(u, u, t)
<1>1. ix0.remaining = q /\ ix0.market_index = t /\ ix0.base = base_accounts(u, u)
  BY DEF build_liquidate_perp_ix
<1>2. Building(ra, P) /\ required(u, u, t) \subseteq ra
  BY TouchedReadable, RemainingBuilt
<1>3. P \in RemainingAccount /\ P.writable = TRUE
  <2>1. perp_pda[t] \in Nat
    BY DEF Known
  <2> QED BY <2>1 DEF RemainingAccount, Perp
<1> HIDE DEF P, ra, ix0
<1>4. ra \in SUBSET RemainingAccount /\ Deduped(ra) /\ IsFiniteSet(ra)
  BY <1>2, <1>3, BuiltDeduped DEF Building
<1>5. /\ l \in Nat /\ q = [n \in 1 .. l |-> q[n]]
      /\ \A n \in 1 .. l : q[n] \in ra
      /\ \A x \in ra : \E n \in 1 .. l : q[n] = x
      /\ \A m, n \in 1 .. l : m < n => before(q[m], q[n])
  BY <1>4, InOrder
<1> HIDE DEF q, l
<1>6. DOMAIN q = 1 .. l /\ Len(q) = l
  <2>1. DOMAIN q = 1 .. l
    BY <1>5
  <2>2. q \in Seq(ra)
    BY <1>5
  <2>3. DOMAIN q = 1 .. Len(q) /\ Len(q) \in Nat
    BY <2>2
  <2> QED BY <1>5, <2>1, <2>3
<1>7. ra \subseteq loaded_accounts(q)
  <2>1. {q[n] : n \in 1 .. Len(q)} \subseteq loaded_accounts(q)
    BY <1>4, <1>5, <1>6, AllLoaded
  <2> QED BY <1>5, <1>6, <2>1
<1>8. program_loads(ix0, u, u)
  <2>1. ix0.base[3][1] = user_pda(u) /\ ix0.base[5][1] = u.pubkey
    BY <1>1 DEF base_accounts
  <2> QED BY <1>1, <1>2, <1>7, <2>1 DEF program_loads
<1>9. \A x \in ra : x.writable <=> same(x, P)
  <2>1. ASSUME NEW x \in ra PROVE x.writable <=> same(x, P)
    <3>1. CASE x = P
      BY <1>3, <3>1 DEF same
    <3>2. CASE x # P
      BY <1>2, <3>2 DEF Building, Readable
    <3> QED BY <3>1, <3>2
  <2> QED BY <2>1
<1>10. {n \in DOMAIN q : q[n].writable} = {n \in DOMAIN q : same(q[n], P)}
  BY <1>5, <1>6, <1>9
<1>11. Loads(ix0, u)
  BY <1>1, <1>5, <1>6, <1>8, <1>10 DEF Loads, P
<1> QED BY <1>11 DEF ix0

-----------------------------------------------------------------------------
\* The inductive invariant: the chain lists no more markets than have keys.
LoadsInv ==
    /\ IInv
    /\ \A k \in Kinds : listed[k] <= MaxListed
    /\ ix # NoIx => Loads(ix, first_picked(accounts))

LEMMA LoadsIs == (ix # NoIx => Loads(ix, first_picked(accounts))) <=> InstructionLoads
BY DEF Loads, InstructionLoads

\* The cached markets are listed ones, and finitely many.
LEMMA CachedKnown ==
    ASSUME LoadsInv, NEW k \in Kinds
    PROVE  IsFiniteSet(cache[k]) /\ \A m \in cache[k] : Known(m)
<1>1. PICK n \in Nat : holds_first(k, n)
  BY DEF LoadsInv, IInv, MInv
<1>2. cache[k] = 0 .. n - 1 /\ n <= listed[k] /\ listed[k] \in Nat /\ listed[k] <= MaxListed
  BY <1>1 DEF holds_first, LoadsInv, IInv, MInv, MarketsTypeOK
<1>3. IsFiniteSet(0 .. n - 1)
  BY FS_Interval
<1>4. \A m \in 0 .. n - 1 : m \in 0 .. MaxListed - 1
  BY <1>2, MaxMarketsAssumption
<1> QED BY <1>2, <1>3, <1>4, KeysAssumption DEF Known

LEMMA PickAndBuildLoads ==
    ASSUME LoadsInv, NEW answer \in program_accounts, PickAndBuild(answer)
    PROVE  ix' # NoIx => Loads(ix', first_picked(accounts'))
<1> SUFFICES ASSUME ix' # NoIx PROVE Loads(ix', first_picked(answer))
  BY DEF PickAndBuild
<1> DEFINE u == first_picked(answer)
           t == first_open_market(u.perps)
<1>1. /\ picked(answer) # {}
      /\ lookups_succeed(cache["perp"], cache["spot"], u, u, t)
      /\ ix' = build_liquidate_perp_ix(u, u, t)
  BY DEF PickAndBuild
<1>2. u \in UserAccounts
  BY <1>1, PickedHolds
<1>3. u.pubkey = user_pda(u)
  BY <1>2, UserAccountsAssumption
<1> HIDE DEF u, t
<1>4. /\ t \in cache["perp"] /\ QUOTE_SPOT \in cache["spot"]
      /\ open_markets(u.perps) \in SUBSET cache["perp"]
      /\ open_markets(u.spots) \in SUBSET cache["spot"]
  BY <1>1 DEF lookups_succeed
<1>5. "perp" \in Kinds /\ "spot" \in Kinds
  BY DEF Kinds
<1>6. IsFiniteSet(open_markets(u.perps)) /\ IsFiniteSet(open_markets(u.spots))
  BY <1>4, <1>5, CachedKnown, FS_Subset
<1>7. /\ Known(t) /\ Known(QUOTE_SPOT)
      /\ \A m \in open_markets(u.perps) \cup open_markets(u.spots) : Known(m)
  BY <1>4, <1>5, CachedKnown
<1>8. Loads(build_liquidate_perp_ix(u, u, t), u)
  BY <1>3, <1>6, <1>7, BuiltLoads
<1> QED BY <1>1, <1>8 DEF u

LEMMA InitLoads == Init => LoadsInv
<1> SUFFICES ASSUME Init PROVE LoadsInv
  OBVIOUS
<1>1. \A k \in Kinds : listed[k] <= MaxListed
  BY MaxMarketsAssumption DEF Init, MarketsInit
<1>2. ix = NoIx
  BY DEF Init
<1> QED BY <1>1, <1>2, InitIInv DEF LoadsInv

LEMMA NextLoads == LoadsInv /\ [Next]_all_vars => LoadsInv'
<1> SUFFICES ASSUME LoadsInv, [Next]_all_vars PROVE LoadsInv'
  OBVIOUS
<1>1. IInv'
  BY NextIInv DEF LoadsInv
<1>2. ASSUME NEW k \in Kinds PROVE listed'[k] <= MaxListed
  <2>1. listed' = listed \/ \E j \in Kinds : listed[j] < MaxListed /\ listed' = [listed EXCEPT ![j] = @ + 1]
    BY DEF Next, Command, LoadMarkets, Load, FetchMarket, DecodeFails, FetchErr, Exhausted,
           RequestFails, PickAndBuild, ScanAndPrint, Simulate, ListMarket, all_vars, markets_vars
  <2>2. listed \in [Kinds -> Nat] /\ listed[k] <= MaxListed
    BY DEF LoadsInv, IInv, MInv, MarketsTypeOK
  <2> QED BY <2>1, <2>2, MaxMarketsAssumption
<1>3. ix' # NoIx => Loads(ix', first_picked(accounts'))
  <2>1. ASSUME NEW answer \in program_accounts, PickAndBuild(answer)
        PROVE  ix' # NoIx => Loads(ix', first_picked(accounts'))
    BY <2>1, PickAndBuildLoads
  <2>2. ASSUME NEW answer \in program_accounts, ix = NoIx, ScanAndPrint(answer)
        PROVE  ix' = NoIx
    BY <2>2 DEF ScanAndPrint
  <2>3. CASE UNCHANGED <<ix, accounts>>
    BY <2>3 DEF LoadsInv
  <2>4. ASSUME NEW k \in Kinds, LoadMarkets(k) PROVE UNCHANGED <<ix, accounts>>
    BY <2>4 DEF LoadMarkets
  <2>5. RequestFails \/ Simulate => UNCHANGED <<ix, accounts>>
    BY DEF RequestFails, Simulate
  <2>6. UNCHANGED liquidator_vars \/ UNCHANGED all_vars => UNCHANGED <<ix, accounts>>
    BY DEF liquidator_vars, all_vars
  <2> QED BY <2>1, <2>2, <2>3, <2>4, <2>5, <2>6 DEF Next, Command
<1> QED BY <1>1, <1>2, <1>3 DEF LoadsInv

(***************************************************************************)
(* Every instruction that build_liquidate_perp_ix completes is one the     *)
(* program can load, with no account twice and only the target writable,   *)
(* for every set of markets, keys, oracles shared between them and         *)
(* positions.                                                              *)
(***************************************************************************)
THEOREM Loadable == Spec => []InstructionLoads
<1>1. LoadsInv => InstructionLoads
  BY LoadsIs DEF LoadsInv
<1> QED BY <1>1, InitLoads, NextLoads, PTL DEF Spec

-----------------------------------------------------------------------------
(***************************************************************************)
(* The scans.  A member of a finite set has its place in an order on the   *)
(* set: the number of members ahead of it.                                 *)
(***************************************************************************)
OrderOn(S, R) ==
    /\ \A x \in S : <<x, x>> \notin R
    /\ \A x, y \in S : x = y \/ <<x, y>> \in R \/ <<y, x>> \in R
    /\ \A x, y, z \in S : <<x, y>> \in R /\ <<y, z>> \in R => <<x, z>> \in R

ahead(S, R, x) == {y \in S : <<y, x>> \in R}

\* Places grow along the order.
LEMMA PlacesGrow ==
    ASSUME NEW S, IsFiniteSet(S), NEW R, OrderOn(S, R), NEW x \in S, NEW y \in S, <<x, y>> \in R
    PROVE  Cardinality(ahead(S, R, x)) < Cardinality(ahead(S, R, y))
<1> DEFINE X == ahead(S, R, x)
           Y == ahead(S, R, y)
<1>1. X \in SUBSET S /\ Y \in SUBSET S
  BY DEF ahead
<1>2. IsFiniteSet(X) /\ IsFiniteSet(Y)
  BY <1>1, FS_Subset
<1>3. X \cup {x} \in SUBSET Y /\ x \notin X
  BY DEF ahead, OrderOn
<1> HIDE DEF X, Y
<1>4. Cardinality(X \cup {x}) = Cardinality(X) + 1
  BY <1>2, <1>3, FS_AddElement
<1>5. Cardinality(X \cup {x}) <= Cardinality(Y)
  BY <1>2, <1>3, FS_Subset
<1>6. Cardinality(X) \in Nat /\ Cardinality(Y) \in Nat
  BY <1>2, FS_CardinalityType
<1>7. Cardinality(X) < Cardinality(Y)
  BY <1>4, <1>5, <1>6
<1> QED BY <1>7 DEF X, Y

\* Every place up to the size of the set is taken, by one member.
Placed(S, R) ==
    /\ Cardinality(S) \in Nat
    /\ \A x \in S : Cardinality(ahead(S, R, x)) \in 0 .. Cardinality(S) - 1
    /\ \A x, y \in S : Cardinality(ahead(S, R, x)) = Cardinality(ahead(S, R, y)) => x = y
    /\ \A p \in 0 .. Cardinality(S) - 1 : \E x \in S : Cardinality(ahead(S, R, x)) = p

LEMMA Places ==
    ASSUME NEW S, IsFiniteSet(S), NEW R, OrderOn(S, R)
    PROVE  Placed(S, R)
<1> DEFINE n == Cardinality(S)
           T == 0 .. n - 1
           place(x) == Cardinality(ahead(S, R, x))
           f == [x \in S |-> place(x)]
<1>1. n \in Nat
  BY FS_CardinalityType
<1>2. ASSUME NEW x \in S PROVE place(x) \in T
  <2>1. ahead(S, R, x) \in SUBSET (S \ {x})
    BY DEF ahead, OrderOn
  <2>2. IsFiniteSet(S \ {x}) /\ Cardinality(S \ {x}) = n - 1
    BY FS_RemoveElement
  <2>3. Cardinality(ahead(S, R, x)) <= n - 1 /\ IsFiniteSet(ahead(S, R, x))
    BY <2>1, <2>2, FS_Subset
  <2>4. Cardinality(ahead(S, R, x)) \in Nat
    BY <2>3, FS_CardinalityType
  <2> HIDE DEF n
  <2> QED BY <1>1, <2>3, <2>4
<1>3. ASSUME NEW x \in S, NEW y \in S, place(x) = place(y) PROVE x = y
  <2>1. place(x) \in Nat /\ place(y) \in Nat
    BY <1>1, <1>2
  <2>2. <<x, y>> \notin R /\ <<y, x>> \notin R
    BY <1>3, <2>1, PlacesGrow
  <2> QED BY <2>2 DEF OrderOn
<1> HIDE DEF n, place
<1>4. f \in Injection(S, T)
  BY <1>2, <1>3 DEF Injection, IsInjective
<1>5. IsFiniteSet(T) /\ Cardinality(T) = n
  BY <1>1, FS_Interval
<1>6. \A r \in T : \E x \in S : f[x] = r
  <2> HIDE DEF f, T
  <2>1. f \in Surjection(S, T)
    BY <1>4, <1>5, FS_Injection DEF n
  <2> QED BY <2>1 DEF Surjection
<1>7. \A r \in T : \E x \in S : place(x) = r
  BY <1>6
<1> QED BY <1>1, <1>2, <1>3, <1>7 DEF Placed, n, place

-----------------------------------------------------------------------------
\* The members of a set of indices, in order.
LEMMA Nth ==
    ASSUME NEW S, S \subseteq Nat, IsFiniteSet(S)
    PROVE  /\ Cardinality(S) \in Nat
           /\ \A c \in 1 .. Cardinality(S) : nth(S, c) \in S
           /\ \A n \in S : \E c \in 1 .. Cardinality(S) : nth(S, c) = n
           /\ \A c, d \in 1 .. Cardinality(S) : c < d => nth(S, c) < nth(S, d)
           /\ \A c \in 1 .. Cardinality(S) : Cardinality({m \in S : m <= nth(S, c)}) = c
<1> DEFINE R == {e \in S \X S : e[1] < e[2]}
           k == Cardinality(S)
           place(n) == Cardinality({m \in S : m < n})
<1>1. OrderOn(S, R)
  BY DEF OrderOn
<1>2. \A n \in S : ahead(S, R, n) = {m \in S : m < n}
  BY DEF ahead
<1>3. \A m, n \in S : m < n => <<m, n>> \in R
  OBVIOUS
<1> HIDE DEF R
<1>4. /\ k \in Nat
      /\ \A n \in S : place(n) \in 0 .. k - 1
      /\ \A m, n \in S : place(m) = place(n) => m = n
      /\ \A p \in 0 .. k - 1 : \E n \in S : place(n) = p
  <2> DEFINE in(n) == Cardinality(ahead(S, R, n))
  <2>1. /\ k \in Nat
        /\ \A n \in S : in(n) \in 0 .. k - 1
        /\ \A m, n \in S : in(m) = in(n) => m = n
        /\ \A p \in 0 .. k - 1 : \E n \in S : in(n) = p
    <3>1. Placed(S, R)
      BY <1>1, Places
    <3> QED BY <3>1 DEF Placed
  <2>2. \A n \in S : place(n) = in(n)
    BY <1>2
  <2> HIDE DEF in, place, k
  <2> QED BY <2>1, <2>2
<1>5. \A m, n \in S : m < n => place(m) < place(n)
  BY <1>1, <1>2, <1>3, PlacesGrow
<1>6. ASSUME NEW c \in 1 .. k PROVE nth(S, c) \in S /\ place(nth(S, c)) = c - 1
  <2>1. c - 1 \in 0 .. k - 1
    BY <1>4
  <2>2. \E n \in S : place(n) = c - 1
    BY <1>4, <2>1
  <2> QED BY <2>2 DEF nth
<1>7. ASSUME NEW n \in S PROVE \E c \in 1 .. k : nth(S, c) = n
  <2> DEFINE c == place(n) + 1
  <2>1. c \in 1 .. k /\ c - 1 = place(n)
    BY <1>4
  <2> HIDE DEF c
  <2>2. nth(S, c) = n
    BY <1>4, <1>6, <2>1
  <2> QED BY <2>1, <2>2
<1>8. ASSUME NEW c \in 1 .. k, NEW d \in 1 .. k, c < d PROVE nth(S, c) < nth(S, d)
  <2> DEFINE a == nth(S, c)
             b == nth(S, d)
  <2>1. a \in S /\ b \in S /\ place(a) = c - 1 /\ place(b) = d - 1
    BY <1>6
  <2> HIDE DEF a, b
  <2>2. c - 1 < d - 1 /\ c - 1 # d - 1 /\ ~(d - 1 < c - 1)
    BY <1>4, <1>8
  <2>3. a # b /\ ~(b < a)
    BY <1>5, <2>1, <2>2
  <2>4. a \in Nat /\ b \in Nat
    BY <2>1
  <2> QED BY <2>3, <2>4 DEF a, b
<1>9. ASSUME NEW c \in 1 .. k PROVE Cardinality({m \in S : m <= nth(S, c)}) = c
  <2> DEFINE a == nth(S, c)
             L == {m \in S : m < a}
  <2>1. a \in S /\ place(a) = c - 1
    BY <1>6
  <2>2. {m \in S : m <= a} = L \cup {a} /\ a \notin L
    <3> HIDE DEF a
    <3>1. \A m \in S : m \in Nat /\ (m <= a <=> m < a \/ m = a)
      BY <2>1
    <3>2. ~(a < a)
      BY <2>1
    <3> QED BY <2>1, <3>1, <3>2
  <2>3. IsFiniteSet(L)
    <3>1. L \in SUBSET S
      OBVIOUS
    <3> QED BY <3>1, FS_Subset
  <2>4. Cardinality(L \cup {a}) = Cardinality(L) + 1
    BY <2>2, <2>3, FS_AddElement
  <2>5. Cardinality(L) + 1 = c
    BY <1>4, <2>1
  <2> QED BY <2>2, <2>4, <2>5
<1> QED BY <1>4, <1>6, <1>7, <1>8, <1>9

\* A list of k elements.
Listing(list, k) == list = [n \in 1 .. k |-> list[n]]

\* sorted takes the elements of list in the order of their keys.
SortedBy(sorted, list, k, key, from) ==
    /\ from \in [1 .. k -> 1 .. k]
    /\ \A n \in 1 .. k : \E p \in 1 .. k : from[p] = n
    /\ sorted = [p \in 1 .. k |-> list[from[p]]]
    /\ \A p, q \in 1 .. k : p < q => key[from[p]] <= key[from[q]]

\* What a stable sort does; on equal keys it does nothing.
LEMMA StableSort ==
    ASSUME NEW k \in Nat, NEW list, Listing(list, k), NEW key \in [1 .. k -> Int]
    PROVE  /\ \E from : SortedBy(stable_sort(list, key), list, k, key, from)
           /\ (\A m, n \in 1 .. k : key[m] = key[n]) => stable_sort(list, key) = list
<1> DEFINE D == 1 .. k
           first(m, n) == key[m] < key[n] \/ (m < n /\ key[m] = key[n])
           R == {e \in D \X D : first(e[1], e[2])}
           place(n) == 1 + Cardinality({m \in D : first(m, n)})
           from == [p \in D |-> CHOOSE n \in D : place(n) = p]
<1>1. DOMAIN list = D
  BY DEF Listing
<1>2. stable_sort(list, key) = [p \in D |-> list[from[p]]]
  BY <1>1 DEF stable_sort
<1>3. IsFiniteSet(D) /\ Cardinality(D) = k
  BY FS_Interval
<1>4. \A n \in D : key[n] \in Int /\ n \in Int
  OBVIOUS
<1>5. OrderOn(D, R)
  <2>1. \A m \in D : ~first(m, m)
    BY <1>4
  <2>2. \A m, n \in D : m = n \/ first(m, n) \/ first(n, m)
    BY <1>4
  <2>3. \A l, m, n \in D : first(l, m) /\ first(m, n) => first(l, n)
    BY <1>4
  <2>4. \A m, n \in D : <<m, n>> \in R <=> first(m, n)
    OBVIOUS
  <2> HIDE DEF first, R, D
  <2> QED BY <2>1, <2>2, <2>3, <2>4 DEF OrderOn
<1>6. \A n \in D : ahead(D, R, n) = {m \in D : first(m, n)}
  <2>1. \A m, n \in D : <<m, n>> \in R <=> first(m, n)
    OBVIOUS
  <2> HIDE DEF first, R, D
  <2> QED BY <2>1 DEF ahead
<1>7. \A m, n \in D : first(m, n) => <<m, n>> \in R
  OBVIOUS
<1> HIDE DEF R
<1>8. Placed(D, R)
  BY <1>3, <1>5, Places
<1> DEFINE count(n) == Cardinality(ahead(D, R, n))
<1>9. \A n \in D : place(n) = 1 + count(n)
  <2> HIDE DEF first, D
  <2> QED BY <1>6
<1>10. /\ \A n \in D : count(n) \in 0 .. k - 1
       /\ \A m, n \in D : count(m) = count(n) => m = n
       /\ \A p \in 0 .. k - 1 : \E n \in D : count(n) = p
  <2> HIDE DEF D
  <2> QED BY <1>3, <1>8 DEF Placed
<1>11. \A m, n \in D : first(m, n) => count(m) < count(n)
  <2> HIDE DEF D, first
  <2> QED BY <1>3, <1>5, <1>7, PlacesGrow
<1> HIDE DEF count, place
<1>12. ASSUME NEW p \in D PROVE from[p] \in D /\ count(from[p]) = p - 1
  <2>1. p - 1 \in 0 .. k - 1
    OBVIOUS
  <2>2. PICK n \in D : count(n) = p - 1
    BY <1>10, <2>1
  <2>3. place(n) = p
    BY <1>9, <2>2
  <2>4. from[p] \in D /\ place(from[p]) = p
    BY <2>3
  <2> HIDE DEF from
  <2>5. count(from[p]) \in Int
    BY <1>10, <2>4
  <2> QED BY <1>9, <2>4, <2>5
<1> HIDE DEF from
<1>13. from \in [D -> D]
  <2>1. from = [p \in D |-> from[p]]
    BY DEF from
  <2> HIDE DEF D
  <2> QED BY <1>12, <2>1
<1>14. ASSUME NEW n \in D PROVE \E p \in D : from[p] = n
  <2> DEFINE p == count(n) + 1
  <2>1. p \in D /\ p - 1 = count(n)
    BY <1>10
  <2> HIDE DEF p
  <2>2. from[p] = n
    BY <1>10, <1>12, <2>1
  <2> QED BY <2>1, <2>2
<1>15. ASSUME NEW p \in D, NEW q \in D, p < q PROVE key[from[p]] <= key[from[q]]
  <2>1. from[p] \in D /\ from[q] \in D /\ count(from[p]) = p - 1 /\ count(from[q]) = q - 1
    BY <1>12
  <2>2. ~first(from[q], from[p])
    BY <1>11, <1>15, <2>1
  <2>3. key[from[p]] \in Int /\ key[from[q]] \in Int
    BY <1>4, <2>1
  <2> QED BY <2>2, <2>3
<1>16. SortedBy(stable_sort(list, key), list, k, key, from)
  BY <1>2, <1>13, <1>14, <1>15 DEF SortedBy
<1>17. ASSUME \A m, n \in 1 .. k : key[m] = key[n] PROVE stable_sort(list, key) = list
  <2>1. ASSUME NEW n \in D PROVE count(n) = n - 1
    <3>1. {m \in D : first(m, n)} = 1 .. n - 1
      BY <1>4, <1>17
    <3>2. Cardinality(1 .. n - 1) = n - 1
      <4>1. 1 \in Int /\ n - 1 \in Int /\ n \in Nat /\ n > 0
        OBVIOUS
      <4>2. Cardinality(1 .. n - 1) = IF 1 > n - 1 THEN 0 ELSE (n - 1) - 1 + 1
        BY <4>1, FS_Interval
      <4> QED BY <4>1, <4>2
    <3> HIDE DEF first, D
    <3> QED BY <1>6, <3>1, <3>2 DEF count
  <2>2. ASSUME NEW p \in D PROVE from[p] = p
    <3>1. from[p] \in D /\ count(from[p]) = p - 1 /\ count(p) = p - 1
      BY <1>12, <2>1
    <3> QED BY <1>10, <3>1
  <2>3. stable_sort(list, key) = [p \in D |-> list[p]]
    <3> HIDE DEF D
    <3> QED BY <1>2, <2>2
  <2> QED BY <2>3 DEF Listing
<1> QED BY <1>16, <1>17

-----------------------------------------------------------------------------
\* The accounts of an answer.
Answer(answer, len) ==
    /\ answer \in [1 .. len -> UserAccounts]
    /\ \A m, n \in 1 .. len : answer[m] = answer[n] => m = n

\* Positions are counted.
LEMMA Positions ==
    ASSUME NEW account \in UserAccounts
    PROVE  /\ n_positions(account.perps) \in Nat /\ n_positions(account.spots) \in Nat
           /\ n_positions(account.perps) > 0 <=> open_markets(account.perps) # {}
<1> DEFINE P == {n \in DOMAIN account.perps : account.perps[n] # Available}
           Q == {n \in DOMAIN account.spots : account.spots[n] # Available}
<1>1. IsFiniteSet(P) /\ IsFiniteSet(Q)
  <2>1. P \in SUBSET DOMAIN account.perps /\ Q \in SUBSET DOMAIN account.spots
    OBVIOUS
  <2>2. IsFiniteSet(DOMAIN account.perps) /\ IsFiniteSet(DOMAIN account.spots)
    BY UserAccountsAssumption
  <2> HIDE DEF P, Q
  <2> QED BY <2>1, <2>2, FS_Subset
<1>2. P # {} <=> open_markets(account.perps) # {}
  BY DEF open_markets
<1>3. n_positions(account.perps) = Cardinality(P) /\ n_positions(account.spots) = Cardinality(Q)
  BY DEF n_positions
<1> HIDE DEF P, Q
<1>4. Cardinality(P) \in Nat /\ Cardinality(Q) \in Nat /\ (Cardinality(P) = 0 <=> P = {})
  BY <1>1, FS_CardinalityType, FS_EmptySet
<1> QED BY <1>2, <1>3, <1>4

\* The candidates of an answer, and where they are in it.
LEMMA Candidates ==
    ASSUME NEW len \in Nat, NEW answer, Answer(answer, len)
    PROVE  LET S == kept(answer)
               k == Cardinality(S)
           IN  /\ S \subseteq 1 .. len /\ IsFiniteSet(S) /\ k \in Nat
               /\ Listing(candidates_of(answer), k)
               /\ \A c \in 1 .. k : /\ nth(S, c) \in S
                                    /\ answer[nth(S, c)] \in UserAccounts
                                    /\ candidates_of(answer)[c] = liq_candidate(answer[nth(S, c)])
<1> DEFINE S == kept(answer)
           k == Cardinality(S)
<1>1. S \subseteq 1 .. len /\ IsFiniteSet(S)
  <2>1. S \in SUBSET (1 .. len)
    BY DEF kept, Answer
  <2>2. IsFiniteSet(1 .. len)
    BY FS_Interval
  <2> HIDE DEF S
  <2> QED BY <2>1, <2>2, FS_Subset
<1>2. k \in Nat
  BY <1>1, FS_CardinalityType
<1>3. candidates_of(answer) = [c \in 1 .. k |-> liq_candidate(answer[nth(S, c)])]
  BY DEF candidates_of
<1> HIDE DEF S, k
<1>4. \A c \in 1 .. k : nth(S, c) \in S
  <2>1. S \subseteq Nat
    BY <1>1
  <2> QED BY <1>1, <2>1, Nth DEF k
<1>5. \A n \in S : answer[n] \in UserAccounts
  BY <1>1 DEF Answer
<1>6. Listing(candidates_of(answer), k)
  BY <1>3 DEF Listing
<1>7. \A c \in 1 .. k : candidates_of(answer)[c] = liq_candidate(answer[nth(S, c)])
  BY <1>3
<1> QED BY <1>1, <1>2, <1>4, <1>5, <1>6, <1>7 DEF S, k

\* Where simulate and the scan look alike.
LEMMA PicksAgree ==
    ASSUME NEW len \in Nat, NEW answer, Answer(answer, len)
    PROVE  LET scan == candidates_of(answer)
               with_perp == {n \in DOMAIN scan : scan[n].n_perp_positions > 0}
           IN  /\ picked(answer) = {} <=> with_perp = {}
               /\ with_perp # {} =>
                     first_picked(answer).pubkey
                       = scan[CHOOSE n \in with_perp : \A m \in with_perp : n <= m].pubkey
<1> DEFINE scan == candidates_of(answer)
           with_perp == {n \in DOMAIN scan : scan[n].n_perp_positions > 0}
           S == kept(answer)
           k == Cardinality(S)
           at(c) == nth(S, c)
           P == picked(answer)
<1>1. /\ S \subseteq 1 .. len /\ IsFiniteSet(S) /\ k \in Nat
      /\ Listing(scan, k)
      /\ \A c \in 1 .. k : /\ at(c) \in S
                           /\ answer[at(c)] \in UserAccounts
                           /\ scan[c] = liq_candidate(answer[at(c)])
  BY Candidates
<1>2. /\ \A n \in S : \E c \in 1 .. k : at(c) = n
      /\ \A c, d \in 1 .. k : c < d => at(c) < at(d)
  <2>1. S \subseteq Nat
    BY <1>1
  <2> QED BY <1>1, <2>1, Nth
<1>3. P = {n \in S : open_markets(answer[n].perps) # {}}
  <2>1. \A a : picks(a) <=> fate(a) = "candidate" /\ open_markets(a.perps) # {}
    BY DEF picks, fate
  <2> QED BY <2>1 DEF picked, kept
<1>4. DOMAIN scan = 1 .. k
  BY <1>1 DEF Listing
<1>5. ASSUME NEW c \in 1 .. k
      PROVE  /\ scan[c].n_perp_positions > 0 <=> at(c) \in P
             /\ scan[c].pubkey = answer[at(c)].pubkey
  <2> DEFINE a == answer[at(c)]
  <2>1. a \in UserAccounts /\ at(c) \in S /\ scan[c] = liq_candidate(a)
    BY <1>1
  <2>2. at(c) \in P <=> open_markets(a.perps) # {}
    BY <1>3, <2>1
  <2> HIDE DEF a
  <2>3. n_positions(a.perps) > 0 <=> open_markets(a.perps) # {}
    BY <2>1, Positions
  <2>4. scan[c].n_perp_positions = n_positions(a.perps) /\ scan[c].pubkey = a.pubkey
    BY <2>1 DEF liq_candidate
  <2> QED BY <2>2, <2>3, <2>4 DEF a
<1>6. P \subseteq S
  BY <1>3
<1>7. with_perp = {c \in 1 .. k : at(c) \in P}
  <2> HIDE DEF scan, P, at
  <2> QED BY <1>4, <1>5
<1> HIDE DEF scan, with_perp, P, S, k, at
<1>8. P = {} <=> with_perp = {}
  BY <1>2, <1>6, <1>7
<1>9. ASSUME with_perp # {}
      PROVE  first_picked(answer).pubkey
               = scan[CHOOSE n \in with_perp : \A m \in with_perp : n <= m].pubkey
  <2> DEFINE c == CHOOSE n \in with_perp : \A m \in with_perp : n <= m
             p == CHOOSE n \in P : \A m \in P : n <= m
  <2>1. with_perp \subseteq Nat /\ P \subseteq Nat /\ P # {}
    <3>1. with_perp \subseteq Nat
      BY <1>1, <1>7
    <3>2. P \subseteq Nat
      BY <1>1, <1>6
    <3> QED BY <1>8, <1>9, <3>1, <3>2
  <2>2. c \in with_perp /\ \A m \in with_perp : c <= m
    <3>1. \E n \in with_perp : \A m \in with_perp : n <= m
      BY <1>9, <2>1, Least
    <3> QED BY <3>1
  <2>3. p \in P /\ \A m \in P : p <= m
    <3>1. \E n \in P : \A m \in P : n <= m
      BY <2>1, Least
    <3> QED BY <3>1
  <2> HIDE DEF c, p
  <2>4. c \in 1 .. k /\ at(c) \in P
    BY <1>7, <2>2
  <2>5. PICK d \in 1 .. k : at(d) = p
    BY <1>2, <1>6, <2>3
  <2>6. d \in with_perp
    BY <1>7, <2>3, <2>5
  <2>7. c <= d /\ p <= at(c) /\ p \in Nat /\ at(c) \in Nat
    BY <2>1, <2>2, <2>3, <2>4, <2>6
  <2>8. c = d
    <3>1. c \in Nat /\ d \in Nat
      BY <1>1, <2>4
    <3>2. CASE c < d
      <4>1. at(c) < at(d)
        BY <1>2, <2>4, <3>2
      <4> QED BY <2>5, <2>7, <4>1
    <3> QED BY <2>7, <3>1, <3>2
  <2>9. first_picked(answer) = answer[p]
    BY DEF first_picked, p, P
  <2>10. scan[c].pubkey = answer[p].pubkey
    BY <1>5, <2>4, <2>5, <2>8
  <2> QED BY <2>9, <2>10 DEF c
<1> QED BY <1>8, <1>9 DEF scan, with_perp, P

-----------------------------------------------------------------------------
\* Cutting a list.
LEMMA Truncated ==
    ASSUME NEW k \in Nat, NEW list, Listing(list, k), NEW max \in Nat
    PROVE  \E t \in 0 .. k : /\ t = IF k < max THEN k ELSE max
                             /\ truncate(list, max) = [c \in 1 .. t |-> list[c]]
<1> DEFINE t == IF k < max THEN k ELSE max
<1>1. t \in 0 .. k
  OBVIOUS
<1>2. Len(list) = k
  BY DEF Listing
<1>3. truncate(list, max) = SubSeq(list, 1, t)
  BY <1>2 DEF truncate
<1>4. list \in Seq({list[n] : n \in 1 .. k})
  BY DEF Listing
<1> HIDE DEF t
<1>5. /\ Len(SubSeq(list, 1, t)) = t
      /\ \A c \in 1 .. t : SubSeq(list, 1, t)[c] = list[c]
      /\ SubSeq(list, 1, t) \in Seq({list[n] : n \in 1 .. k})
  <2>1. 1 \in 1 .. Len(list) + 1 /\ t \in 1 - 1 .. Len(list)
    BY <1>1, <1>2
  <2> QED BY <1>1, <1>2, <1>4, <2>1
<1>6. SubSeq(list, 1, t) = [c \in 1 .. t |-> list[c]]
  BY <1>1, <1>5
<1> QED BY <1>1, <1>3, <1>6 DEF t

\* The table is made of the first candidates, the most positions first.
LEMMA TableOf ==
    ASSUME NEW len \in Nat, NEW answer, Answer(answer, len)
    PROVE  LET k == Cardinality(kept(answer))
               printed == paper_table(scan_users(answer, MAX_CANDIDATES))
               size(c) == c.n_perp_positions + c.n_spot_positions
           IN  \E t \in 0 .. k :
                  /\ t = IF k < MAX_CANDIDATES THEN k ELSE MAX_CANDIDATES
                  /\ Listing(printed, t)
                  /\ {printed[n].pubkey : n \in 1 .. t}
                       = {answer[nth(kept(answer), c)].pubkey : c \in 1 .. t}
                  /\ \A m, n \in 1 .. t : m < n => size(printed[m]) >= size(printed[n])
<1> DEFINE S == kept(answer)
           k == Cardinality(S)
           scan == candidates_of(answer)
           at(c) == nth(S, c)
           size(c) == c.n_perp_positions + c.n_spot_positions
           healths == [n \in DOMAIN scan |-> scan[n].health]
           short == scan_users(answer, MAX_CANDIDATES)
           printed == paper_table(short)
<1>1. /\ k \in Nat /\ Listing(scan, k)
      /\ \A c \in 1 .. k : answer[at(c)] \in UserAccounts /\ scan[c] = liq_candidate(answer[at(c)])
  BY Candidates
<1>2. DOMAIN scan = 1 .. k
  BY <1>1 DEF Listing
<1> HIDE DEF S, k, scan, at
<1>3. ASSUME NEW c \in 1 .. k
      PROVE  /\ scan[c].pubkey = answer[at(c)].pubkey /\ scan[c].health = 0
             /\ size(scan[c]) \in Int
  <2> DEFINE a == answer[at(c)]
  <2>1. a \in UserAccounts /\ scan[c] = liq_candidate(a)
    BY <1>1
  <2> HIDE DEF a
  <2>2. n_positions(a.perps) \in Nat /\ n_positions(a.spots) \in Nat
    BY <2>1, Positions
  <2> QED BY <2>1, <2>2 DEF liq_candidate, health, a
<1>4. stable_sort(scan, healths) = scan
  <2>1. healths \in [1 .. k -> Int] /\ \A m, n \in 1 .. k : healths[m] = healths[n]
    BY <1>2, <1>3
  <2> HIDE DEF healths
  <2> QED BY <1>1, <2>1, StableSort
<1>5. PICK t \in 0 .. k : /\ t = IF k < MAX_CANDIDATES THEN k ELSE MAX_CANDIDATES
                          /\ truncate(scan, MAX_CANDIDATES) = [c \in 1 .. t |-> scan[c]]
  BY <1>1, BoundsAssumption, Truncated
<1>6. short = [c \in 1 .. t |-> scan[c]]
  BY <1>4, <1>5 DEF scan_users, scan
<1> HIDE DEF short, size
<1>7. t \in Nat /\ \A c \in 1 .. t : c \in 1 .. k
  BY <1>1, <1>5
<1> DEFINE keys == [n \in DOMAIN short |-> -size(short[n])]
<1>8. Listing(short, t) /\ keys = [n \in 1 .. t |-> -size(scan[n])]
  BY <1>6 DEF Listing
<1>9. printed = stable_sort(short, keys)
  BY DEF paper_table, size
<1> HIDE DEF keys, printed
<1>10. PICK from : SortedBy(printed, short, t, keys, from)
  <2>1. keys \in [1 .. t -> Int]
    BY <1>3, <1>7, <1>8
  <2> QED BY <1>7, <1>8, <1>9, <2>1, StableSort
<1>11. /\ from \in [1 .. t -> 1 .. t]
       /\ \A n \in 1 .. t : \E p \in 1 .. t : from[p] = n
       /\ printed = [p \in 1 .. t |-> scan[from[p]]]
       /\ \A p, q \in 1 .. t : p < q => keys[from[p]] <= keys[from[q]]
  <2>1. /\ from \in [1 .. t -> 1 .. t]
        /\ \A n \in 1 .. t : \E p \in 1 .. t : from[p] = n
        /\ printed = [p \in 1 .. t |-> short[from[p]]]
        /\ \A p, q \in 1 .. t : p < q => keys[from[p]] <= keys[from[q]]
    BY <1>10 DEF SortedBy
  <2> QED BY <1>6, <2>1
<1>12. Listing(printed, t)
  BY <1>11 DEF Listing
<1>13. {printed[n].pubkey : n \in 1 .. t} = {answer[at(c)].pubkey : c \in 1 .. t}
  <2>1. \A n \in 1 .. t : from[n] \in 1 .. t /\ printed[n].pubkey = answer[at(from[n])].pubkey
    BY <1>3, <1>7, <1>11
  <2> DEFINE f(c) == answer[at(c)].pubkey
             g(n) == printed[n].pubkey
  <2>2. \A n \in 1 .. t : from[n] \in 1 .. t /\ g(n) = f(from[n])
    BY <2>1
  <2> HIDE DEF f, g
  <2>3. {g(n) : n \in 1 .. t} = {f(c) : c \in 1 .. t}
    BY <1>11, <2>2
  <2> QED BY <2>3 DEF f, g
<1>14. ASSUME NEW m \in 1 .. t, NEW n \in 1 .. t, m < n PROVE size(printed[m]) >= size(printed[n])
  <2> DEFINE p == from[m]
             q == from[n]
  <2>1. p \in 1 .. t /\ q \in 1 .. t /\ printed[m] = scan[p] /\ printed[n] = scan[q]
        /\ keys[p] <= keys[q]
    BY <1>11, <1>14
  <2> HIDE DEF p, q
  <2>2. keys[p] = -size(scan[p]) /\ keys[q] = -size(scan[q])
    BY <1>8, <2>1
  <2>3. size(scan[p]) \in Int /\ size(scan[q]) \in Int
    BY <1>3, <1>7, <2>1
  <2> QED BY <2>1, <2>2, <2>3
<1> QED BY <1>5, <1>12, <1>13, <1>14 DEF S, k, at, size, printed, short

\* The first members of a set of indices, at most max.
first_places(S, max) == {n \in S : Cardinality({m \in S : m <= n}) <= max}

Firsts(S, max, t) ==
    /\ \A n : n \in first_places(S, max) <=> \E c \in 1 .. t : n = nth(S, c)
    /\ Cardinality(first_places(S, max)) = t

LEMMA FirstOf ==
    ASSUME NEW S, S \subseteq Nat, IsFiniteSet(S), NEW max \in Nat,
           NEW t, t = IF Cardinality(S) < max THEN Cardinality(S) ELSE max
    PROVE  Firsts(S, max, t)
<1> DEFINE k == Cardinality(S)
           at(c) == nth(S, c)
           upto(n) == Cardinality({m \in S : m <= n})
           places == {n \in S : upto(n) <= max}
           f == [c \in 1 .. t |-> at(c)]
<1>1. /\ k \in Nat
      /\ \A c \in 1 .. k : at(c) \in S
      /\ \A n \in S : \E c \in 1 .. k : at(c) = n
      /\ \A c, d \in 1 .. k : c < d => at(c) < at(d)
      /\ \A c \in 1 .. k : upto(at(c)) = c
  BY Nth
<1>2. t \in Nat /\ t <= k /\ t <= max /\ (t = k \/ t = max)
  BY <1>1
<1> HIDE DEF k, at, upto
<1>3. ASSUME NEW c \in 1 .. t PROVE c \in 1 .. k /\ at(c) \in places
  <2>1. c \in 1 .. k /\ c <= max
    BY <1>1, <1>2
  <2> QED BY <1>1, <2>1
<1>4. ASSUME NEW n \in places PROVE \E c \in 1 .. t : at(c) = n
  <2>1. PICK c \in 1 .. k : at(c) = n
    BY <1>1
  <2>2. c <= max
    BY <1>1, <2>1
  <2>3. c \in 1 .. t
    BY <1>1, <1>2, <2>2
  <2> QED BY <2>1, <2>3
<1>5. \A n : n \in places <=> \E c \in 1 .. t : n = at(c)
  <2> HIDE DEF places
  <2> QED BY <1>3, <1>4
<1>6. ASSUME NEW c \in 1 .. t, NEW d \in 1 .. t, at(c) = at(d) PROVE c = d
  <2>1. upto(at(c)) = c /\ upto(at(d)) = d
    BY <1>1, <1>3
  <2> QED BY <1>6, <2>1
<1> HIDE DEF places
<1>7. f \in Bijection(1 .. t, places)
  <2>1. f \in [1 .. t -> places]
    BY <1>3
  <2>2. \A c, d \in 1 .. t : f[c] = f[d] => c = d
    BY <1>6
  <2>3. \A n \in places : \E c \in 1 .. t : f[c] = n
    BY <1>4
  <2> HIDE DEF f
  <2> QED BY <2>1, <2>2, <2>3 DEF Bijection, Injection, Surjection, IsInjective
<1>8. Cardinality(places) = t
  <2>1. ExistsBijection(1 .. t, places)
    BY <1>7 DEF ExistsBijection
  <2>2. IsFiniteSet(1 .. t) /\ Cardinality(1 .. t) = t
    BY <1>2, FS_Interval
  <2> QED BY <2>1, <2>2, FS_Bijection
<1> QED BY <1>5, <1>8 DEF Firsts, first_places, places, at, upto

\* The table of an answer.
LEMMA TableFirst ==
    ASSUME NEW len \in Nat, Answer(accounts, len),
           table = paper_table(scan_users(accounts, MAX_CANDIDATES))
    PROVE  TableIsFirstCandidates
<1> DEFINE S == kept(accounts)
           k == Cardinality(S)
           at(c) == nth(S, c)
           places == first_places(S, MAX_CANDIDATES)
           size(c) == c.n_perp_positions + c.n_spot_positions
<1>1. S = {n \in DOMAIN accounts : fate(accounts[n]) = "candidate"}
  BY DEF kept
<1>2. PICK t \in 0 .. k : /\ t = IF k < MAX_CANDIDATES THEN k ELSE MAX_CANDIDATES
                          /\ Listing(table, t)
                          /\ {table[n].pubkey : n \in 1 .. t} = {accounts[at(c)].pubkey : c \in 1 .. t}
                          /\ \A m, n \in 1 .. t : m < n => size(table[m]) >= size(table[n])
  BY TableOf
<1>3. S \subseteq Nat /\ IsFiniteSet(S) /\ k \in Nat
  BY Candidates
<1>4. (\A n : n \in places <=> \E c \in 1 .. t : n = at(c)) /\ Cardinality(places) = t
  <2> HIDE DEF S
  <2>1. t = IF k < MAX_CANDIDATES THEN k ELSE MAX_CANDIDATES
    BY <1>2
  <2>2. Firsts(S, MAX_CANDIDATES, t)
    BY <1>3, <2>1, BoundsAssumption, FirstOf
  <2> QED BY <2>2 DEF Firsts
<1>5. Len(table) = t /\ DOMAIN table = 1 .. t
  <2>1. t \in Nat
    BY <1>2, <1>3
  <2> QED BY <1>2, <2>1 DEF Listing
<1> HIDE DEF at, size
<1>6. {accounts[at(c)].pubkey : c \in 1 .. t} = {accounts[n].pubkey : n \in places}
  <2> HIDE DEF places
  <2> QED BY <1>4
<1>7. /\ Len(table) = Cardinality(places)
      /\ {table[n].pubkey : n \in DOMAIN table} = {accounts[n].pubkey : n \in places}
      /\ \A m, n \in DOMAIN table : m < n => size(table[m]) >= size(table[n])
  <2> HIDE DEF places
  <2> QED BY <1>2, <1>4, <1>5, <1>6
<1> HIDE DEF S
<1> QED BY <1>1, <1>7 DEF TableIsFirstCandidates, first_places, size

\* What the commands have of an answer, and what paper printed of it.
ScanInv ==
    /\ \E len \in Nat : Answer(accounts, len)
    /\ mode = "paper" /\ exit = "ok" => table = paper_table(scan_users(accounts, MAX_CANDIDATES))

\* No account is known at first.
LEMMA InitScan == Init => ScanInv
<1> SUFFICES ASSUME Init PROVE ScanInv
  OBVIOUS
<1>1. Answer(accounts, 0)
  BY DEF Init, Answer
<1> QED BY <1>1 DEF Init, ScanInv

\* Every answer has different accounts, and the table is that of the last one.
LEMMA NextScan == ScanInv /\ [Next]_all_vars => ScanInv'
<1> SUFFICES ASSUME ScanInv, [Next]_all_vars PROVE ScanInv'
  OBVIOUS
<1>1. ASSUME NEW answer \in program_accounts, accounts' = answer
      PROVE  \E len \in Nat : Answer(accounts, len)'
  <2>1. PICK len \in 0 .. MaxAnswer : /\ answer \in [1 .. len -> {a \in UserAccounts : holdable(a)}]
                                      /\ \A m, n \in DOMAIN answer : answer[m] = answer[n] => m = n
    BY DEF program_accounts
  <2>2. len \in Nat /\ Answer(answer, len)
    BY <2>1, BoundsAssumption DEF Answer
  <2> QED BY <1>1, <2>2 DEF Answer
<1>2. ASSUME accounts' = accounts PROVE \E len \in Nat : Answer(accounts, len)'
  BY <1>2 DEF ScanInv, Answer
<1>3. CASE \E k \in Kinds : LoadMarkets(k)
  BY <1>2, <1>3 DEF LoadMarkets, ScanInv
<1>4. CASE RequestFails
  BY <1>2, <1>4 DEF RequestFails, end, ScanInv
<1>5. CASE \E answer \in program_accounts : PickAndBuild(answer)
  BY <1>1, <1>5 DEF PickAndBuild, running, ScanInv
<1>6. CASE \E answer \in program_accounts : ScanAndPrint(answer)
  BY <1>1, <1>6 DEF ScanAndPrint, ScanInv
<1>7. CASE Simulate
  BY <1>2, <1>7 DEF Simulate, running, ScanInv
<1>8. CASE UNCHANGED liquidator_vars
  BY <1>2, <1>8 DEF liquidator_vars, ScanInv
<1> QED BY <1>3, <1>4, <1>5, <1>6, <1>7, <1>8 DEF Next, Command, all_vars

\* On such an answer the walks agree.
LEMMA ScanInvAgree == ScanInv => ScansAgree
<1> SUFFICES ASSUME ScanInv PROVE ScansAgree
  OBVIOUS
<1>1. PICK len \in Nat : Answer(accounts, len)
  BY DEF ScanInv
<1>2. TableIsFirstCandidates
  <2>1. CASE mode = "paper" /\ exit = "ok"
    BY <1>1, <2>1, TableFirst DEF ScanInv
  <2>2. CASE ~(mode = "paper" /\ exit = "ok")
    BY <2>2 DEF TableIsFirstCandidates
  <2> QED BY <2>1, <2>2
<1> QED BY <1>1, <1>2, PicksAgree DEF ScansAgree

(***************************************************************************)
(* scan_users and pick_candidate_with_perp_position agree on every answer: *)
(* simulate picks the first of the scan's candidates that has a perp       *)
(* position, and none exactly if there is none; the table of the paper     *)
(* mode is the first candidates, as many as fit, most positions first.     *)
(***************************************************************************)
THEOREM SameUsers == Spec => []ScansAgree
BY InitScan, NextScan, ScanInvAgree, PTL DEF Spec

=============================================================================

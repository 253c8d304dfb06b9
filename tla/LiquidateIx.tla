----------------------------- MODULE LiquidateIx -----------------------------
(***************************************************************************)
(* build_liquidate_perp_ix of crates/liquidator/src/ix.rs: the accounts a  *)
(* liquidate_perp instruction names, and how the Drift program reads them. *)
(* A pubkey is a number, for its byte order.  A user is the record of      *)
(* module UserScan, of which the positions and the keys are used.          *)
(***************************************************************************)
EXTENDS Integers, Sequences, FiniteSets

CONSTANTS
    perp_pda, spot_pda,         \* market index -> pubkey
    perp_oracle, spot_oracle,   \* market index -> pubkey of its oracle
    Available                   \* a slot of a position array that is not in use

QUOTE_SPOT == 0

-----------------------------------------------------------------------------
Oracle(key)         == [kind |-> "Oracle", pubkey |-> key, writable |-> FALSE]
Spot(key, writable) == [kind |-> "Spot", pubkey |-> key, writable |-> writable]
Perp(key, writable) == [kind |-> "Perp", pubkey |-> key, writable |-> writable]

discriminant(x) ==
    CASE x.kind = "Oracle" -> 0
      [] x.kind = "Spot"   -> 1
      [] x.kind = "Perp"   -> 2

\* eq: the flag is not compared.
same(x, y) == x.kind = y.kind /\ x.pubkey = y.pubkey

\* cmp: by kind, then by key.
before(x, y) ==
    \/ discriminant(x) < discriminant(y)
    \/ discriminant(x) = discriminant(y) /\ x.pubkey < y.pubkey

\* BTreeSet::insert, of several accounts: what is there already stays.
insert(ra, accounts) == ra \cup {x \in accounts : \A y \in ra : ~same(x, y)}

\* The markets of the positions that are not available.
open_markets(positions) == {positions[n] : n \in DOMAIN positions} \ {Available}

\* The accounts of the markets a user touches, all readable.
touched(user) ==
    {Spot(spot_pda[m], FALSE) : m \in open_markets(user.spots)}
        \cup {Oracle(spot_oracle[m]) : m \in open_markets(user.spots)}
        \cup {Perp(perp_pda[m], FALSE) : m \in open_markets(user.perps)}
        \cup {Oracle(perp_oracle[m]) : m \in open_markets(user.perps)}

target_accounts(market_index) ==
    {Perp(perp_pda[market_index], TRUE), Oracle(perp_oracle[market_index])}

quote_accounts == {Spot(spot_pda[QUOTE_SPOT], FALSE), Oracle(spot_oracle[QUOTE_SPOT])}

\* Mutant: the readable accounts go in first.
Mutant_TargetLast(liquidator, liquidatee, market_index) ==
    insert(insert(insert(insert({}, touched(liquidator)), touched(liquidatee)),
                  target_accounts(market_index)),
           quote_accounts)

\* The target goes in first, then what either user touches, then the quote market.
remaining_accounts(liquidator, liquidatee, market_index) ==
    insert(insert(insert(insert({}, target_accounts(market_index)),
                         touched(liquidator)),
                  touched(liquidatee)),
           quote_accounts)

\* Iteration over the BTreeSet.
in_order(ra) ==
    [n \in 1 .. Cardinality(ra) |->
        CHOOSE x \in ra : Cardinality({y \in ra : before(y, x)}) = n - 1]

\* Every lookup in the market maps succeeds; markets.perp and markets.spot panic otherwise.
lookups_succeed(perps, spots, liquidator, liquidatee, market_index) ==
    /\ {market_index} \cup open_markets(liquidator.perps)
          \cup open_markets(liquidatee.perps) \subseteq perps
    /\ {QUOTE_SPOT} \cup open_markets(liquidator.spots)
          \cup open_markets(liquidatee.spots) \subseteq spots

user_pda(user)       == <<"user", user.authority, user.sub_account_id>>
user_stats_pda(user) == <<"user_stats", user.authority>>

\* The fixed accounts, in the order of the IDL: <<pubkey, writable, signer>>.
base_accounts(liquidator, liquidatee) ==
    << << <<"drift_state">>, FALSE, FALSE >>,
       << liquidator.authority, FALSE, TRUE >>,
       << user_pda(liquidator), TRUE, FALSE >>,
       << user_stats_pda(liquidator), TRUE, FALSE >>,
       << liquidatee.pubkey, TRUE, FALSE >>,
       << user_stats_pda(liquidatee), TRUE, FALSE >> >>

build_liquidate_perp_ix(liquidator, liquidatee, market_index) ==
    [base         |-> base_accounts(liquidator, liquidatee),
     remaining    |-> in_order(remaining_accounts(liquidator, liquidatee, market_index)),
     market_index |-> market_index]

-----------------------------------------------------------------------------
(***************************************************************************)
(* The program (external) takes oracles from the front of the remaining    *)
(* accounts as long as there are any, then spot and then perp markets.     *)
(***************************************************************************)
run_of(kind, accounts, from) ==
    {n \in from .. Len(accounts) : \A m \in from .. n : accounts[m].kind = kind}

loaded_accounts(accounts) ==
    LET oracles == run_of("Oracle", accounts, 1)
        spots   == run_of("Spot", accounts, Cardinality(oracles) + 1)
        perps   == run_of("Perp", accounts, Cardinality(oracles) + Cardinality(spots) + 1)
    IN  {accounts[n] : n \in oracles \cup spots \cup perps}

\* What the program has to find for a liquidation between two users.
required(liquidator, liquidatee, market_index) ==
    target_accounts(market_index) \cup quote_accounts
        \cup {x \in touched(liquidator) \cup touched(liquidatee) :
                 ~same(x, Perp(perp_pda[market_index], FALSE))}

program_loads(ix, liquidator, liquidatee) ==
    /\ required(liquidator, liquidatee, ix.market_index) \subseteq loaded_accounts(ix.remaining)
    /\ ix.base[3][1] = user_pda(liquidator) /\ ix.base[5][1] = user_pda(liquidatee)

=============================================================================

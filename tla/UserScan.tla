------------------------------ MODULE UserScan ------------------------------
(***************************************************************************)
(* The two walks over the User accounts that getProgramAccounts returned:  *)
(* scan_users of crates/liquidator/src/scanner.rs and the pick of a        *)
(* candidate in simulate.rs.  An account is                                *)
(*   size_ok            its length is the one of the User struct           *)
(*   decode             try_deserialize: "ok", "err" or "panic" (caught)    *)
(*   being_liquidated, bankrupt, authority, sub_account_id                 *)
(*   perps, spots       its position arrays                                *)
(***************************************************************************)
EXTENDS LiquidateIx

\* Which counter of the scan an account goes to; the checks come in this order.
fate(account) ==
    IF ~account.size_ok THEN "size_mismatch"
    ELSE IF account.decode # "ok" THEN "decode_failures"
    ELSE IF account.being_liquidated \/ account.bankrupt THEN "already_liquidating"
    ELSE "candidate"

n_positions(positions) == Cardinality({n \in DOMAIN positions : positions[n] # Available})

\* With the margin calculation stubbed, total_collateral = 0 and margin_requirement = 1.
health(account) == 0

liq_candidate(account) ==
    [pubkey |-> account.pubkey, health |-> health(account),
     n_perp_positions |-> n_positions(account.perps),
     n_spot_positions |-> n_positions(account.spots)]

\* A stable sort, lowest key first: equal elements keep their order.
stable_sort(list, key) ==
    LET place(n) == 1 + Cardinality({m \in DOMAIN list :
                          key[m] < key[n] \/ (m < n /\ key[m] = key[n])})
    IN  [p \in DOMAIN list |-> list[CHOOSE n \in DOMAIN list : place(n) = p]]

truncate(list, max) == SubSeq(list, 1, IF Len(list) < max THEN Len(list) ELSE max)

\* The accounts the scan keeps, by their index in the answer.
kept(accounts) == {n \in DOMAIN accounts : fate(accounts[n]) = "candidate"}

\* The c-th of a set of indices.
nth(S, c) == CHOOSE n \in S : Cardinality({m \in S : m < n}) = c - 1

\* The candidates in the order of the answer.
candidates_of(accounts) ==
    [c \in 1 .. Cardinality(kept(accounts)) |-> liq_candidate(accounts[nth(kept(accounts), c)])]

scan_users(accounts, max_candidates) ==
    LET list == candidates_of(accounts)
    IN  truncate(stable_sort(list, [n \in DOMAIN list |-> list[n].health]), max_candidates)

\* The table of the paper mode: by number of open positions, most first.
paper_table(list) ==
    stable_sort(list, [n \in DOMAIN list |-> -(list[n].n_perp_positions + list[n].n_spot_positions)])

-----------------------------------------------------------------------------
\* Mutant: any position will do.
Mutant_AnyPosition(account) ==
    /\ account.size_ok
    /\ account.decode = "ok"
    /\ ~(account.being_liquidated \/ account.bankrupt)
    /\ open_markets(account.perps) \cup open_markets(account.spots) # {}

\* pick_candidate_with_perp_position: an account it does not skip.
picks(account) ==
    /\ account.size_ok
    /\ account.decode = "ok"
    /\ ~(account.being_liquidated \/ account.bankrupt)
    /\ open_markets(account.perps) # {}

picked(accounts) == {n \in DOMAIN accounts : picks(accounts[n])}

\* The first of them.
first_picked(accounts) ==
    accounts[CHOOSE n \in picked(accounts) : \A m \in picked(accounts) : n <= m]

\* The market of the first position that is not available.
first_open_market(positions) ==
    positions[CHOOSE n \in DOMAIN positions :
                 /\ positions[n] # Available
                 /\ \A m \in DOMAIN positions : positions[m] # Available => n <= m]

=============================================================================

---------------------------- MODULE MCLiquidator ----------------------------
(***************************************************************************)
(* Up to three markets of each kind with a scan that is bounded at two;    *)
(* perp 1 and spot 1 share an oracle, and the keys are in another order    *)
(* than the indices.                                                       *)
(***************************************************************************)
EXTENDS Liquidator

MCPerpPda    == [m \in 0 .. 2 |-> <<40, 30, 35>>[m + 1]]
MCSpotPda    == [m \in 0 .. 2 |-> <<31, 45, 33>>[m + 1]]
MCPerpOracle == [m \in 0 .. 2 |-> <<50, 20, 25>>[m + 1]]
MCSpotOracle == [m \in 0 .. 2 |-> <<60, 20, 34>>[m + 1]]

user(name, perps, spots) ==
    [pubkey |-> <<"user", name, 0>>, authority |-> name, sub_account_id |-> 0,
     size_ok |-> TRUE, decode |-> "ok", being_liquidated |-> FALSE,
     bankrupt |-> FALSE, perps |-> perps, spots |-> spots]

MCUserAccounts ==
    {user("one", <<Available, 1, 0>>, <<0, 1>>),
     user("two", <<0, 2>>, <<Available, Available>>),
     user("spot only", <<Available>>, <<1>>),
     [user("bankrupt", <<0>>, <<0>>) EXCEPT !.bankrupt = TRUE],
     [user("liquidating", <<1>>, <<>>) EXCEPT !.being_liquidated = TRUE],
     [user("garbled", <<0>>, <<2>>) EXCEPT !.decode = "panic"],
     [user("resized", <<0>>, <<>>) EXCEPT !.size_ok = FALSE]}

=============================================================================

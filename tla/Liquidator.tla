----------------------------- MODULE Liquidator -----------------------------
(***************************************************************************)
(* The simulate and paper modes of crates/liquidator: simulate loads the   *)
(* markets, picks a user, builds a liquidate_perp instruction that names   *)
(* the user on both sides, has it simulated and judges the logs; paper     *)
(* subscribes, scans the users and prints a table.                         *)
(*                                                                         *)
(* The chain goes on while the command runs: between two requests a market *)
(* may be listed, and a user may open a position in it.                    *)
(***************************************************************************)
EXTENDS Markets, UserScan

CONSTANTS
    UserAccounts,       \* the accounts of the Drift program that users can have
    MaxAnswer,          \* bound of the model: accounts in an answer
    MAX_CANDIDATES,     \* of the paper mode, 20 in the code
    NoIx

ASSUME BoundsAssumption == MaxAnswer \in Nat /\ MAX_CANDIDATES \in Nat

\* Positions are in arrays; external: the program keeps a user at its derived address.
ASSUME UserAccountsAssumption ==
    \A a \in UserAccounts :
        /\ DOMAIN a.perps \subseteq Nat
        /\ IsFiniteSet(DOMAIN a.perps) /\ IsFiniteSet(DOMAIN a.spots)
        /\ a.pubkey = user_pda(a)

\* Every market that can be listed has its keys.
ASSUME KeysAssumption ==
    \A m \in 0 .. MaxListed - 1 :
        {perp_pda[m], spot_pda[m], perp_oracle[m], spot_oracle[m]} \subseteq Nat

VARIABLES
    mode,           \* "simulate" or "paper"
    accounts,       \* what getProgramAccounts returned
    ix,             \* the instruction
    verdict,        \* what the command says at its end
    table,          \* the table that the paper mode prints
    exit            \* "running", "ok", "err" or "panic"

liquidator_vars == <<mode, accounts, ix, verdict, table, exit>>

all_vars == <<markets_vars, liquidator_vars>>

Init ==
    /\ mode \in {"simulate", "paper"}
    /\ MarketsInit
    /\ accounts = <<>>
    /\ ix = NoIx
    /\ verdict = "none"
    /\ table = <<>>
    /\ exit = "running"

-----------------------------------------------------------------------------
\* External: positions are held in listed markets only.
holdable(account) ==
    /\ open_markets(account.perps) \subseteq 0 .. listed["perp"] - 1
    /\ open_markets(account.spots) \subseteq 0 .. listed["spot"] - 1

\* External: an answer of getProgramAccounts, in any order.
program_accounts ==
    {list \in UNION {[1 .. n -> {a \in UserAccounts : holdable(a)}] : n \in 0 .. MaxAnswer} :
        \A m, n \in DOMAIN list : list[m] = list[n] => m = n}

end(how, says) == exit' = how /\ verdict' = says

running(m, at) == mode = m /\ exit = "running" /\ pc = at

\* A step of Markets::load; a market that does not decode ends the command,
\* or the process when the decoder panics.
LoadMarkets(k) ==
    /\ mode = "simulate"
    /\ exit = "running"
    /\ Load(k)
    /\ CASE pc' = "failed"   -> end("err", "load markets")
         [] pc' = "panicked" -> end("panic", "decode market")
         [] OTHER            -> UNCHANGED <<exit, verdict>>
    /\ UNCHANGED <<mode, accounts, ix, table>>

\* getProgramAccounts, the blockhash or the simulation fails, or the subscription.
RequestFails ==
    /\ running(mode, IF mode = "simulate" THEN "loaded" ELSE "perp")
    /\ end("err", "rpc")
    /\ UNCHANGED <<markets_vars, mode, accounts, ix, table>>

(***************************************************************************)
(* The user is picked and the instruction built, with the maps as they     *)
(* were loaded and the positions as they are now.                          *)
(***************************************************************************)
PickAndBuild(answer) ==
    /\ running("simulate", "loaded")
    /\ ix = NoIx
    /\ accounts' = answer
    /\ IF picked(answer) = {}
       THEN end("err", "no candidate") /\ UNCHANGED ix
       ELSE LET user   == first_picked(answer)
                target == first_open_market(user.perps)
            IN  IF lookups_succeed(cache["perp"], cache["spot"], user, user, target)
                THEN /\ ix' = build_liquidate_perp_ix(user, user, target)
                     /\ UNCHANGED <<exit, verdict>>
                ELSE end("panic", "market not in cache") /\ UNCHANGED ix
    /\ UNCHANGED <<markets_vars, mode, table>>

\* interpret: a success signal anywhere in the logs comes before a layout signal.
interpret(logs, failed) ==
    IF "solvency" \in logs THEN "structure is correct"
    ELSE IF "layout" \in logs THEN "layout is wrong"
    ELSE IF ~failed THEN "no error"
    ELSE "unrecognized"

\* External: what the program logs; it gets to the margin only with its accounts.
logs_of(user) ==
    IF program_loads(ix, user, user)
    THEN {<<{"solvency"}, TRUE>>, <<{}, FALSE>>, <<{"other"}, TRUE>>}
    ELSE {<<{"layout"}, TRUE>>, <<{"other"}, TRUE>>}

Simulate ==
    /\ running("simulate", "loaded")
    /\ ix # NoIx
    /\ \E result \in logs_of(first_picked(accounts)) :
          end("ok", interpret(result[1], result[2]))
    /\ UNCHANGED <<markets_vars, mode, accounts, ix, table>>

\* The paper mode: the table is all it leaves.
ScanAndPrint(answer) ==
    /\ running("paper", "perp")
    /\ accounts' = answer
    /\ table' = paper_table(scan_users(answer, MAX_CANDIDATES))
    /\ end("ok", "table printed")
    /\ UNCHANGED <<markets_vars, mode, ix>>

Command ==
    \/ \E k \in Kinds : LoadMarkets(k)
    \/ RequestFails
    \/ /\ exit = "running" /\ ix = NoIx
       /\ pc = IF mode = "simulate" THEN "loaded" ELSE "perp"
       /\ \E answer \in program_accounts : PickAndBuild(answer) \/ ScanAndPrint(answer)
    \/ Simulate

Next ==
    \/ Command
    \/ \E k \in Kinds : ListMarket(k) /\ UNCHANGED liquidator_vars

Spec == Init /\ [][Next]_all_vars

-----------------------------------------------------------------------------
(***************************************************************************)
(* The command panics only for a reason outside it: the decoder of a       *)
(* market panicked, or a lookup failed and a request had failed during the *)
(* scan, a market was listed after it, the chain has more markets than the *)
(* scan's bound, or not even the quote market.                             *)
(***************************************************************************)
PanicExplained ==
    exit = "panic" =>
        \/ pc = "panicked"
        \/ listed["spot"] = 0
        \/ \E k \in Kinds :
              rpc_error[k] \/ listed_at[k] < listed[k] \/ listed[k] > MAX_MARKETS

(***************************************************************************)
(* Whatever was cached and however the positions lie, an instruction that  *)
(* is built is one the program can load: it finds every market, oracle and *)
(* the quote market where it looks for them, each account is named once,   *)
(* and the market that is liquidated, and no other account, is writable,   *)
(* also when the user's own positions name it again.                       *)
(***************************************************************************)
InstructionLoads ==
    ix # NoIx =>
        /\ program_loads(ix, first_picked(accounts), first_picked(accounts))
        /\ \A m, n \in DOMAIN ix.remaining : m < n => before(ix.remaining[m], ix.remaining[n])
        /\ {n \in DOMAIN ix.remaining : ix.remaining[n].writable}
              = {n \in DOMAIN ix.remaining :
                    same(ix.remaining[n], Perp(perp_pda[ix.market_index], TRUE))}

(***************************************************************************)
(* The table of the paper mode is the first users of the answer that are   *)
(* neither liquidated nor bankrupt, as many as fit, and those with the     *)
(* most positions come first: what is cut off is decided by the order of   *)
(* the answer alone, since the margin calculation is stubbed.              *)
(***************************************************************************)
TableIsFirstCandidates ==
    mode = "paper" /\ exit = "ok" =>
        LET live   == {n \in DOMAIN accounts : fate(accounts[n]) = "candidate"}
            places == {n \in live : Cardinality({m \in live : m <= n}) <= MAX_CANDIDATES}
            size(c) == c.n_perp_positions + c.n_spot_positions
        IN  /\ Len(table) = Cardinality(places)
            /\ {table[n].pubkey : n \in DOMAIN table} = {accounts[n].pubkey : n \in places}
            /\ \A m, n \in DOMAIN table : m < n => size(table[m]) >= size(table[n])

(***************************************************************************)
(* The two walks over the users agree: the user simulate picks is the      *)
(* first of scan_users' candidates that has a perp position, simulate      *)
(* finds none exactly when the scan has none, and the table of the paper   *)
(* mode is drawn from the same candidates.                                 *)
(***************************************************************************)
ScansAgree ==
    LET scan == candidates_of(accounts)
        with_perp == {n \in DOMAIN scan : scan[n].n_perp_positions > 0}
    IN  /\ picked(accounts) = {} <=> with_perp = {}
        /\ with_perp # {} =>
              first_picked(accounts).pubkey
                = scan[CHOOSE n \in with_perp : \A m \in with_perp : n <= m].pubkey
        /\ TableIsFirstCandidates

=============================================================================

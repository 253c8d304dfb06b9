------------------------------- MODULE Markets -------------------------------
(***************************************************************************)
(* Markets::load of crates/liquidator/src/markets.rs: the perp and then    *)
(* the spot markets are fetched one by one, from index 0, until a fetch    *)
(* fails.  The chain lists its markets without gaps and may list new ones  *)
(* at any time; a node may fail any request.                               *)
(***************************************************************************)
EXTENDS Integers

CONSTANTS
    MAX_MARKETS,    \* the bound of each scan, 64 in the code
    MaxListed       \* bound of the model: markets the chain ever lists

ASSUME MaxMarketsAssumption == MAX_MARKETS \in Nat /\ MaxListed \in Nat

Kinds == {"perp", "spot"}

VARIABLES
    listed,         \* external: how many markets of each kind the chain has
    pc,             \* "perp", "spot": scanning; then "loaded", "failed" or "panicked"
    next,           \* the index to be fetched next
    cache,          \* kind -> the indices in the map
    listed_at,      \* history: kind -> markets listed when its scan ended
    rpc_error       \* history: kind -> its scan ended with a failed request

markets_vars == <<listed, pc, next, cache, listed_at, rpc_error>>

MarketsInit ==
    /\ listed \in [Kinds -> 0 .. MaxListed]
    /\ pc = "perp"
    /\ next = 0
    /\ cache = [k \in Kinds |-> {}]
    /\ listed_at = [k \in Kinds |-> 0]
    /\ rpc_error = [k \in Kinds |-> FALSE]

-----------------------------------------------------------------------------
\* External: a market is added at the end of its list.
ListMarket(k) ==
    /\ listed[k] < MaxListed
    /\ listed' = [listed EXCEPT ![k] = @ + 1]
    /\ UNCHANGED <<pc, next, cache, listed_at, rpc_error>>

\* The loop over list k is left.
EndScan(k) ==
    /\ pc' = IF k = "perp" THEN "spot" ELSE "loaded"
    /\ next' = 0
    /\ listed_at' = [listed_at EXCEPT ![k] = listed[k]]

FetchMarket(k) ==
    /\ pc = k
    /\ next < MAX_MARKETS
    /\ next < listed[k]
    /\ cache' = [cache EXCEPT ![k] = @ \cup {next}]
    /\ next' = next + 1
    /\ UNCHANGED <<listed, pc, listed_at, rpc_error>>

\* Ways in which try_deserialize leaves load: its Err, and a panic in the
\* decoder, which this call, unlike those of the user scans, does not catch.
DecodeOutcomes == {"failed", "panicked"}

\* The account does not decode as a market.
DecodeFails(k, how) ==
    /\ pc = k
    /\ next < MAX_MARKETS
    /\ next < listed[k]
    /\ pc' = how
    /\ UNCHANGED <<listed, next, cache, listed_at, rpc_error>>

\* Mutant: after a request that failed the loop goes on with the next index.
Mutant_SkipsFailed(k, failed) ==
    /\ pc = k
    /\ next < MAX_MARKETS
    /\ failed \/ next >= listed[k]
    /\ IF failed
       THEN next' = next + 1 /\ UNCHANGED <<pc, listed_at>>
       ELSE EndScan(k)
    /\ UNCHANGED <<listed, cache, rpc_error>>

\* Err(_) => break, for an account that does not exist and for a request that failed.
FetchErr(k, failed) ==
    /\ pc = k
    /\ next < MAX_MARKETS
    /\ failed \/ next >= listed[k]
    /\ rpc_error' = [rpc_error EXCEPT ![k] = failed]
    /\ EndScan(k)
    /\ UNCHANGED <<listed, cache>>

Exhausted(k) ==
    /\ pc = k
    /\ next = MAX_MARKETS
    /\ EndScan(k)
    /\ UNCHANGED <<listed, cache, rpc_error>>

Load(k) ==
    \/ FetchMarket(k)
    \/ \E how \in DecodeOutcomes : DecodeFails(k, how)
    \/ \E failed \in BOOLEAN : FetchErr(k, failed)
    \/ Exhausted(k)

-----------------------------------------------------------------------------
min(m, n) == IF m <= n THEN m ELSE n

(***************************************************************************)
(* A map never has a hole and never an entry the chain does not back: it   *)
(* holds the first markets of its list, and while it is filled exactly     *)
(* those below the index of the loop.                                      *)
(***************************************************************************)
CacheIsPrefix ==
    \A k \in Kinds :
        \E n \in 0 .. min(MAX_MARKETS, listed[k]) :
            /\ cache[k] = 0 .. n - 1
            /\ pc = k => n = next

(***************************************************************************)
(* "Stops at the first index that returns account does not exist", which   *)
(* "gives us the live count": a loaded map holds every market that was     *)
(* listed when its scan ended, up to the bound.                            *)
(***************************************************************************)
MarketsComplete ==
    pc = "loaded" =>
        \A k \in Kinds : cache[k] = 0 .. min(MAX_MARKETS, listed_at[k]) - 1

=============================================================================

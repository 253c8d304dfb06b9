--------------------------- MODULE LeaderResolver ---------------------------
(***************************************************************************)
(* HeliusLeaderResolver of crates/listener/src/leader.rs: a cache of the   *)
(* leader schedule, filled a window at a time from getSlotLeaders, shared  *)
(* by any number of threads that call leader_for_slot.                     *)
(*                                                                         *)
(* The steps of a call are the points between which another thread can     *)
(* run: a read of the cache under its RwLock, taking the inflight mutex,   *)
(* the RPC, the fill under the write lock (insertion and eviction in one   *)
(* critical section), the last read.                                       *)
(***************************************************************************)
EXTENDS Integers, Sequences, FiniteSets

CONSTANTS
    Threads,
    Slots,                \* the slots the RPC node has a schedule for
    Pubkeys,
    Schedule,             \* the schedule: slot -> pubkey
    BATCH_SIZE,           \* 1000 in the code
    MAX_CACHE_ENTRIES,    \* 100_000 in the code
    NoLeader,             \* None, and a slot that is not in the cache
    NoThread              \* the inflight mutex is free

ASSUME SlotsAssumption == Slots \subseteq Nat /\ IsFiniteSet(Slots)
ASSUME ScheduleAssumption == Schedule \in [Slots -> Pubkeys]
ASSUME BatchAssumption == BATCH_SIZE \in Nat \ {0}
ASSUME MaxCacheAssumption == MAX_CACHE_ENTRIES \in Nat
ASSUME NoValueAssumption == NoLeader \notin Pubkeys /\ NoThread \notin Threads

VARIABLES
    cache,      \* slot -> pubkey, NoLeader where there is no entry
    inflight,   \* the thread that holds the inflight mutex
    pc,         \* where each thread is in leader_for_slot
    slot,       \* the slot each thread asks for
    leaders,    \* the list of pubkeys the thread's RPC returned
    result      \* what the thread's last call returned

vars == <<cache, inflight, pc, slot, leaders, result>>

cached(c) == {s \in Slots : c[s] # NoLeader}

Init ==
    /\ cache = [s \in Slots |-> NoLeader]
    /\ inflight = NoThread
    /\ pc = [t \in Threads |-> "idle"]
    /\ slot \in [Threads -> Slots]
    /\ leaders = [t \in Threads |-> <<>>]
    /\ result = [t \in Threads |-> NoLeader]

-----------------------------------------------------------------------------
\* The thread returns r; a guard it holds is dropped.
Return(t, r) ==
    /\ pc' = [pc EXCEPT ![t] = "idle"]
    /\ result' = [result EXCEPT ![t] = r]
    /\ leaders' = [leaders EXCEPT ![t] = <<>>]

Call(t, s) ==
    /\ pc[t] = "idle"
    /\ pc' = [pc EXCEPT ![t] = "read"]
    /\ slot' = [slot EXCEPT ![t] = s]
    /\ UNCHANGED <<cache, inflight, leaders, result>>

\* The first read: return on a hit, go for the mutex on a miss.
Read(t) ==
    /\ pc[t] = "read"
    /\ IF cache[slot[t]] # NoLeader
       THEN Return(t, cache[slot[t]])
       ELSE /\ pc' = [pc EXCEPT ![t] = "lock"]
            /\ UNCHANGED <<result, leaders>>
    /\ UNCHANGED <<cache, inflight, slot>>

Lock(t) ==
    /\ pc[t] = "lock"
    /\ inflight = NoThread
    /\ inflight' = t
    /\ pc' = [pc EXCEPT ![t] = "recheck"]
    /\ UNCHANGED <<cache, slot, leaders, result>>

\* Mutant: the cache is not read again after the mutex was taken.
Mutant_NoRecheck(t) ==
    /\ pc[t] = "recheck"
    /\ pc' = [pc EXCEPT ![t] = "fetch"]
    /\ UNCHANGED <<cache, inflight, slot, leaders, result>>

Recheck(t) ==
    /\ pc[t] = "recheck"
    /\ IF cache[slot[t]] # NoLeader
       THEN Return(t, cache[slot[t]]) /\ inflight' = NoThread
       ELSE /\ pc' = [pc EXCEPT ![t] = "fetch"]
            /\ UNCHANGED <<inflight, result, leaders>>
    /\ UNCHANGED <<cache, slot>>

(***************************************************************************)
(* fetch_window: the node answers with a list of n pubkeys, at most        *)
(* BATCH_SIZE, the leaders of consecutive slots from the one asked for and *)
(* no further than its schedule goes.  The list does not say which slot a  *)
(* pubkey is for.                                                          *)
(***************************************************************************)
FetchOk(t, n) ==
    /\ pc[t] = "fetch"
    /\ slot[t] .. slot[t] + n - 1 \subseteq Slots
    /\ leaders' = [leaders EXCEPT ![t] = [i \in 1 .. n |-> Schedule[slot[t] + i - 1]]]
    /\ pc' = [pc EXCEPT ![t] = "fill"]
    /\ UNCHANGED <<cache, inflight, slot, result>>

\* Mutant: an early return keeps the guard alive.
Mutant_KeepsGuard(t) ==
    /\ pc[t] = "fetch"
    /\ Return(t, NoLeader)
    /\ UNCHANGED <<cache, inflight, slot>>

\* Transport error, RPC error, or an answer that does not decode.
FetchErr(t) ==
    /\ pc[t] = "fetch"
    /\ Return(t, NoLeader)
    /\ inflight' = NoThread
    /\ UNCHANGED <<cache, slot>>

\* Mutant: the list is stored one slot too far, as if it began after `start'.
Mutant_InsertShifted(c, start, answer) ==
    [s \in Slots |-> IF s - start \in 1 .. Len(answer) THEN answer[s - start] ELSE c[s]]

\* The pubkey at position i of the list, from 0, is stored under start + i.
inserted(c, start, answer) ==
    [s \in Slots |-> IF s - start \in 0 .. Len(answer) - 1
                     THEN answer[s - start + 1] ELSE c[s]]

\* Mutant: one entry too many survives.
Mutant_EvictLate(c) ==
    [s \in Slots |-> IF Cardinality({u \in cached(c) : u > s}) <= MAX_CACHE_ENTRIES
                     THEN c[s] ELSE NoLeader]

\* Mutant: the keys are sorted the other way round.
Mutant_EvictNewest(c) ==
    [s \in Slots |-> IF Cardinality({u \in cached(c) : u < s}) < MAX_CACHE_ENTRIES
                     THEN c[s] ELSE NoLeader]

\* Eviction removes the smallest slots until MAX_CACHE_ENTRIES are left.
evicted(c) ==
    [s \in Slots |-> IF Cardinality({u \in cached(c) : u > s}) < MAX_CACHE_ENTRIES
                     THEN c[s] ELSE NoLeader]

Fill(t) ==
    /\ pc[t] = "fill"
    /\ cache' = evicted(inserted(cache, slot[t], leaders[t]))
    /\ pc' = [pc EXCEPT ![t] = "final"]
    /\ UNCHANGED <<inflight, slot, leaders, result>>

Final(t) ==
    /\ pc[t] = "final"
    /\ Return(t, cache[slot[t]])
    /\ inflight' = NoThread
    /\ UNCHANGED <<cache, slot>>

\* The steps of a call once it has begun.
Step(t) ==
    \/ Read(t)
    \/ Lock(t)
    \/ Recheck(t)
    \/ \E n \in 0 .. BATCH_SIZE : FetchOk(t, n)
    \/ FetchErr(t)
    \/ Fill(t)
    \/ Final(t)

Next == \E t \in Threads : Step(t) \/ \E s \in Slots : Call(t, s)

Spec == Init /\ [][Next]_vars

(***************************************************************************)
(* A thread that can run does run.  Nothing is assumed of the RPC, for     *)
(* which the code sets no timeout: a thread may stay in its fetch.  The    *)
(* mutex is not fair, so nothing is assumed about who gets it.             *)
(***************************************************************************)
FairSpec == Spec /\ \A t \in Threads : WF_vars(pc[t] # "fetch" /\ Step(t))

-----------------------------------------------------------------------------
\* Type invariant.
TypeOK ==
    /\ cache \in [Slots -> Pubkeys \cup {NoLeader}]
    /\ inflight \in Threads \cup {NoThread}
    /\ pc \in [Threads -> {"idle", "read", "lock", "recheck", "fetch", "fill", "final"}]
    /\ slot \in [Threads -> Slots]
    /\ leaders \in [Threads -> Seq(Pubkeys)]
    /\ result \in [Threads -> Pubkeys \cup {NoLeader}]

(***************************************************************************)
(* A list of pubkeys without slots is stored by position from the slot its *)
(* own thread asked for.  Whatever the interleaving of fills, evictions,   *)
(* short answers and failed fetches, each entry of the cache is the leader *)
(* of its slot, and a finished call returned the leader of the slot it     *)
(* asked for, or None.                                                     *)
(***************************************************************************)
Coherent ==
    /\ \A s \in Slots : cache[s] \in {Schedule[s], NoLeader}
    /\ \A t \in Threads :
          pc[t] = "idle" => result[t] \in {Schedule[slot[t]], NoLeader}

(***************************************************************************)
(* inflight "guards in-flight batch fetches to avoid stampedes": no two    *)
(* threads are past the mutex, and a thread about to fetch asks for a slot *)
(* that is not in the cache, also when another thread filled it meanwhile. *)
(***************************************************************************)
NoStampede ==
    \A t \in Threads :
        /\ pc[t] \in {"recheck", "fetch", "fill", "final"} <=> inflight = t
        /\ pc[t] = "fetch" => cache[slot[t]] = NoLeader

\* The cache never keeps more than MAX_CACHE_ENTRIES entries between fills.
CacheBounded == Cardinality(cached(cache)) <= MAX_CACHE_ENTRIES

(***************************************************************************)
(* The mutex stays taken for one reason only, a request that is never      *)
(* answered: on every other path, the failures included, whoever holds it  *)
(* gives it up.                                                            *)
(***************************************************************************)
GuardReleased ==
    \A t \in Threads : inflight = t ~> (inflight # t \/ [](pc[t] = "fetch"))

(***************************************************************************)
(* "None = unknown", as far as it holds: a call whose fetch brought the    *)
(* leader of its slot answers None only when the fill evicted that slot,   *)
(* because MAX_CACHE_ENTRIES higher ones are cached.                       *)
(***************************************************************************)
KnownUnlessEvicted ==
    \A t \in Threads :
        pc[t] = "final" /\ leaders[t] # <<>> =>
            \/ cache[slot[t]] # NoLeader
            \/ /\ Cardinality(cached(cache)) = MAX_CACHE_ENTRIES
               /\ \A s \in cached(cache) : s > slot[t]

=============================================================================

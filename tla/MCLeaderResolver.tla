-------------------------- MODULE MCLeaderResolver --------------------------
(***************************************************************************)
(* Small instances of LeaderResolver: windows of two slots, a cache of     *)
(* three entries over five slots, so that it fills up and evicts.          *)
(***************************************************************************)
EXTENDS LeaderResolver

\* Neighbouring slots have different leaders.
MCPubkeys  == {"p", "q"}
MCSchedule == [s \in Slots |-> IF s % 2 = 0 THEN "p" ELSE "q"]

=============================================================================

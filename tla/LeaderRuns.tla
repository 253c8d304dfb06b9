----------------------------- MODULE LeaderRuns -----------------------------
(***************************************************************************)
(* The leaders command of crates/cli/src/main.rs: the answer of            *)
(* getSlotLeaders is printed as runs of slots with one leader.             *)
(***************************************************************************)
EXTENDS Integers, Sequences

CONSTANTS
    Leaders,
    NoLeaderYet,        \* prev = None
    StartSlots,         \* the first slot asked for
    Answers             \* the lists of leaders a node can answer with

ASSUME LeadersAssumption == NoLeaderYet \notin Leaders
ASSUME AnswersAssumption == StartSlots \subseteq Nat /\ Answers \subseteq Seq(Leaders)

VARIABLES
    start, arr,         \* the question and the answer
    i,                  \* slots looked at
    prev, run_start,    \* the run that is being extended
    printed,            \* the lines printed: <<first slot, last slot, leader>>
    ended

runs_vars == <<start, arr, i, prev, run_start, printed, ended>>

RunsInit ==
    /\ start \in StartSlots
    /\ arr \in Answers
    /\ i = 0
    /\ prev = NoLeaderYet
    /\ run_start = start
    /\ printed = <<>>
    /\ ended = FALSE

\* Mutant: the last slot of a run is printed one too high.
Mutant_OffByOne(lines, last) ==
    IF prev = NoLeaderYet THEN lines ELSE Append(lines, <<run_start, last + 1, prev>>)

\* The line of the run that ends at slot `last', if there is a run.
with_run(lines, last) ==
    IF prev = NoLeaderYet THEN lines ELSE Append(lines, <<run_start, last, prev>>)

NextLeader ==
    /\ i < Len(arr)
    /\ IF arr[i + 1] # prev
       THEN /\ printed' = with_run(printed, start + i - 1)
            /\ prev' = arr[i + 1]
            /\ run_start' = start + i
       ELSE UNCHANGED <<printed, prev, run_start>>
    /\ i' = i + 1
    /\ UNCHANGED <<start, arr, ended>>

LastRun ==
    /\ i = Len(arr)
    /\ ~ended
    /\ printed' = with_run(printed, start + Len(arr) - 1)
    /\ ended' = TRUE
    /\ UNCHANGED <<start, arr, i, prev, run_start>>

RunsNext == NextLeader \/ LastRun

RunsSpec == RunsInit /\ [][RunsNext]_runs_vars

-----------------------------------------------------------------------------
\* The lines so far tell the leaders of the slots below `upto', and of no others.
tells(lines, upto) ==
    /\ \A n \in 1 .. Len(lines) : \A s \in lines[n][1] .. lines[n][2] :
          start <= s /\ s < upto /\ lines[n][3] = arr[s - start + 1]
    /\ \A s \in start .. upto - 1 :
          \E n \in 1 .. Len(lines) : lines[n][1] <= s /\ s <= lines[n][2]

(***************************************************************************)
(* The lines printed are the answer: once the loop is over every slot of   *)
(* it is in a line, with its leader, no other slot is, and a run is never  *)
(* split: neighbouring lines meet and name different leaders.              *)
(***************************************************************************)
RunsExact ==
    /\ ended => tells(printed, start + Len(arr))
    /\ \A n \in 1 .. Len(printed) - 1 :
          /\ printed[n + 1][1] = printed[n][2] + 1
          /\ printed[n + 1][3] # printed[n][3]

=============================================================================

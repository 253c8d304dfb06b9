---------------------------- MODULE MCAlgorithms ----------------------------
(***************************************************************************)
(* The pure algorithms of the crates and the commands built on them, each  *)
(* run to its end on all its small inputs and on the edges of its real     *)
(* ones.  One job runs; the variables of the others keep one value.        *)
(***************************************************************************)
EXTENDS MerkleVerify, MCSlotRoot, DasSampling, ShredLayout, FecPayload, LeaderRuns,
        MCDemo, MCRpcAttest

VARIABLE job

demo_vars == <<vars, dvars>>

all_vars ==
    <<job, merkle_vars, slot_root_vars, drawn, layout_vars, payload_vars, runs_vars,
      demo_vars, rpc_vars>>

Jobs == {"merkle", "slot_root", "sampling", "layout", "payload", "runs", "demo", "rpc"}

\* An rpc-attest command whose first request failed.
RpcEnded ==
    chain = <<NoAccount>> /\ pc = "failure" /\ snap_old = NoSnapshot /\ snap_new = NoSnapshot

\* The jobs that have several initial states have one when they do not run.
AtRest ==
    /\ IF job = "merkle" THEN TRUE ELSE size = 1 /\ content = 0 /\ claimed = 0
    /\ IF job = "layout" THEN TRUE ELSE raw_len = 0 /\ byte = 0
    /\ IF job = "payload" THEN TRUE ELSE payload_len = 0
    /\ IF job = "runs" THEN TRUE ELSE start = 1 /\ arr = <<>>
    /\ IF job = "demo" THEN TRUE ELSE command = <<"das", 0>>

MCInit ==
    /\ job \in Jobs
    /\ AtRest
    /\ MerkleInit
    /\ SlotRootInit
    /\ SamplingInit
    /\ LayoutInit
    /\ PayloadInit
    /\ RunsInit
    /\ DemoInit
    /\ IF job = "rpc" THEN RpcInit ELSE RpcEnded

MCNext ==
    \/ /\ job = "merkle" /\ MerkleNext
       /\ UNCHANGED <<job, slot_root_vars, drawn, layout_vars, payload_vars, runs_vars>>
       /\ UNCHANGED <<demo_vars, rpc_vars>>
    \/ /\ job = "slot_root" /\ SlotRootNext
       /\ UNCHANGED <<job, merkle_vars, drawn, layout_vars, payload_vars, runs_vars>>
       /\ UNCHANGED <<demo_vars, rpc_vars>>
    \/ /\ job = "sampling" /\ SamplingNext
       /\ UNCHANGED <<job, merkle_vars, slot_root_vars, layout_vars, payload_vars, runs_vars>>
       /\ UNCHANGED <<demo_vars, rpc_vars>>
    \/ /\ job = "layout" /\ LayoutNext
       /\ UNCHANGED <<job, merkle_vars, slot_root_vars, drawn, payload_vars, runs_vars>>
       /\ UNCHANGED <<demo_vars, rpc_vars>>
    \/ /\ job = "payload" /\ PayloadNext
       /\ UNCHANGED <<job, merkle_vars, slot_root_vars, drawn, layout_vars, runs_vars>>
       /\ UNCHANGED <<demo_vars, rpc_vars>>
    \/ /\ job = "runs" /\ RunsNext
       /\ UNCHANGED <<job, merkle_vars, slot_root_vars, drawn, layout_vars, payload_vars>>
       /\ UNCHANGED <<demo_vars, rpc_vars>>
    \/ /\ job = "demo" /\ Feed
       /\ UNCHANGED <<job, merkle_vars, slot_root_vars, drawn, layout_vars, payload_vars>>
       /\ UNCHANGED <<runs_vars, rpc_vars>>
    \/ /\ job = "rpc" /\ RpcNext
       /\ UNCHANGED <<job, merkle_vars, slot_root_vars, drawn, layout_vars, payload_vars>>
       /\ UNCHANGED <<runs_vars, demo_vars>>

\* Only the rpc-attest command has a fairness of its own.
MCSpec == MCInit /\ [][MCNext]_all_vars /\ RpcFairness

-----------------------------------------------------------------------------
\* Both sides of every length parse_shred compares with, and an empty datagram.
MCLengths == {0, 82, 83, 84, 1202, 1203, 1227, 1228, 1500}

\* The real sizes, at the edges of one shred and of the whole set.
MCPayloadLengths == {0, 1, 962, 963, 964, 12000, 16000, 30815, 30816, 30817}

MCAnswers == UNION {[1 .. n -> Leaders] : n \in 0 .. 6}

=============================================================================

------------------------------ MODULE Listener ------------------------------
(***************************************************************************)
(* The UDP task of crates/listener/src/udp.rs around a FecAssembler, the   *)
(* bounded mpsc channel it sends events on, and the consumer of            *)
(* crates/listener/src/main.rs, which sees nothing but those events.       *)
(*                                                                         *)
(* The task awaits a datagram, ingests it, and awaits room in the channel  *)
(* for each event in turn; a datagram that comes meanwhile waits in the    *)
(* socket or is lost.  The receiver may be dropped at any moment.          *)
(***************************************************************************)
EXTENDS FecAssembler, SequencesExt

CONSTANT CAPACITY       \* of the channel, 1024 in the code

ASSUME CapacityAssumption == CAPACITY \in Nat \ {0}

VARIABLES
    task,           \* where the task awaits: "recv", "send", "send_error"; or "stopped"
    pending,        \* the events still to be sent before the next recv_from
    channel,        \* the events sent and not yet received
    rx_open,        \* the receiver has not been dropped
    view            \* what the consumer knows from the events it received

lvars == <<task, pending, channel, rx_open, view>>

-----------------------------------------------------------------------------
(***************************************************************************)
(* The consumer learns roots, counts and reconstructions of the sets and   *)
(* the finalized slots with the roots reported for them.                   *)
(***************************************************************************)
NewView ==
    [root      |-> [k \in FecKey |-> NoRoot],
     present   |-> [k \in FecKey |-> 0],
     done      |-> {},
     finalized |-> [s \in {} |-> s]]

\* The map f with entry x for s.
inserted(f, s, x) == [u \in DOMAIN f \cup {s} |-> IF u = s THEN x ELSE f[u]]

learn(v, ev) ==
    CASE ev.type = "Started" -> [v EXCEPT !.root[ev.key] = ev.merkle_root]
      [] ev.type = "ShredAccepted" -> [v EXCEPT !.present[ev.key] = ev.shreds_present]
      [] ev.type = "Reconstructed" -> [v EXCEPT !.done = @ \cup {ev.key}]
      [] ev.type = "SlotFinalized" ->
            [v EXCEPT !.finalized = inserted(@, ev.slot, ev.fec_roots)]
      [] ev.type = "Rejected" -> v

ListenerInit ==
    /\ Init
    /\ task = "recv"
    /\ pending = <<>>
    /\ channel = <<>>
    /\ rx_open = TRUE
    /\ view = NewView

\* recv_from returns a datagram; ingest runs to its end before the next await.
Recv(d, leader) ==
    /\ task = "recv"
    /\ ingest(d, leader)
    /\ pending' = events'
    /\ task' = IF events' = <<>> THEN "recv" ELSE "send"
    /\ UNCHANGED <<channel, rx_open, view>>

RecvError ==
    /\ task = "recv"
    /\ pending' = <<Rejected("recv_from")>>
    /\ task' = "send_error"
    /\ UNCHANGED <<vars, channel, rx_open, view>>

sending == task \in {"send", "send_error"}

\* Mutant: an event that finds the channel full is dropped.
Mutant_TrySend ==
    /\ sending
    /\ rx_open
    /\ channel' = IF Len(channel) < CAPACITY THEN Append(channel, Head(pending)) ELSE channel
    /\ pending' = Tail(pending)
    /\ task' = IF Tail(pending) = <<>> THEN "recv" ELSE task
    /\ UNCHANGED <<vars, rx_open, view>>

\* tx.send(ev).await completes when there is room.
Send ==
    /\ sending
    /\ rx_open
    /\ Len(channel) < CAPACITY
    /\ channel' = Append(channel, Head(pending))
    /\ pending' = Tail(pending)
    /\ task' = IF Tail(pending) = <<>> THEN "recv" ELSE task
    /\ UNCHANGED <<vars, rx_open, view>>

\* Mutant: a failed send is ignored for every event.
Mutant_IgnoresClosed ==
    /\ sending
    /\ ~rx_open
    /\ pending' = <<>>
    /\ task' = "recv"
    /\ UNCHANGED <<vars, channel, rx_open, view>>

\* A send after the receiver is gone ends the task, except for a recv_from error.
SendFails ==
    /\ sending
    /\ ~rx_open
    /\ pending' = <<>>
    /\ task' = IF task = "send" THEN "stopped" ELSE "recv"
    /\ UNCHANGED <<vars, channel, rx_open, view>>

\* One turn of the consumer's loop.
Consume ==
    /\ rx_open
    /\ channel # <<>>
    /\ view' = learn(view, Head(channel))
    /\ channel' = Tail(channel)
    /\ UNCHANGED <<vars, task, pending, rx_open>>

\* The receiver is dropped with what it holds.
DropReceiver ==
    /\ rx_open
    /\ rx_open' = FALSE
    /\ channel' = <<>>
    /\ UNCHANGED <<vars, task, pending, view>>

ListenerNext ==
    \/ \E d \in Datagrams : \E leader \in leader_for_slot(d.slot) : Recv(d, leader)
    \/ RecvError
    \/ Send
    \/ SendFails
    \/ Consume
    \/ DropReceiver

ListenerSpec == ListenerInit /\ [][ListenerNext]_<<vars, lvars>>

(***************************************************************************)
(* tokio polls a task whose send can complete, and the consumer loops until*)
(* it goes away.  Nothing is assumed of the network.                       *)
(***************************************************************************)
ListenerFairSpec ==
    /\ ListenerSpec
    /\ WF_<<vars, lvars>>(Send \/ SendFails)
    /\ WF_<<vars, lvars>>(Consume)

-----------------------------------------------------------------------------
\* What a consumer with no event outstanding must know.
assembler_view ==
    [root      |-> [k \in FecKey |-> states[k].merkle_root],
     present   |-> [k \in FecKey |-> states[k].distinct_seen],
     done      |-> {k \in FecKey : states[k].reconstructed},
     finalized |-> [s \in {u \in Slots : slots[u].finalized} |-> finalizations[s][1]]]

(***************************************************************************)
(* The event stream is complete: the consumer that works off what is in    *)
(* the channel and what the task is still sending knows the state of the   *)
(* assembler exactly.  No path of ingest changes a set or a slot without   *)
(* its event, and back-pressure neither loses nor reorders any.            *)
(***************************************************************************)
StreamComplete ==
    rx_open => FoldLeft(learn, view, channel \o pending) = assembler_view

(***************************************************************************)
(* The stream makes sense event by event: whatever prefix the consumer has *)
(* received, a set it believes done had its root announced and 32 shreds   *)
(* accepted, and a slot it believes finalized covers only sets that were   *)
(* announced done, under the root announced for them.                      *)
(***************************************************************************)
PrefixConsistent ==
    /\ \A k \in view.done :
          view.root[k] # NoRoot /\ view.present[k] = DATA_SHREDS_PER_FEC
    /\ \A s \in DOMAIN view.finalized : \A i \in DOMAIN view.finalized[s] :
          /\ <<s, i>> \in view.done
          /\ view.root[<<s, i>>] = view.finalized[s][i]

(***************************************************************************)
(* A finalized slot is eventually known to the consumer, however full the  *)
(* channel was, unless the consumer goes away.                             *)
(***************************************************************************)
FinalizationDelivered ==
    \A s \in Slots : slots[s].finalized ~> (s \in DOMAIN view.finalized \/ ~rx_open)

(***************************************************************************)
(* Once the consumer is gone the task stops, or it awaits datagrams for    *)
(* ever: it outlives the consumer only on a network that brings it nothing *)
(* but errors and datagrams without an event, since only a failed send of  *)
(* an event ends its loop.                                                 *)
(***************************************************************************)
StopsAfterDrop == ~rx_open ~> (task = "stopped" \/ [](task # "send"))

=============================================================================

----------------------------- MODULE MCListener -----------------------------
(***************************************************************************)
(* Small instances of Listener: the datagrams that finalize a slot of two  *)
(* sets, one more shred, one of another root, one past the end of its set  *)
(* and one that does not parse, over a channel that is shorter than the    *)
(* longest list of events.                                                 *)
(***************************************************************************)
EXTENDS Listener, MCFecAssembler

MCStream ==
    {shred(1, "Data", 0, 0, "a", FALSE), shred(1, "Code", 1, 0, "a", FALSE),
     shred(1, "Data", 1, 0, "x", TRUE),
     shred(1, "Data", 2, 2, "b", TRUE), shred(1, "Code", 0, 2, "b", FALSE),
     out_of_range(1),
     [shred(1, "Data", 0, 0, "a", TRUE) EXCEPT !.wellformed = FALSE]}

=============================================================================

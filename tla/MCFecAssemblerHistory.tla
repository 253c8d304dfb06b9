----------------------- MODULE MCFecAssemblerHistory -----------------------
(***************************************************************************)
(* The instances of MCFecAssembler with the input history.                 *)
(***************************************************************************)
EXTENDS FecAssemblerHistory, MCFecAssembler

=============================================================================

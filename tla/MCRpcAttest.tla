---------------------------- MODULE MCRpcAttest ----------------------------
(***************************************************************************)
(* One account with data, in two versions, or without data.                *)
(***************************************************************************)
EXTENDS RpcAttest

account(content) == [pubkey |-> "p", lamports |-> 5, content |-> content]

MCAccounts == {account(c) : c \in {"x", "x flipped", "y", "y flipped", "empty"}}

MCFlip ==
    [a \in AccountForHash |->
        CASE a.content = "x" -> account("x flipped")
          [] a.content = "x flipped" -> account("x")
          [] a.content = "y" -> account("y flipped")
          [] a.content = "y flipped" -> account("y")
          [] a.content = "empty" -> NoAccount]

=============================================================================

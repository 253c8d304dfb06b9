------------------------------ MODULE MCAttest ------------------------------
(***************************************************************************)
(* Two accounts: p with two contents and a tombstone, q with one content.  *)
(***************************************************************************)
EXTENDS Attest

account(pubkey, lamports, content) ==
    [pubkey |-> pubkey, lamports |-> lamports, content |-> content]

MCAccounts ==
    {account("p", 5, "x"), account("p", 5, "y"), account("p", 0, "x"), account("q", 7, "x")}

\* p exists and q does not, or the other way round.
MCStarts ==
    {[r \in AccountKeys |-> IF r = "p" THEN account("p", 5, "x") ELSE NoAccount],
     [r \in AccountKeys |-> IF r = "p" THEN NoAccount ELSE account("q", 7, "x")]}

=============================================================================

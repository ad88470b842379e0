------------------------------- MODULE MCReap -------------------------------
(* Reap on a small instance: one driver with one instance id, a stranger    *)
(* with another, and the command lines whose scopes differ: two the gates   *)
(* refuse, one for leaks, one for orphans by age, one for the account.      *)
EXTENDS Reap

MCListingLags == {{"lag"}}

LedgerReap == [NoFlags EXCEPT !.ledger = TRUE, !.yes = TRUE]

MCFlagSets ==
  { LedgerReap,
    [NoFlags EXCEPT !.yes = TRUE],
    [NoFlags EXCEPT !.all = TRUE, !.yes = TRUE],
    [NoFlags EXCEPT !.label = TRUE, !.yes = TRUE],
    [NoFlags EXCEPT !.label = TRUE, !.older = TRUE, !.yes = TRUE] }

=============================================================================

----------------------------- MODULE MCEconomy -----------------------------
(* Economy for TLC: one credit, one debit and the one debit that is not    *)
(* checked, of amounts of either sign.                                     *)
EXTENDS Economy, TLC

Symmetry == Permutations(Calls) \union Permutations(Accounts)

MCTypes == {"CREDIT", "DEBIT", "ADMIN_DEDUCT"}
MCAmounts == {-1, 1, 2}
=============================================================================

----------------------------- MODULE MCAccounts -----------------------------
EXTENDS Accounts, TLC

Symmetry == Permutations(Users) \cup Permutations(Sessions)
=============================================================================

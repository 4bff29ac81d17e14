----------------------------- MODULE MCAccounts -----------------------------
EXTENDS Accounts, TLC

CONSTANTS p, q

Interchangeable == Permutations(Requests)
=============================================================================

--------------------------- MODULE MCTournamentUI ---------------------------
EXTENDS TournamentUI, TLC

Symmetry == Permutations(Requests)
=============================================================================

------------------------- MODULE MCTournamentServer -------------------------
EXTENDS TournamentServer, TLC

Symmetry == Permutations(Requests)
=============================================================================

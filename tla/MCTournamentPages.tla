------------------------- MODULE MCTournamentPages -------------------------
EXTENDS TournamentPages

CONSTANTS a, b

OneFormEach == {<<a, 1>>, <<b, 1>>}
=============================================================================

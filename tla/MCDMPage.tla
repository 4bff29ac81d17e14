------------------------------ MODULE MCDMPage ------------------------------
EXTENDS DMPage

CONSTANTS a, b
=============================================================================

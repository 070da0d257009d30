------------------------------ MODULE MCPlayer ------------------------------
EXTENDS Player
=============================================================================

-------------------------- MODULE MCAccountArming --------------------------
\* Two accounts: one REAL and one DEMO, or both REAL.
EXTENDS AccountArming

CONSTANTS a1, a2
=============================================================================

-------------------------- MODULE MCServerLifecycle --------------------------
EXTENDS ServerLifecycle
CONSTANTS c1, c2, c3, k1, k2
==============================================================================

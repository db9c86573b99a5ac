----------------------------- MODULE MCShutdown -----------------------------
EXTENDS Shutdown

CONSTANTS h1, h2, t1, j1, j2
=============================================================================

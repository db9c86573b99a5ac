------------------------------ MODULE MCWebUI ------------------------------
\* The web UI for TLC: the constants are plain strings, given in the .cfg.
EXTENDS WebUI
=============================================================================

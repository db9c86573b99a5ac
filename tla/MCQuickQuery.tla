---------------------------- MODULE MCQuickQuery ----------------------------
\* The quick query for TLC: texts are plain strings, given in the .cfg.
EXTENDS QuickQuery
=============================================================================

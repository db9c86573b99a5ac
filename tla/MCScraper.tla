----------------------------- MODULE MCScraper -----------------------------
\* The scraper for TLC.
EXTENDS Scraper
CONSTANT r1
=============================================================================

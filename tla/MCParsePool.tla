---------------------------- MODULE MCParsePool -----------------------------
EXTENDS ParsePool
=============================================================================

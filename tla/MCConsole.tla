----------------------------- MODULE MCConsole -----------------------------
EXTENDS Console

MCSize == {0, 7, 8}
MCRaw == {0, 1, 1022, 1023, 1024}
=============================================================================

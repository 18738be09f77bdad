---------------------------- MODULE MCHelperPool ----------------------------
\* HelperPool with two helpers at most: every pool size from none to two, two
\* searches, every command between and during them.
EXTENDS HelperPool
=============================================================================

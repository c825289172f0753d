---------------------------- MODULE MCWorkGroups ----------------------------
EXTENDS WorkGroups, TLC
=============================================================================

---------------------------- MODULE MCLE1Device -----------------------------
EXTENDS LE1Device, TLC
=============================================================================

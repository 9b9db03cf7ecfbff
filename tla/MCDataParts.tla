---------------------------- MODULE MCDataParts ----------------------------
EXTENDS DataParts, TLC
=============================================================================

---------------------------- MODULE MCRandomCycle ----------------------------
\* Instances of RandomCycle for TLC.
EXTENDS RandomCycle
=============================================================================

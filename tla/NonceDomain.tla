----------------------------- MODULE NonceDomain ----------------------------
\* The constants of Nonces, shared with the model of the whole adapter.
EXTENDS Naturals

CONSTANTS
    Tasks,    \* the mutations one client prepares
    NoTask,
    MaxNonce  \* bound on the nonces the venue uses up

ASSUME NoTaskAssumption == NoTask \notin Tasks
ASSUME NonceAssumption == MaxNonce \in Nat

Nonce == 0..MaxNonce
=============================================================================

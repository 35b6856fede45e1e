------------------------------ MODULE MCPaper ------------------------------
\* Model checking of the paper farmer: two attempts in two windows; two halves
\* of an order that traded in the first, and a whole one that traded after the
\* first cutoff.
EXTENDS Paper

MCTrades == {[id |-> 1, quantity |-> 1, at |-> 1],
             [id |-> 2, quantity |-> 1, at |-> 1],
             [id |-> 3, quantity |-> 2, at |-> 2]}

PaperSpec ==
    /\ Init /\ [][Next]_vars
    /\ WF_vars(PassCutoff)
    /\ WF_vars(CancelAtCutoff)
============================================================================

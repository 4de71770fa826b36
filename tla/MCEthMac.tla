------------------------------ MODULE MCEthMac ------------------------------
EXTENDS EthMac
\* A good frame, one for another station in which the PHY signals an error, and
\* noise.
MCKinds == {[len |-> 4, own |-> TRUE, fcs |-> TRUE, er |-> -1, sfd |-> TRUE],
            [len |-> 1, own |-> FALSE, fcs |-> TRUE, er |-> 0, sfd |-> TRUE],
            [len |-> 0, own |-> TRUE, fcs |-> FALSE, er |-> -1, sfd |-> FALSE]}
MCFilters == {{"addr"}, {"fcs"}}
=============================================================================

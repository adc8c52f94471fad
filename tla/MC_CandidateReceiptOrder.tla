---------------------- MODULE MC_CandidateReceiptOrder ----------------------
EXTENDS CandidateReceiptOrder

CONSTANTS h1, h2, c1, c2, p1, v1, k1

MCRelayParents == {h1, h2}
MCCollators == {c1, c2}
=============================================================================

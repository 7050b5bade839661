------------------------- MODULE MCSettlementReview -------------------------
(* Two equal transfers, so that the money of one can pay for a wrong move of *)
(* the other; the agents of each run are listed in its configuration.        *)
EXTENDS SettlementReview, TLC

CONSTANTS t1, t2, w1, w2, s1, s2, none

MCNoTransfer == none
MCAmount == [t \in Transfer |-> 1]
=============================================================================

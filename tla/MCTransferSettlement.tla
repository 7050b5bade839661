------------------------ MODULE MCTransferSettlement ------------------------
(* Three transfers of different amounts, of which the wallet covers the    *)
(* first and one more, and two concurrent workers.                          *)
EXTENDS TransferSettlement, TLC

CONSTANTS t1, t2, t3, w1, w2, none

MCTransfer == {t1, t2, t3}
MCNoTransfer == none
MCAmount == t1 :> 2 @@ t2 :> 1 @@ t3 :> 1
MCWorker == {w1, w2}
=============================================================================

----------------------- MODULE MCTransferCoordinator -----------------------
(* Two transfers of one sanad, called by one task.                         *)
EXTENDS TransferCoordinator

CONSTANTS t1, t2, s1, k1

Rivals == {t1, t2}
OneSanad == {s1}
RivalSanads == [t \in Rivals |-> s1]
OneCaller == {k1}
=============================================================================

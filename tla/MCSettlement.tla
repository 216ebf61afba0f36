---------------------------- MODULE MCSettlement ----------------------------
(* Two transfers of one sanad and the clerk that settles its escrow.       *)
EXTENDS Settlement

CONSTANTS t1, t2, s1, k1, c1

Rivals == {t1, t2}
OneSanad == {s1}
RivalSanads == [t \in Rivals |-> s1]
OneCaller == {k1}
OneClerk == {c1}
=============================================================================

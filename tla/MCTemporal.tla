----------------------------- MODULE MCTemporal -----------------------------
(***************************************************************************)
(* The components whose calls must end, a chain's cell, the delivery of    *)
(* consignments and sends, and the two replay databases, which implement   *)
(* the contract of ReplayDatabase.  They share no state; a behaviour runs  *)
(* one of them, the part it begins with.                                   *)
(***************************************************************************)
EXTENDS ChainCell, ProofDelivery, SendTransfer, ReplayRedb, ReplayPostgres

VARIABLE part

MCSubmitters == {"w1", "w2"}
MCTaskStages == {"LockConfirmed", "MintConfirmed"}
MCTransports == {"nostr", "ipfs"}
MCKinds == {"consignment"}

\* Two clients and one entry, in either database.
MCClients == {"c1", "c2"}
MCIds == {"id"}

\* Two sends compete for one seal.  No send is driven twice at once and a driver
\* keeps nothing between calls, so each may as well keep to its own driver.
MCTransfers == {"t1", "t2"}
MCSeals == {"s1"}
MCSealOf == [t \in MCTransfers |-> "s1"]
MCDrivers == {"k1", "k2"}
MCDriverOf == [t \in MCTransfers |-> IF t = "t1" THEN "k1" ELSE "k2"]
OwnDrivers == \A t \in MCTransfers, k \in MCDrivers : driver[k].transfer = t => k = MCDriverOf[t]

TemporalInit ==
    /\ part \in {"cell", "delivery", "send", "redb", "postgres"}
    /\ CellInit /\ DeliveryInit /\ Init /\ RedbInit /\ PostgresInit

TemporalNext ==
    \/ part = "cell" /\ CellNext
       /\ UNCHANGED <<part, deliveryVars, vars, redbVars, postgresVars>>
    \/ part = "delivery" /\ DeliveryNext
       /\ UNCHANGED <<part, cellVars, vars, redbVars, postgresVars>>
    \/ part = "send" /\ Next /\ OwnDrivers'
       /\ UNCHANGED <<part, cellVars, deliveryVars, redbVars, postgresVars>>
    \/ part = "redb" /\ RedbNext
       /\ UNCHANGED <<part, cellVars, deliveryVars, vars, postgresVars>>
    \/ part = "postgres" /\ PostgresNext
       /\ UNCHANGED <<part, cellVars, deliveryVars, vars, redbVars>>

(* In the parts that do not run no action with fairness is enabled.        *)
TemporalSpec ==
    /\ TemporalInit
    /\ [][TemporalNext]_<<part, cellVars, deliveryVars, vars, redbVars, postgresVars>>
    /\ CellFairness /\ DeliveryFairness /\ SendFairness
=============================================================================

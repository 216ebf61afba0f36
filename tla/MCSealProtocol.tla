---------------------------- MODULE MCSealProtocol ----------------------------
(* The seal protocol alone: two references that name one object.           *)
EXTENDS SealProtocol

MCObjectOf == [s \in SealRefs |-> "object"]
=============================================================================

-------------------------- MODULE MCConcurrentCalls --------------------------
(***************************************************************************)
(* Calls on one sanad with no lock between them: either two callers run    *)
(* two transfers of it, or two clerks settle its escrow beside a single    *)
(* transfer.                                                               *)
(***************************************************************************)
EXTENDS Settlement, TLC

CONSTANTS t1, t2, s1, k1, k2, c1, c2

VARIABLE present   \* who is there: "callers" or "clerks"

Rivals == {t1, t2}
OneSanad == {s1}
RivalSanads == [t \in Rivals |-> s1]
TwoCallers == {k1, k2}
TwoClerks == {c1, c2}
Symmetry == Permutations(Rivals) \cup Permutations(TwoCallers) \cup Permutations(TwoClerks)

Begun(t) == journal[t].phase # "None" \/ \E k \in Tasks : Transfer(k) = t

MaxCallVersion == 5   \* bound on the event versions at which a caller begins a call

(* The callers name each transfer once; they resume it as often as they    *)
(* like.                                                                   *)
FreshCalls ==
    \A k \in Tasks : ~Active(k) /\ Active(k)' =>
        /\ get_latest_version(events[Sanad(k)']) < MaxCallVersion
        /\ task'[k].at = "receipt" /\ ~task'[k].cached => ~Begun(Transfer(k)')

(* The clerks' transfer has one caller at a time.                          *)
SingleTransfer ==
    /\ Cardinality({t \in Transfers : Begun(t)}) <= 1
    /\ Cardinality({k \in Tasks : Active(k)}) <= 1

CallsInit == SettlementInit /\ present \in {"callers", "clerks"}

CallsNext ==
    \/ present = "callers" /\ (Transferring \/ stop) /\ FreshCalls /\ UNCHANGED present
    \/ present = "clerks" /\ SettlementNext /\ SingleTransfer' /\ UNCHANGED present

CallsSpec == CallsInit /\ [][CallsNext]_<<svars, present>>
=============================================================================

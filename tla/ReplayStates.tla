---------------------------- MODULE ReplayStates ----------------------------
(***************************************************************************)
(* The states of a replay entry (csv-storage: ReplayEntryState) and what   *)
(* the calls of the ReplayDatabase trait do to one, as operators from the  *)
(* entry's state to its next state and the result.                         *)
(***************************************************************************)
States == {"None", "Pending", "Consumed", "RolledBack"}
ArmingOps == {"insert_if_absent", "consume_if_unconsumed"}
Ops == ArmingOps \cup {"confirm_consumed", "mark_rolled_back"}
Results == {"Ok", "AlreadyExists", "NotFound", "Storage"}

Answer(state, res) == [state |-> state, res |-> res]

(* What a call does to an entry in state s when nobody interferes.         *)

insert_if_absent(s) ==
    IF s = "None" THEN Answer("Pending", "Ok") ELSE Answer(s, "AlreadyExists")

\* The mutation that re-arms an entry that is still pending.
RearmsPending(s) ==
    IF s = "Consumed" THEN Answer(s, "Ok") ELSE Answer("Pending", "Ok")

consume_if_unconsumed(s) ==
    CASE s \in {"None", "RolledBack"} -> Answer("Pending", "Ok")
      [] s = "Consumed"               -> Answer(s, "Ok")
      [] s = "Pending"                -> Answer(s, "AlreadyExists")

confirm_consumed(s) ==
    CASE s = "Pending"    -> Answer("Consumed", "Ok")
      [] s = "Consumed"   -> Answer(s, "Ok")
      [] s = "RolledBack" -> Answer(s, "Storage")
      [] s = "None"       -> Answer(s, "NotFound")

mark_rolled_back(s) ==
    CASE s = "Pending"    -> Answer("RolledBack", "Ok")
      [] s = "RolledBack" -> Answer(s, "Ok")
      [] s = "Consumed"   -> Answer(s, "Storage")
      [] s = "None"       -> Answer(s, "NotFound")
=============================================================================

---- MODULE CliState ----
(***************************************************************************)
(* The command line's state file.  Every process of `csv` loads the whole  *)
(* file when it starts, before it looks at its command, works on that copy *)
(* and writes the whole copy back: inside some commands, and once more     *)
(* when the command has returned, Ok or Err.  `accept` takes a lock file,  *)
(* but only after the load.                                                *)
(***************************************************************************)
EXTENDS Naturals

CONSTANTS Processes,
          Sanads,
          MaxAccepts   \* bound: accepts counted per sanad

VARIABLES file,         \* the state file: torn while a write is under way
          accept_lock,  \* <state>.accept.lock exists
          redb,         \* who has the runtime's journal and registry open
          locked,       \* the transfers the runtime's journal knows
          proc,         \* one process each
          accepts,      \* accepts answered Ok per sanad
          answered,     \* the transfers reported to the user
          alone,        \* no two processes have overlapped
          killed        \* a process has been killed

cliVars == <<file, accept_lock, redb, locked, proc, accepts, answered, alone, killed>>

Nobody == "nobody"
Empty == [torn |-> FALSE, owned |-> {}, transfers |-> {}]
NotRunning == [cmd |-> "none", sanad |-> "none", at |-> "idle", mem |-> Empty]
Commands == {"accept", "transfer", "resume", "other"}

CliInit ==
    /\ file = Empty
    /\ accept_lock = FALSE
    /\ redb = Nobody
    /\ locked = {}
    /\ proc = [p \in Processes |-> NotRunning]
    /\ accepts = [s \in Sanads |-> 0]
    /\ answered = {}
    /\ alone = TRUE
    /\ killed = FALSE

Goes(p, at) == proc' = [proc EXCEPT ![p].at = at]
Owns(p) == proc[p].sanad \in proc[p].mem.owned
IsAt(p, cmd, at) == proc[p].cmd = cmd /\ proc[p].at = at
Drives(p) == proc[p].cmd \in {"transfer", "resume"}
WithoutHolder(p) == IF redb = p THEN Nobody ELSE redb

(***************************************************************************)
(* main: load the state, then dispatch.  A file that does not parse ends   *)
(* the process before anything else.                                       *)
(***************************************************************************)
load(p, c, s) ==
    /\ proc[p].at = "idle" /\ ~file.torn
    /\ proc' = [proc EXCEPT ![p] =
                  [cmd |-> c, sanad |-> s, at |-> IF c = "other" THEN "exit" ELSE "start",
                   mem |-> file]]
    /\ alone' = (alone /\ \A q \in Processes : proc[q].at = "idle")
    /\ UNCHANGED <<file, accept_lock, redb, locked, accepts, answered, killed>>

(***************************************************************************)
(* cmd_accept: the lock file, the replay check on the copy in memory, the  *)
(* record.  The lock file goes when the command returns.                   *)
(***************************************************************************)
acquire(p) ==
    /\ IsAt(p, "accept", "start")
    /\ accept_lock' = TRUE
    /\ Goes(p, IF accept_lock THEN "exit" ELSE "validate")
    /\ UNCHANGED <<file, redb, locked, accepts, answered, alone, killed>>

validate_consignment(p) ==
    /\ IsAt(p, "accept", "validate")
    /\ \/ /\ Goes(p, "exit")
          /\ accept_lock' = FALSE
       \/ /\ ~Owns(p)
          /\ proc' = [proc EXCEPT ![p].at = "save", ![p].mem.owned = @ \cup {proc[p].sanad}]
          /\ accept_lock' = accept_lock
    /\ UNCHANGED <<file, redb, locked, accepts, answered, alone, killed>>

(***************************************************************************)
(* lock_and_mint wants the sanad in the local copy; cmd_resume takes its   *)
(* context from the copy, else from the runtime's journal or registry.     *)
(* redb lets one process open those at a time.                             *)
(***************************************************************************)
lock_and_mint(p) ==
    /\ IsAt(p, "transfer", "start")
    /\ Goes(p, IF Owns(p) THEN "build" ELSE "exit")
    /\ UNCHANGED <<file, accept_lock, redb, locked, accepts, answered, alone, killed>>

resume_context(p) ==
    \/ proc[p].sanad \in proc[p].mem.transfers
    \/ redb = Nobody /\ proc[p].sanad \in locked

cmd_resume(p) ==
    /\ IsAt(p, "resume", "start")
    /\ Goes(p, IF resume_context(p) THEN "build" ELSE "exit")
    /\ UNCHANGED <<file, accept_lock, redb, locked, accepts, answered, alone, killed>>

build_client(p) ==
    /\ Drives(p) /\ proc[p].at = "build"
    /\ redb' = IF redb = Nobody THEN p ELSE redb
    /\ Goes(p, IF redb = Nobody THEN "drive" ELSE "exit")
    /\ UNCHANGED <<file, accept_lock, locked, accepts, answered, alone, killed>>

(***************************************************************************)
(* drive: the coordinator's answer.  An error may come after the lock, and *)
(* returns before anything is recorded; an outcome is recorded and saved.  *)
(***************************************************************************)
drive(p) ==
    /\ Drives(p) /\ proc[p].at = "drive"
    /\ \/ /\ Goes(p, "exit")
          /\ redb' = Nobody
          /\ \/ locked' = locked
             \/ proc[p].cmd = "transfer" /\ locked' = locked \cup {proc[p].sanad}
       \/ /\ locked' = locked \cup {proc[p].sanad}
          /\ redb' = redb
          /\ proc' = [proc EXCEPT ![p].at = "save", ![p].mem.transfers = @ \cup {proc[p].sanad}]
    /\ UNCHANGED <<file, accept_lock, accepts, answered, alone, killed>>

(***************************************************************************)
(* save truncates the file and writes it.  Two writers at once leave a mix *)
(* of both, or the one that wrote last.                                    *)
(***************************************************************************)
Written(p) ==
    {proc[p].mem} \cup
    {[Empty EXCEPT !.torn = TRUE] :
        q \in {q \in Processes \ {p} : proc[q].at \in {"write", "exit_write"}}}

truncate(p) ==
    /\ proc[p].at \in {"save", "exit"}
    /\ file' = [Empty EXCEPT !.torn = TRUE]
    /\ Goes(p, IF proc[p].at = "save" THEN "write" ELSE "exit_write")
    /\ UNCHANGED <<accept_lock, redb, locked, accepts, answered, alone, killed>>

\* A pending outcome under --wait drives again after the save.
save(p) ==
    /\ proc[p].at = "write"
    /\ file' \in Written(p)
    /\ \/ /\ proc[p].cmd = "accept"
          /\ accepts[proc[p].sanad] < MaxAccepts
          /\ accepts' = [accepts EXCEPT ![proc[p].sanad] = @ + 1]
          /\ accept_lock' = FALSE
          /\ Goes(p, "exit")
          /\ UNCHANGED <<redb, answered>>
       \/ /\ Drives(p)
          /\ answered' = answered \cup {proc[p].sanad}
          /\ \/ Goes(p, "exit") /\ redb' = Nobody
             \/ Goes(p, "drive") /\ redb' = redb
          /\ UNCHANGED <<accepts, accept_lock>>
    /\ UNCHANGED <<locked, alone, killed>>

DropsTheRecord(p) ==
    /\ proc[p].at = "exit_write"
    /\ file' = [proc[p].mem EXCEPT !.owned = @ \ {proc[p].sanad}]
    /\ proc' = [proc EXCEPT ![p] = NotRunning]
    /\ UNCHANGED <<accept_lock, redb, locked, accepts, answered, alone, killed>>

\* main saves once more whatever the command answered.
exit(p) ==
    /\ proc[p].at = "exit_write"
    /\ file' \in Written(p)
    /\ proc' = [proc EXCEPT ![p] = NotRunning]
    /\ UNCHANGED <<accept_lock, redb, locked, accepts, answered, alone, killed>>

(***************************************************************************)
(* A process killed at any point: the system closes redb, nobody removes   *)
(* the lock file, and a file truncated and not yet written stays torn.     *)
(***************************************************************************)
Killed(p) ==
    /\ proc[p].at # "idle"
    /\ proc' = [proc EXCEPT ![p] = NotRunning]
    /\ redb' = WithoutHolder(p)
    /\ killed' = TRUE
    /\ UNCHANGED <<file, accept_lock, locked, accepts, answered, alone>>

\* The user deletes a torn file and a lock file left behind: the next load
\* starts from the defaults.
UserCleansUp ==
    /\ \A p \in Processes : proc[p].at = "idle"
    /\ file.torn \/ accept_lock
    /\ file' = IF file.torn THEN Empty ELSE file
    /\ accept_lock' = FALSE
    /\ UNCHANGED <<redb, locked, proc, accepts, answered, alone, killed>>

CliNext ==
    \/ \E p \in Processes :
          \/ \E c \in Commands, s \in Sanads : load(p, c, s)
          \/ acquire(p)
          \/ validate_consignment(p)
          \/ lock_and_mint(p)
          \/ cmd_resume(p)
          \/ build_client(p)
          \/ drive(p)
          \/ truncate(p)
          \/ save(p)
          \/ exit(p)
          \/ Killed(p)
    \/ UserCleansUp

CliSpec == CliInit /\ [][CliNext]_cliVars

----
(***************************************************************************)
(* Commands that run one after the other lose nothing they reported: when  *)
(* no process runs, every accepted sanad and every transfer whose id was   *)
(* shown is in the file, through the copies that later commands, failed    *)
(* ones among them, loaded and wrote back; and they accept a sanad once,   *)
(* since the accept that comes second finds the first one's record in the  *)
(* file it loads.                                                          *)
(***************************************************************************)
AnsweredIsOnFile ==
    alone /\ ~killed =>
        /\ \A s \in Sanads : accepts[s] <= 1
        /\ (\A p \in Processes : proc[p].at = "idle") =>
              /\ {s \in Sanads : accepts[s] > 0} \subseteq file.owned
              /\ answered \subseteq file.transfers

(***************************************************************************)
(* The lock file is there so that two accepts do not race their replay     *)
(* checks: an accept that is refused the lock says so.  It would follow    *)
(* that a sanad is accepted once as long as no process is killed.          *)
(***************************************************************************)
AcceptedOnce ==
    ~killed => \A s \in Sanads : accepts[s] <= 1
====

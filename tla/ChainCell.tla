----------------------------- MODULE ChainCell -----------------------------
(***************************************************************************)
(* One per-chain execution cell of csv-coordinator: submitters that pass   *)
(* the cell's memory ceiling and then wait for room in its bounded queue,  *)
(* and the worker that takes tasks off the queue under its own circuit     *)
(* breaker.  Memory is counted in tasks (each is estimated at 4096 bytes). *)
(***************************************************************************)
EXTENDS Integers, Sequences, FiniteSets

CONSTANTS
    Submitters,
    TaskStages,            \* the stages of submitted transfers
    MaxQueueDepth,         \* CellConfig
    MaxMemory,
    OpenThreshold,         \* CircuitConfig::failure_threshold
    CloseThreshold         \* CircuitConfig::success_threshold

Executable ==
    {"LockConfirmed", "ProofValidated", "AwaitingFinality", "ProofBuilding", "MintSubmitted"}

ASSUME CellAssumption ==
    /\ MaxQueueDepth \in Nat \ {0} /\ MaxMemory \in Nat
    /\ OpenThreshold \in Nat \ {0} /\ CloseThreshold \in Nat \ {0}
    /\ IsFiniteSet(Submitters) /\ Submitters # {}

VARIABLES
    submitter,       \* submitter[w]: where a submit call is, its task, what it loaded
    cell_queue,
    worker,          \* the task being executed, in a sequence of at most one
    current_bytes,   \* MemoryCeiling, in tasks
    circuit,         \* the worker's breaker
    rested           \* whether the timeout has passed since the last failure

cellVars == <<submitter, cell_queue, worker, current_bytes, circuit, rested>>

Tasks == TaskStages \cup {"HealthCheck"}

Away == [at |-> "away", task |-> "HealthCheck", loaded |-> 0]

CellInit ==
    /\ submitter = [w \in Submitters |-> Away]
    /\ cell_queue = <<>> /\ worker = <<>>
    /\ current_bytes = 0
    /\ circuit = [state |-> "Closed", failures |-> 0, successes |-> 0]
    /\ rested = FALSE

-----------------------------------------------------------------------------
(* submit.  The breaker it asks is the cell's own, which nothing ever      *)
(* opens; the worker keeps another.  A transfer first loads the usage.     *)
submit(w, t) ==
    /\ submitter[w].at = "away"
    /\ submitter' = [submitter EXCEPT ![w] =
                       IF t = "HealthCheck"
                       THEN [at |-> "send", task |-> t, loaded |-> 0]
                       ELSE [at |-> "allocate", task |-> t, loaded |-> current_bytes]]
    /\ UNCHANGED <<cell_queue, worker, current_bytes, circuit, rested>>

Charged(w) == [at |-> "send", task |-> submitter[w].task, loaded |-> 0]

\* The mutation that tests the usage before this task is added to it.
AllocatesOneMore(w) ==
    /\ submitter[w].at = "allocate"
    /\ LET fits == submitter[w].loaded <= MaxMemory IN
       /\ submitter' = [submitter EXCEPT ![w] = IF fits THEN Charged(w) ELSE Away]
       /\ current_bytes' = current_bytes + IF fits THEN 1 ELSE 0
    /\ UNCHANGED <<cell_queue, worker, circuit, rested>>

(* try_allocate tests the value it loaded and adds to the value there is.  *)
try_allocate(w) ==
    /\ submitter[w].at = "allocate"
    /\ LET fits == submitter[w].loaded + 1 <= MaxMemory IN
       /\ submitter' = [submitter EXCEPT ![w] = IF fits THEN Charged(w) ELSE Away]
       /\ current_bytes' = current_bytes + IF fits THEN 1 ELSE 0
    /\ UNCHANGED <<cell_queue, worker, circuit, rested>>

(* The bounded channel: the call waits while the queue is full.            *)
send(w) ==
    /\ submitter[w].at = "send" /\ Len(cell_queue) < MaxQueueDepth
    /\ cell_queue' = Append(cell_queue, submitter[w].task)
    /\ submitter' = [submitter EXCEPT ![w] = Away]
    /\ UNCHANGED <<worker, current_bytes, circuit, rested>>

-----------------------------------------------------------------------------
cell_record_success(b) ==
    CASE b.state = "Closed" -> [b EXCEPT !.failures = 0]
      [] b.state = "HalfOpen" ->
            IF b.successes + 1 >= CloseThreshold
            THEN [state |-> "Closed", failures |-> 0, successes |-> 0]
            ELSE [b EXCEPT !.successes = @ + 1]
      [] b.state = "Open" -> b

(* A failure in HalfOpen comes on top of the failures that opened it.      *)
cell_record_failure(b) ==
    [b EXCEPT !.failures = @ + 1,
              !.state = IF b.failures + 1 >= OpenThreshold THEN "Open" ELSE @]

attempt_reset(b) ==
    IF b.state = "Open" /\ rested
    THEN [b EXCEPT !.state = "HalfOpen", !.successes = 0] ELSE b

\* The mutation that puts a task back while the circuit is open.
ReceiveRequeues ==
    /\ worker = <<>> /\ cell_queue # <<>>
    /\ LET t == Head(cell_queue) IN
       IF t = "HealthCheck"
       THEN /\ circuit' = attempt_reset(circuit) /\ cell_queue' = Tail(cell_queue)
            /\ UNCHANGED worker
       ELSE /\ worker' = IF circuit.state = "Open" THEN <<>> ELSE <<t>>
            /\ cell_queue' = IF circuit.state = "Open" THEN Append(Tail(cell_queue), t)
                                                       ELSE Tail(cell_queue)
            /\ UNCHANGED circuit
    /\ UNCHANGED <<submitter, current_bytes, rested>>

(* cell_worker takes a task.  While its circuit is open a transfer is      *)
(* dropped; a health check may half-open the circuit.                      *)
recv ==
    /\ worker = <<>> /\ cell_queue # <<>>
    /\ cell_queue' = Tail(cell_queue)
    /\ LET t == Head(cell_queue) IN
       IF t = "HealthCheck"
       THEN circuit' = attempt_reset(circuit) /\ UNCHANGED worker
       ELSE worker' = (IF circuit.state = "Open" THEN <<>> ELSE <<t>>) /\ UNCHANGED circuit
    /\ UNCHANGED <<submitter, current_bytes, rested>>

(* execute_transfer_phase answers: Ok only for a stage a handler runs.     *)
(* The memory the task was charged stays charged.                          *)
execute_transfer_phase(ok) ==
    /\ worker # <<>>
    /\ ok => Head(worker) \in Executable
    /\ worker' = <<>>
    /\ circuit' = IF ok THEN cell_record_success(circuit) ELSE cell_record_failure(circuit)
    /\ rested' = (rested /\ ok)
    /\ UNCHANGED <<submitter, cell_queue, current_bytes>>

timeout_elapses ==
    /\ ~rested /\ circuit.failures > 0 /\ rested' = TRUE
    /\ UNCHANGED <<submitter, cell_queue, worker, current_bytes, circuit>>

CellNext ==
    \/ \E w \in Submitters : (\E t \in Tasks : submit(w, t)) \/ try_allocate(w) \/ send(w)
    \/ recv
    \/ \E ok \in BOOLEAN : execute_transfer_phase(ok)
    \/ timeout_elapses

CellSpec == CellInit /\ [][CellNext]_cellVars

(* The worker loops until the channel closes and the runtime polls it; the *)
(* channel serves its waiting senders in turn; a submitter goes on with    *)
(* the call it started.  A stage no handler runs is refused at once;       *)
(* nothing makes a handler answer, the worker awaits it without a timeout. *)
CellFairness ==
    /\ WF_cellVars(recv)
    /\ WF_cellVars(execute_transfer_phase(FALSE) /\ Head(worker) \notin Executable)
    /\ \A w \in Submitters : WF_cellVars(try_allocate(w)) /\ SF_cellVars(send(w))

FairCellSpec == CellSpec /\ CellFairness

-----------------------------------------------------------------------------
(* The ceiling is tested and charged in two atomic steps, so submitters    *)
(* that race can exceed it, by less than one task each.                    *)
CeilingOvershoot ==
    current_bytes <= MaxMemory + Cardinality(Submitters) - 1

(* While the handler keeps answering, a submit call returns, even if the   *)
(* circuit is open, the ceiling is reached and the queue is full: the      *)
(* worker never stops draining, and no sender is passed over for good.     *)
SubmitReturns ==
    []<>(worker = <<>>) =>
        \A w \in Submitters : submitter[w].at # "away" ~> submitter[w].at = "away"

(* "Returns `Err(Backpressure)` if the cell queue is full" (cell.rs:227):  *)
(* a call that meets a full queue is answered, whatever the worker does.   *)
BackpressureAnswered ==
    \A w \in Submitters :
        submitter[w].at = "send" /\ Len(cell_queue) = MaxQueueDepth ~> submitter[w].at = "away"
=============================================================================

------------------------- MODULE CoordinatorLease --------------------------
(***************************************************************************)
(* The process lease of csv-runtime (distributed_coordinator_lease.rs) and *)
(* MintCoordinator::execute_mint, which takes the lease, reserves the      *)
(* replay slot, mints and confirms, with LeaseGuard::assert_valid before   *)
(* the reservation and before the mint.                                    *)
(*                                                                         *)
(* acquire_or_renew reads the clock before it takes the lock, so these are *)
(* two steps; so are a check of the guard and the call it admits.  All     *)
(* coordinators read one clock, which never goes back.                     *)
(***************************************************************************)
EXTENDS Integers, FiniteSets, ReplayStates

CONSTANTS
    Coordinators,
    MintCalls,      \* concurrent calls of execute_mint
    CallerOf,       \* the coordinator a call runs on
    Proofs,         \* the sanads of the proofs presented
    NoCoordinator,
    LeaseTtl,
    MaxClock        \* bound on the clock

ASSUME LeaseAssumption ==
    /\ CallerOf \in [MintCalls -> Coordinators]
    /\ NoCoordinator \notin Coordinators
    /\ LeaseTtl \in Nat /\ MaxClock \in Nat

VARIABLES
    clock,
    lease,       \* LeaseState: holder and expires_at
    mint,        \* mint[c]: where the call is, its sanad, the time it read, its guard
    slots,       \* slots[s]: the replay database
    mints,       \* history, mints[s]: how many mints of s were submitted
    overlapped   \* history: the coordinators that ran two calls at once, or
                 \* released the lease under a call

leaseVars == <<clock, lease, mint, slots, mints, overlapped>>

NoLease == [holder |-> NoCoordinator, expires |-> 0]

NoCall == [at |-> "idle", sanad |-> {}, now |-> 0, until |-> 0]

LeaseInit ==
    /\ clock = 0
    /\ lease = NoLease
    /\ mint = [c \in MintCalls |-> NoCall]
    /\ slots = [s \in Proofs |-> "None"]
    /\ mints = [s \in Proofs |-> 0]
    /\ overlapped = {}

Running(c) == mint[c].at # "idle"

Guarded == {"check_insert", "insert", "check_mint", "mint", "confirm"}

MintAt(c, at) ==
    mint' = [mint EXCEPT ![c] = IF at = "idle" THEN NoCall ELSE [@ EXCEPT !.at = at]]

-----------------------------------------------------------------------------
(* execute_mint is called; acquire_or_renew reads the clock.               *)
execute_mint(c, s) ==
    /\ ~Running(c)
    /\ mint' = [mint EXCEPT ![c] = [at |-> "acquire", sanad |-> s, now |-> clock, until |-> 0]]
    /\ overlapped' = overlapped \cup
         {CallerOf[d] : d \in {e \in MintCalls : e # c /\ Running(e) /\ CallerOf[e] = CallerOf[c]}}
    /\ UNCHANGED <<clock, lease, slots, mints>>

(* Renewal, or acquisition of a lease nobody holds or that has expired.    *)
Available(co, now) ==
    lease.holder \in {co, NoCoordinator} \/ lease.expires <= now

acquire_or_renew(c) ==
    LET co == CallerOf[c]
        expiry == mint[c].now + LeaseTtl
    IN  /\ mint[c].at = "acquire"
        /\ IF Available(co, mint[c].now)
           THEN /\ lease' = [holder |-> co, expires |-> expiry]
                /\ mint' = [mint EXCEPT ![c] = [@ EXCEPT !.at = "check_insert", !.until = expiry]]
           ELSE MintAt(c, "idle") /\ UNCHANGED lease
        /\ UNCHANGED <<clock, slots, mints, overlapped>>

assert_valid(c) ==
    /\ mint[c].at \in {"check_insert", "check_mint"}
    /\ MintAt(c, IF clock >= mint[c].until THEN "idle"
                 ELSE IF mint[c].at = "check_insert" THEN "insert" ELSE "mint")
    /\ UNCHANGED <<clock, lease, slots, mints, overlapped>>

\* The mutation that takes a taken slot for its own.
ReserveTaken(c) ==
    /\ mint[c].at = "insert"
    /\ slots' = [slots EXCEPT ![mint[c].sanad] = insert_if_absent(@).state]
    /\ MintAt(c, "check_mint")
    /\ UNCHANGED <<clock, lease, mints, overlapped>>

(* insert_if_absent of the replay id; ReplayDetected ends the call.        *)
reserve(c) ==
    /\ mint[c].at = "insert"
    /\ LET a == insert_if_absent(slots[mint[c].sanad]) IN
       /\ slots' = [slots EXCEPT ![mint[c].sanad] = a.state]
       /\ MintAt(c, IF a.res = "Ok" THEN "check_mint" ELSE "idle")
    /\ UNCHANGED <<clock, lease, mints, overlapped>>

(* The mint is submitted and answered, or it fails: accepted or not, the   *)
(* slot is left to recovery.                                               *)
submit_mint(c) ==
    /\ mint[c].at = "mint"
    /\ mints' = [mints EXCEPT ![mint[c].sanad] = @ + 1]
    /\ MintAt(c, "confirm") \/ MintAt(c, "idle")
    /\ UNCHANGED <<clock, lease, slots, overlapped>>

(* consume_if_unconsumed, whose answer is the call's.                      *)
confirm_mint(c) ==
    /\ mint[c].at = "confirm"
    /\ slots' = [slots EXCEPT ![mint[c].sanad] = consume_if_unconsumed(@).state]
    /\ MintAt(c, "idle")
    /\ UNCHANGED <<clock, lease, mints, overlapped>>

(* release asks for nothing but the holder: a call may be under way.       *)
release(co) ==
    /\ lease.holder = co
    /\ lease' = NoLease
    /\ overlapped' = overlapped \cup
         {CallerOf[c] : c \in {d \in MintCalls : CallerOf[d] = co /\ mint[d].at \in Guarded}}
    /\ UNCHANGED <<clock, mint, slots, mints>>

(* A coordinator stops: its calls are gone, its lease stays.               *)
coordinator_stops(co) ==
    /\ \E c \in MintCalls : Running(c) /\ CallerOf[c] = co
    /\ mint' = [c \in MintCalls |->
                  IF CallerOf[c] = co THEN NoCall ELSE mint[c]]
    /\ UNCHANGED <<clock, lease, slots, mints, overlapped>>

tick ==
    /\ clock < MaxClock
    /\ clock' = clock + 1
    /\ UNCHANGED <<lease, mint, slots, mints, overlapped>>

LeaseNext ==
    \/ \E c \in MintCalls :
          \/ \E s \in Proofs : execute_mint(c, s)
          \/ acquire_or_renew(c) \/ assert_valid(c) \/ reserve(c)
          \/ submit_mint(c) \/ confirm_mint(c)
    \/ \E co \in Coordinators : release(co) \/ coordinator_stops(co)
    \/ tick

LeaseSpec == LeaseInit /\ [][LeaseNext]_leaseVars

-----------------------------------------------------------------------------
(* The guards exclude each other: two coordinators never hold a LeaseGuard *)
(* that assert_valid accepts at the same time, although the expiry each    *)
(* relies on is a copy made when it acquired.  Left out are a coordinator  *)
(* that ran two calls at once, as the call that read the clock first may   *)
(* write last and shorten the lease under the other one's guard, and one   *)
(* that released the lease under a call of its own.                        *)
GuardsExclude ==
    \A c, d \in MintCalls :
        /\ CallerOf[c] # CallerOf[d]
        /\ {CallerOf[c], CallerOf[d]} \cap overlapped = {}
        /\ mint[c].at \in Guarded /\ mint[d].at \in Guarded
        => clock >= mint[c].until \/ clock >= mint[d].until

(* At most one mint is ever submitted for a proof's sanad, also when the   *)
(* lease expires, is shortened or released between the check of a guard    *)
(* and the call it admits, and after a restart.                            *)
SubmittedOnce == \A s \in Proofs : mints[s] <= 1

(* No split brain: coordinators exclude each other while their guards are  *)
(* valid, and where they do not, the replay database still admits one      *)
(* mint.                                                                   *)
NoSplitBrain == GuardsExclude /\ SubmittedOnce

=============================================================================

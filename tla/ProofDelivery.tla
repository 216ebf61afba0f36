--------------------------- MODULE ProofDelivery ---------------------------
(***************************************************************************)
(* Peer-to-peer delivery in csv-p2p: the routers that send a proof or a    *)
(* consignment over the transports they have (proof_delivery.rs), the      *)
(* Nostr transport's retries and its subscription task (nostr.rs), and the *)
(* receiving router's cache of seen event ids.  A relay may keep an event  *)
(* whose sender was told it failed, and may notify of an event again.      *)
(***************************************************************************)
EXTENDS Integers, Sequences, FiniteSets

CONSTANTS
    Kinds,            \* the kinds of envelope sent: "proof", "consignment"
    Transports,
    Preferred,        \* preferred_transport
    MaxRetries,       \* max_retries, 3
    BufferSize,       \* the notification channel of the Nostr client
    ChannelSize,      \* mpsc::channel(256)
    MaxCachedProofs,  \* MAX_CACHED_PROOFS
    MaxEvents,        \* bound on the events signed
    MaxDuplicates     \* bound on repeated notifications

ASSUME DeliveryAssumption ==
    /\ Preferred \in Transports /\ Kinds \subseteq {"proof", "consignment"}
    /\ \A n \in {MaxRetries, BufferSize, ChannelSize} : n \in Nat \ {0}
    /\ MaxCachedProofs \in Nat /\ MaxEvents \in Nat /\ MaxDuplicates \in Nat

VARIABLES
    up,            \* the transports that are connected
    sending,       \* the router's call
    signed,        \* signed[n]: the kind of the n-th event signed
    duplicates,    \* repeated notifications so far
    buffer,        \* notifications the subscription task has not taken
    lagged,        \* whether the buffer has overwritten one
    subscription,  \* running or ended
    blocked,       \* what the task waits to put into the channel
    delivered,     \* the subscriber's channel
    seen,          \* seen_event_ids
    fresh          \* history: fresh[n], how often event n was taken for new

deliveryVars == <<up, sending, signed, duplicates, buffer, lagged, subscription, blocked,
                  delivered, seen, fresh>>

Foreign == 0     \* an event the subscription's filter does not match

AtRest == [at |-> "rest", kind |-> "consignment", tried |-> {}, event |-> 0, attempt |-> 0]

DeliveryInit ==
    /\ up = Transports /\ sending = AtRest
    /\ signed = <<>> /\ duplicates = 0
    /\ buffer = <<>> /\ lagged = FALSE /\ subscription = "running" /\ blocked = <<>>
    /\ delivered = <<>> /\ seen = {} /\ fresh = [n \in 1 .. MaxEvents |-> 0]

receiverVars == <<buffer, lagged, subscription, blocked, delivered, seen, fresh>>

-----------------------------------------------------------------------------
(* broadcast and deliver: first the preferred transport.                   *)
deliver(k) ==
    /\ sending.at = "rest" /\ Len(signed) + Cardinality(Transports) < MaxEvents
    /\ sending' = [AtRest EXCEPT !.at = "preferred", !.kind = k]
    /\ UNCHANGED <<up, signed, duplicates>> /\ UNCHANGED receiverVars

(* A transport is tried if it is connected: a new event is signed.  The    *)
(* fallback goes through all of them, the preferred one once more.         *)
try_transport(t) ==
    /\ \/ sending.at = "preferred" /\ t = Preferred
       \/ sending.at = "fallback" /\ t \notin sending.tried
    /\ IF t \in up
       THEN /\ signed' = Append(signed, sending.kind)
            /\ sending' = [sending EXCEPT !.event = Len(signed) + 1, !.attempt = 1,
                             !.tried = IF sending.at = "fallback" THEN @ \cup {t} ELSE @,
                             !.at = IF @ = "fallback" THEN "send_fallback" ELSE "send_preferred"]
       ELSE /\ sending' = [sending EXCEPT !.at = "fallback",
                             !.tried = IF sending.at = "fallback" THEN @ \cup {t} ELSE @]
            /\ UNCHANGED signed
    /\ UNCHANGED <<up, duplicates>> /\ UNCHANGED receiverVars

no_relays ==
    /\ sending.at = "fallback" /\ sending.tried = Transports
    /\ sending' = AtRest
    /\ UNCHANGED <<up, signed, duplicates>> /\ UNCHANGED receiverVars

Sends == {"send_preferred", "send_fallback"}

(* A full notification channel overwrites its oldest entry; one whose      *)
(* receiver is gone keeps nothing.                                         *)
Notify(n) ==
    /\ IF subscription = "ended" THEN UNCHANGED <<buffer, lagged>>
       ELSE /\ buffer' = Append(IF Len(buffer) = BufferSize THEN Tail(buffer) ELSE buffer, n)
            /\ lagged' = (lagged \/ Len(buffer) = BufferSize)
    /\ UNCHANGED <<subscription, blocked, delivered, seen, fresh>>

(* send_event: on an error the same event is sent again, and after the     *)
(* last attempt the router goes on to its fallback.                        *)
send_event(ok, kept) ==
    /\ sending.at \in Sends /\ (ok => kept)
    /\ sending' = IF ok THEN AtRest
                  ELSE IF sending.attempt < MaxRetries THEN [sending EXCEPT !.attempt = @ + 1]
                  ELSE [sending EXCEPT !.at = "fallback", !.attempt = 0]
    /\ IF kept THEN Notify(sending.event) ELSE UNCHANGED receiverVars
    /\ UNCHANGED <<up, signed, duplicates>>

disconnect(t) ==
    /\ t \in up /\ up' = up \ {t}
    /\ UNCHANGED <<sending, signed, duplicates>> /\ UNCHANGED receiverVars

(* A relay repeats an event, or passes on another author's.                *)
notify_again(n) ==
    /\ n # Foreign => duplicates < MaxDuplicates
    /\ duplicates' = duplicates + IF n = Foreign THEN 0 ELSE 1
    /\ Notify(n)
    /\ UNCHANGED <<up, sending, signed>>

-----------------------------------------------------------------------------
(* proof_to_content and consignment_to_content write hex.                  *)
Content(k) == "hex"

\* The mutation in which no subscription decodes hex.
ReadsCanonical(k) == "canonical"

(* subscribe_consignments decodes hex; subscribe_proofs hands the content  *)
(* itself to from_canonical_bytes.                                         *)
Reads(k) == IF k = "proof" THEN "canonical" ELSE "hex"

Parses(n) == n # Foreign /\ Content(signed[n]) = Reads(signed[n])

(* One round of the subscription task: an event that does not match or     *)
(* parse is skipped.  recv fails once when notifications were overwritten, *)
(* and that ends the loop.                                                 *)
subscription_recv ==
    /\ subscription = "running" /\ blocked = <<>> /\ (lagged \/ buffer # <<>>)
    /\ IF lagged
       THEN subscription' = "ended" /\ buffer' = <<>> /\ UNCHANGED blocked
       ELSE /\ buffer' = Tail(buffer)
            /\ blocked' = IF Parses(Head(buffer)) THEN << Head(buffer) >> ELSE <<>>
            /\ UNCHANGED subscription
    /\ UNCHANGED <<up, sending, signed, duplicates, lagged, delivered, seen, fresh>>

(* tx.send waits for room in the subscriber's channel.                     *)
channel_send ==
    /\ blocked # <<>> /\ Len(delivered) < ChannelSize
    /\ delivered' = delivered \o blocked /\ blocked' = <<>>
    /\ UNCHANGED <<up, sending, signed, duplicates, buffer, lagged, subscription, seen, fresh>>

\* The mutation that keeps only the last event in the cache.
RecordLast(n) == IF MaxCachedProofs > 0 THEN {n} ELSE {}

(* ProofCache::record; the cleanup of ensure_capacity waits for a cache    *)
(* twice its size, which record never lets it become.                      *)
record(n) == IF Cardinality(seen) < MaxCachedProofs THEN seen \cup {n} ELSE seen

process_incoming ==
    /\ delivered # <<>> /\ delivered' = Tail(delivered)
    /\ LET n == Head(delivered) IN
       IF n \in seen THEN UNCHANGED <<seen, fresh>>
       ELSE seen' = record(n) /\ fresh' = [fresh EXCEPT ![n] = IF @ < 2 THEN @ + 1 ELSE @]
    /\ UNCHANGED <<up, sending, signed, duplicates, buffer, lagged, subscription, blocked>>

DeliveryNext ==
    \/ \E k \in Kinds : deliver(k)
    \/ \E t \in Transports : try_transport(t) \/ disconnect(t)
    \/ no_relays
    \/ \E ok, kept \in BOOLEAN : send_event(ok, kept)
    \/ \E n \in {Foreign} \cup 1 .. Len(signed) : notify_again(n)
    \/ subscription_recv \/ channel_send \/ process_incoming

DeliverySpec == DeliveryInit /\ [][DeliveryNext]_deliveryVars

(* The subscription is a spawned task, its reader takes what is in the     *)
(* channel, and a send or its timeout always answers.                      *)
DeliveryFairness ==
    /\ WF_deliveryVars(subscription_recv) /\ WF_deliveryVars(channel_send)
    /\ WF_deliveryVars(process_incoming)
    /\ WF_deliveryVars(no_relays)
    /\ WF_deliveryVars(\E t \in Transports : try_transport(t))
    /\ WF_deliveryVars(\E ok, kept \in BOOLEAN : send_event(ok, kept))

FairDeliverySpec == DeliverySpec /\ DeliveryFairness

-----------------------------------------------------------------------------
(* "Returns true if the proof was new (not a duplicate)": retries, relays  *)
(* that repeat themselves and failed sends that arrived do not make an     *)
(* event count as new twice, until the cache has filled up; from then on   *)
(* it forgets every new one.                                               *)
DuplicatesOnlyWhenFull ==
    \A n \in 1 .. MaxEvents : fresh[n] > 1 => Cardinality(seen) = MaxCachedProofs

Waiting == {buffer[i] : i \in DOMAIN buffer}

Arrived(n) == n \in seen \/ fresh[n] > 0

(* A consignment the client was notified of reaches the router, or the     *)
(* subscription has ended because it fell behind.                          *)
ConsignmentArrives ==
    \A n \in 1 .. MaxEvents :
        n \in Waiting /\ signed[n] = "consignment"
        ~> Arrived(n) \/ subscription = "ended" \/ lagged

(* A proof the client was notified of reaches the router, or the           *)
(* subscription has ended because it fell behind: "Content should be       *)
(* hex-encoded canonical bytes" on both sides.                             *)
ProofArrives ==
    \A n \in 1 .. MaxEvents :
        n \in Waiting /\ signed[n] = "proof"
        ~> Arrived(n) \/ subscription = "ended" \/ lagged
=============================================================================

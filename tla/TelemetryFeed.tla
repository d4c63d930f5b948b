--------------------------- MODULE TelemetryFeed ---------------------------
(***************************************************************************)
(* What the telemetry link of gcs/ promises the ground station, whatever   *)
(* the network does: what it hands over was sent, and nothing is handed    *)
(* over twice.  It promises neither order nor that everything arrives.     *)
(***************************************************************************)
EXTENDS Integers, FiniteSets

VARIABLES sent, received,
          deliveries   (* how many payloads were handed over in all          *)

feed == <<sent, received, deliveries>>

Init == sent = {} /\ received = {} /\ deliveries = 0

Send ==
  /\ \E p \in sent' \ sent : sent' = sent \cup {p}
  /\ UNCHANGED <<received, deliveries>>

HandOver(S) ==
  /\ received' = received \cup S
  /\ deliveries' = deliveries + Cardinality(S)
  /\ UNCHANGED sent

Next ==
  \/ Send
  \/ \E S \in SUBSET (sent \ received) : HandOver(S)

Spec == Init /\ [][Next]_feed
============================================================================

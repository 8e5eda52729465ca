---------------------------- MODULE DurableStore ----------------------------
(***************************************************************************)
(* What the journal promises its callers, without files: a set of records  *)
(* that read back exactly, of which some would survive a power loss, and   *)
(* the records a caller was told are "local-durable".  A caller may only   *)
(* be told so of a record that would survive, and no record is ever taken  *)
(* away but by a power loss, which takes only what was not durable.        *)
(***************************************************************************)
CONSTANT Digests
VARIABLES visible, durable, acked

vars == <<visible, durable, acked>>

Init ==
  /\ visible \subseteq Digests
  /\ durable \subseteq visible
  /\ acked = {}

(* A put makes a record readable, whole.                                   *)
Publish(d) ==
  /\ visible' = visible \cup {d}
  /\ UNCHANGED <<durable, acked>>

(* Readable records reach the medium, by fsync or on the kernel's own.     *)
Persist ==
  /\ durable \subseteq durable'
  /\ durable' \subseteq visible
  /\ UNCHANGED <<visible, acked>>

Acknowledge(d) ==
  /\ d \in durable
  /\ acked' = acked \cup {d}
  /\ UNCHANGED <<visible, durable>>

PowerLoss ==
  /\ visible' = durable
  /\ UNCHANGED <<durable, acked>>

Next ==
  \/ \E d \in Digests : Publish(d) \/ Acknowledge(d)
  \/ Persist
  \/ PowerLoss

Spec == Init /\ [][Next]_vars

(* An acknowledged record survives: it stays durable and readable.         *)
AckedSurvive == acked \subseteq durable /\ durable \subseteq visible
=============================================================================

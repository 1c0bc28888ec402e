------------------------------- MODULE Delivery -------------------------------
(***************************************************************************)
(* What the journal-audited sender promises about each exact envelope.     *)
(* There is no delivery guarantee: an envelope may stay reserved for ever  *)
(* (a sender that died, an unknown outcome).  But it is never handed to    *)
(* the product twice, it is released for a retry only if it was not handed *)
(* over, and a reply is reserved only when every other reply to the same   *)
(* root is settled or was released.                                        *)
(***************************************************************************)
CONSTANTS
  Messages,   \* exact envelopes
  Replies     \* those that answer a root, m.root

VARIABLE status

DeliveryTypeOK ==
  status \in [Messages -> {"unsent", "reserved", "delivered", "settled"}]

Competing(m) == {n \in Replies \ {m} : m \in Replies /\ n.root = m.root}

\* An intent to send m enters the journal.
Reserve(m) ==
  /\ status[m] = "unsent"
  /\ \A n \in Competing(m) : status[n] \in {"unsent", "settled"}
  /\ status' = [status EXCEPT ![m] = "reserved"]

\* The intent is known not to have been attempted.
Release(m) ==
  /\ status[m] = "reserved"
  /\ status' = [status EXCEPT ![m] = "unsent"]

\* The product takes the envelope.
Deliver(m) ==
  /\ status[m] = "reserved"
  /\ status' = [status EXCEPT ![m] = "delivered"]

\* Acceptance and the lifecycle state it stands for are both journaled.
Conclude(m) ==
  /\ status[m] = "delivered"
  /\ status' = [status EXCEPT ![m] = "settled"]

DeliveryInit == status = [m \in Messages |-> "unsent"]

DeliveryNext ==
  \E m \in Messages : Reserve(m) \/ Release(m) \/ Deliver(m) \/ Conclude(m)

DeliverySpec == DeliveryInit /\ [][DeliveryNext]_status
=============================================================================

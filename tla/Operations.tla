------------------------------ MODULE Operations ------------------------------
(***************************************************************************)
(* What the lifecycle promises about each operation, however many roots    *)
(* carry it.  An operation is one idempotency key.  It waits for its       *)
(* recipient, lapses when nobody confirmed it in time, waits again when it *)
(* is renewed, and is confirmed at most once.  It is concluded once, and   *)
(* then never renewed, confirmed or concluded again.                       *)
(***************************************************************************)
CONSTANT Keys

VARIABLE status

Conclusions == {"succeeded", "refused", "failed", "cancelled"}

OperationsTypeOK ==
  status \in [Keys -> {"unused", "waiting", "lapsed", "confirmed"} \cup Conclusions]

\* The first root; it may be observed only when its time is over.
Open(k) ==
  /\ status[k] = "unused"
  /\ \E s \in {"waiting", "lapsed"} : status' = [status EXCEPT ![k] = s]

\* Another root, for an operation nobody confirmed.  Cancels of the earlier
\* root that nobody answered lapse with it.
Renew(k) ==
  /\ status[k] \in {"waiting", "lapsed"}
  /\ \E s \in {"waiting", "lapsed"}, C \in SUBSET {c \in Keys \ {k} : status[c] = "waiting"} :
       status' = [j \in Keys |-> IF j = k THEN s ELSE IF j \in C THEN "lapsed" ELSE status[j]]

Lapse(k) ==
  /\ status[k] = "waiting"
  /\ status' = [status EXCEPT ![k] = "lapsed"]

\* The recipient takes the operation on.  A lapsed one must be renewed first.
Confirm(k) ==
  /\ status[k] = "waiting"
  /\ status' = [status EXCEPT ![k] = "confirmed"]

\* Only an operation not taken on yet can still be refused.
Close(k) ==
  \/ /\ status[k] \in {"waiting", "confirmed"}
     /\ \E s \in {"succeeded", "failed"} : status' = [status EXCEPT ![k] = s]
  \/ /\ status[k] = "waiting"
     /\ status' = [status EXCEPT ![k] = "refused"]

\* The cancel c is carried out: it succeeds as its target k ends.
Cancel(c, k) ==
  /\ c # k
  /\ status[c] \in {"waiting", "confirmed"}
  /\ status[k] \in {"waiting", "lapsed", "confirmed"}
  /\ status' = [status EXCEPT ![c] = "succeeded", ![k] = "cancelled"]

OperationsInit == status = [k \in Keys |-> "unused"]

OperationsNext ==
  \E k \in Keys : \/ Open(k) \/ Renew(k) \/ Lapse(k) \/ Confirm(k) \/ Close(k)
                  \/ \E c \in Keys : Cancel(c, k)

OperationsSpec == OperationsInit /\ [][OperationsNext]_status

\* A conclusion is the last word on its operation.
LastWord == \A k \in Keys : status[k] \in Conclusions => status'[k] = status[k]

ConcludedOnce == [][LastWord]_status
=============================================================================

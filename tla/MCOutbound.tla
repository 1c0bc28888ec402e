----------------------------- MODULE MCOutbound -----------------------------
(***************************************************************************)
(* Instances of Outbound for TLC: a request, its renewal and replies to    *)
(* the request; observations are 1..MaxTime.                               *)
(***************************************************************************)
EXTENDS Outbound

CONSTANTS MaxTime

MCTimes == 1..MaxTime

Root(id, sent, expires) ==
  [id |-> id, type |-> "request", key |-> "k", semantics |-> "do", sent |-> sent,
   expires |-> expires, target |-> None, nonce |-> None]

Reply(id, type, status, sent) ==
  [id |-> id, root |-> "r1", type |-> type, status |-> status, sent |-> sent,
   expires |-> MaxTime + 1, nonce |-> None]

RequestAndRenewal == {Root("r1", 0, 2), Root("r2", 2, MaxTime + 1)}
TwoReplies == {Reply("p1", "ack", "accepted", 1), Reply("p2", "error", "failed", 1)}
=============================================================================

------------------------------ MODULE MCLifecycle ------------------------------
(***************************************************************************)
(* An instance of Lifecycle for TLC: three exchanges, one of which is      *)
(* played.  Observations are 1..MaxTime.                                   *)
(***************************************************************************)
EXTENDS Lifecycle, TLC

CONSTANTS MaxTime, ReplySent

MCTimes == 1..MaxTime

Root(id, type, key, semantics, sent, expires, target, nonce) ==
  [id |-> id, type |-> type, key |-> key, semantics |-> semantics, sent |-> sent,
   expires |-> expires, target |-> target, nonce |-> nonce]

(***************************************************************************)
(* Three exchanges.  Their first messages claim one idempotency key with   *)
(* different meanings, so that a journal holds only one of them; that also *)
(* tries every reuse of a key.                                             *)
(*                                                                         *)
(* One request with two competing renewals, and a cancel of the request.   *)
(***************************************************************************)
RenewalRoots ==
  {Root("r1", "request", "k", "do", 0, 2, None, None),
   Root("r2", "request", "k", "do", 2, 3, None, None),
   Root("r3", "request", "k", "do", 2, 4, None, None),
   Root("c1", "cancel", "x", "stop r1", 0, 2, "r1", None)}

\* A request, its renewal, and two cancels of the request.
CancelRoots ==
  {Root("s1", "request", "k", "make", 0, 2, None, None),
   Root("s2", "request", "k", "make", 2, 3, None, None),
   Root("d1", "cancel", "y", "stop s1", 0, 2, "s1", None),
   Root("d2", "cancel", "z", "stop s1 too", 1, 3, "s1", None)}

\* A hello; a challenge, its renewal, and one that reuses the first nonce.
HandshakeRoots ==
  {Root("h1", "hello", "k", "greet", 0, 2, None, "n1"),
   Root("v1", "challenge", "k", "prove", 0, 2, None, "n2"),
   Root("v2", "challenge", "k", "prove", 2, 3, None, "n3"),
   Root("v3", "challenge", "k", "prove", 2, 4, None, "n2")}

MCRoots == RenewalRoots \cup CancelRoots \cup HandshakeRoots

Shape(type, status) == <<type, status>>

OperationShapes ==
  {Shape("ack", s) : s \in {"received", "needs_human_confirmation", "accepted", "rejected"}}
  \cup {Shape("status", s) : s \in {"accepted", "started"}}
  \cup {Shape("result", "completed"), Shape("error", "failed")}

CancelShapes == OperationShapes \ {Shape("status", "started"), Shape("result", "completed"),
                                   Shape("ack", "needs_human_confirmation")}

HandshakeShapes ==
  {Shape("ack", s) : s \in {"received", "needs_human_confirmation", "accepted", "rejected"}}
  \cup {Shape("verify", "none")}

Nonces(m, shape) == IF shape[1] \in {"status", "result", "error"} THEN {None}
                    ELSE IF shape[1] = "verify" THEN {m.nonce} \ {None} ELSE {None, m.nonce}

RepliesTo(roots, shapes) ==
  UNION {UNION {{[id |-> ToString(<<m.id, shape, t, n>>), root |-> m.id, type |-> shape[1],
                  status |-> shape[2], sent |-> t, expires |-> MaxTime + 1, nonce |-> n] :
                   t \in {t \in ReplySent : m.sent <= t /\ t <= m.sent + 1}, n \in Nonces(m, shape)} :
                 shape \in shapes} : m \in roots}

MCReplies ==
  RepliesTo(RenewalRoots, OperationShapes) \cup RepliesTo(CancelRoots, CancelShapes)
    \cup RepliesTo(HandshakeRoots, HandshakeShapes)
=============================================================================

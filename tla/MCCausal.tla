------------------------------ MODULE MCCausal ------------------------------
(***************************************************************************)
(* Instances of Causal for TLC: a asks, b answers, a cancels or renews.    *)
(***************************************************************************)
EXTENDS Causal, TLC

Envelope(type, from, target, renews) ==
  [type |-> type, from |-> from, target |-> target, renews |-> renews]

\* A request, two answers to it, its cancel, its renewal and an answer to that.
Exchange ==
  "r" :> Envelope("request", "a", None, None)
  @@ "p" :> Envelope("reply", "b", "r", None)
  @@ "q" :> Envelope("reply", "b", "r", None)
  @@ "c" :> Envelope("cancel", "a", "r", None)
  @@ "s" :> Envelope("request", "a", None, "r")
  @@ "t" :> Envelope("reply", "b", "s", None)

TypeOf == [m \in DOMAIN Exchange |-> Exchange[m].type]
Author == [m \in DOMAIN Exchange |-> Exchange[m].from]
Reader == [m \in DOMAIN Exchange |-> IF Author[m] = "a" THEN "b" ELSE "a"]
Target == [m \in DOMAIN Exchange |-> Exchange[m].target]
Renewal == [m \in DOMAIN Exchange |-> Exchange[m].renews]
All == DOMAIN Exchange
RenewalAlone == {"s"}
Nothing == {}

\* Lifecycle lets a request be renewed or cancelled, not both, unless the
\* cancel failed.  A second answer goes with the cancel, after the first, which
\* is like it.
Alternatives ==
  LET sent == {intents[i].msg : i \in DOMAIN intents}
  IN  /\ {"c", "q"} \cap sent = {} \/ {"s", "t"} \cap sent = {}
      /\ "q" \in sent => "p" \in sent
=============================================================================

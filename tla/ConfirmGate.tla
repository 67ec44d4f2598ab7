---------------------------- MODULE ConfirmGate ----------------------------
(***************************************************************************)
(* What the connector promises of confirm tokens: an offer is claimed at   *)
(* most once, claiming it voids the other offers for the same job, and a   *)
(* claim lets the job run at most once.  McpConfirm with one call slot     *)
(* implements this; with more slots it does not.                           *)
(*                                                                         *)
(* Source: McpConfirmService in src/apps/api/src/mcp/.                     *)
(***************************************************************************)
CONSTANTS Tokens, Bindings

VARIABLES stage,     \* where each token stands
          binding    \* the session, job and arguments it was issued for

gate == <<stage, binding>>

Stages == {"none", "offered", "claimed", "done", "void"}

Init ==
    /\ stage = [t \in Tokens |-> "none"]
    /\ binding \in [Tokens -> Bindings]

Offer(t) ==
    /\ stage[t] = "none"
    /\ stage' = [stage EXCEPT ![t] = "offered"]
    /\ binding' \in [Tokens -> Bindings]
    /\ \A u \in Tokens \ {t} : binding'[u] = binding[u]

Claim(t) ==
    /\ stage[t] = "offered"
    /\ stage' = [u \in Tokens |->
                   IF u = t THEN "claimed"
                   ELSE IF stage[u] = "offered" /\ binding[u] = binding[t] THEN "void"
                   ELSE stage[u]]
    /\ UNCHANGED binding

Finish(t) ==
    /\ stage[t] = "claimed"
    /\ stage' = [stage EXCEPT ![t] = "done"]
    /\ UNCHANGED binding

\* An offer expires, or the call that claimed it fails before the job has run.
Lapse(t) ==
    /\ stage[t] \in {"offered", "claimed"}
    /\ stage' = [stage EXCEPT ![t] = "void"]
    /\ UNCHANGED binding

Next == \E t \in Tokens :
    \/ Offer(t)
    \/ Claim(t)
    \/ Finish(t)
    \/ Lapse(t)

Spec == Init /\ [][Next]_gate
=============================================================================

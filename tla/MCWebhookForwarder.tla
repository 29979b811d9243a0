------------------------- MODULE MCWebhookForwarder -------------------------
(* Small instances of WebhookForwarder.                                    *)
EXTENDS WebhookForwarder, TLC

CONSTANTS w1, w2, i1, i2

\* Session ids are interchangeable.
SessionSymmetry == Permutations(Session)

\* Two tracers, each client with one request under way at a time.
TwoClientIds == w1 :> {i1} @@ w2 :> {i2}
NoAgentIds   == w1 :> {} @@ w2 :> {}

\* One tracer.
OneClientIds == w1 :> {i1}
OneAgentIds  == w1 :> {}

\* A hook for everything, and one for errors only
TwoHooks == <<{"end_turn", "error"}, {"error"}>>
=============================================================================

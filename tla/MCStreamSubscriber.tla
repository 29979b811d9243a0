------------------------- MODULE MCStreamSubscriber -------------------------
(* Small instances of StreamSubscriber.                                    *)
EXTENDS StreamSubscriber, TLC

CONSTANTS w1, r1, r2, i1

\* One remote conversation and one consumer
OneClientIds == w1 :> {i1} @@ r1 :> {}
OneAgentIds  == w1 :> {} @@ r1 :> {}

\* One remote conversation, and a consumer for each of two connects
TwoConsumersClientIds == OneClientIds @@ r2 :> {}
TwoConsumersAgentIds  == OneAgentIds @@ r2 :> {}
EitherConsumer        == Permutations({r1, r2})
=============================================================================

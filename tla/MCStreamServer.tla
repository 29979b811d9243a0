--------------------------- MODULE MCStreamServer ---------------------------
(* Small instances of StreamServer.                                        *)
EXTENDS StreamServer, TLC

CONSTANTS w1, w2, i1, i2

\* One tracer; its client and agent choose from different ids, and start
\* over with the same ids after a restart.
OneClientIds == w1 :> {i1} @@ Main :> {}
OneAgentIds  == w1 :> {i2} @@ Main :> {}

\* Two tracers.
TwoClientIds == w1 :> {i1} @@ w2 :> {i2} @@ Main :> {}
TwoAgentIds  == w1 :> {} @@ w2 :> {} @@ Main :> {}

\* What others append: a prompt and a response with an id of this process's
\* client, a connection row, and rows of the other two kinds.
SomeForeign ==
    {Request("session/prompt", i1, s) : s \in Session}
    \cup {Response(i1, NoSession, FALSE)}
    \cup {Envelope("connection", c) : c \in Connection}
    \cup {Envelope(kind, Unknown) : kind \in {"legacy", "unsupported"}}
=============================================================================

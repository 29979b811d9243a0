----------------------------- MODULE MCStreamDb -----------------------------
(* Small instances of StreamDb.                                            *)
EXTENDS StreamDb, TLC

CONSTANTS w1, w2, i1, i2, i3

\* Session ids are interchangeable.
SessionSymmetry == Permutations(Session)

\* Two tracers, each client with one request under way at a time.
TwoClientIds == w1 :> {i1} @@ w2 :> {i2}

\* The agent of the first one has requests of its own.
OneAgentIds == w1 :> {i3} @@ w2 :> {}
NoAgentIds  == w1 :> {} @@ w2 :> {}

\* Everybody counts requests from the same first id.
SameIds == w1 :> {i1} @@ w2 :> {i1}

\* A client with two requests under way, and one that uses the same ids
OverlappingIds == w1 :> {i1, i2} @@ w2 :> {i1}
=============================================================================

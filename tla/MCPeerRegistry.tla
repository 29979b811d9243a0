--------------------------- MODULE MCPeerRegistry ---------------------------
(* A dashboard of two agents, one reached over the network and one whose   *)
(* conductor it starts, and two conductors started by hand: one without a  *)
(* rival, and one that was given the name of the dashboard's conductor.    *)
EXTENDS PeerRegistry, TLC

CONSTANTS d1, c1, c2, c3, a, b, n

OneDashboardNames == d1 :> <<a, b>> @@ c1 :> <<a>> @@ c2 :> <<a>> @@ c3 :> <<n>>
OneDashboardLauncher == c1 :> {d1} @@ c2 :> {} @@ c3 :> {}
=============================================================================

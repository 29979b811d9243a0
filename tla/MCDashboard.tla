----------------------------- MODULE MCDashboard -----------------------------
(* A small instance of Dashboard: two agents of the public registry.       *)
EXTENDS Dashboard

CONSTANTS a1, a2

TwoOffered == <<a1, a2>>

\* Launches while an editor is at work are left out: the editor may quit
\* instead, which leaves the file as it is, and nothing it does after the
\* launch concerns the dashboard.
QuietLaunch ==
    panes # <<>> => \A e \in Editor : editor[e].pc \in {"new", "done"}
=============================================================================

----------------------------- MODULE TurnLedger -----------------------------
(***************************************************************************)
(* What the read model promises of prompt turns: a turn is opened once, as *)
(* active, and closed at most once, with the outcome it keeps.  Readers    *)
(* (the API, the subscribers of the changes, the webhooks) rely on nothing *)
(* else.  StreamDb implements it with a row per turn, a correlation map    *)
(* and several tasks.                                                      *)
(***************************************************************************)
VARIABLE ledger     \* turn -> "active", "completed" or "broken"

LedgerInit == ledger = [t \in {} |-> "active"]

Open(t) ==
    /\ t \notin DOMAIN ledger
    /\ ledger' = [u \in DOMAIN ledger \cup {t} |->
                    IF u = t THEN "active" ELSE ledger[u]]

Close(t, outcome) ==
    /\ t \in DOMAIN ledger /\ ledger[t] = "active"
    /\ ledger' = [ledger EXCEPT ![t] = outcome]

\* Turns are never dropped, so the one that changes is in the new ledger.
LedgerNext == \E t \in DOMAIN ledger' :
    \/ Open(t)
    \/ \E outcome \in {"completed", "broken"} : Close(t, outcome)

LedgerSpec == LedgerInit /\ [][LedgerNext]_ledger
=============================================================================

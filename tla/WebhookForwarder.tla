-------------------------- MODULE WebhookForwarder --------------------------
(***************************************************************************)
(* The webhook forwarder (src/webhook.rs): one task that waits for a       *)
(* change of the read model, compares a snapshot with the states it saw    *)
(* before, and posts an event for each turn that has ended to each hook    *)
(* that wants it, retrying a hook that fails while everything else waits.  *)
(* Changes are only hints: they carry no data and the channel forgets the  *)
(* oldest when the forwarder is slow.                                      *)
(*                                                                         *)
(* The hooks are outside: an attempt is accepted (2xx) or it fails.        *)
(* Permission events are left out: nothing in this read model writes a     *)
(* permission row.                                                         *)
(***************************************************************************)
EXTENDS StreamDb

CONSTANTS
    Filters,        \* per hook, in the order configured, the events it wants
    MaxAttempts     \* 1 + the number of RETRY_DELAYS, 6 in the code

EventType == {"end_turn", "error"}

ASSUME WebhookAssumption ==
    /\ Filters \in Seq(SUBSET EventType)
    /\ MaxAttempts \in Nat \ {0}

VARIABLES
    step,           \* where run_forwarder is
    received,       \* the change it has received
    prev,           \* prev_turn_states: turn -> the state last seen
    pending,        \* deliveries of the current batch still to make
    attempt,        \* failed attempts at the first of them
    \* history, read by the properties only
    reports,        \* turn -> the outcomes reported of it, in order
    excused         \* turns that ended unseen: before the forwarder
                    \* subscribed, or while it lagged

forwarder     == <<step, received, prev, pending, attempt>>
reported      == <<reports, excused>>
forwarderVars == <<vars, forwarder, reported>>

Step == {"start", "recv", "detect", "resync", "dispatch"}
Hook == DOMAIN Filters

Ended    == {t \in DOMAIN turns : turns[t].state \in Terminal}
Event(t) == IF turns[t].state = "broken" THEN "error" ELSE "end_turn"
States   == [t \in DOMAIN turns |-> turns[t].state]

-----------------------------------------------------------------------------
ForwarderInit ==
    /\ Init
    /\ step = "start" /\ received = "Connections"
    /\ prev = EmptyMap
    /\ pending = {} /\ attempt = 0
    /\ reports = EmptyMap /\ excused = {}

\* The spawned task subscribes, if there are hooks at all.
Subscribe ==
    /\ step = "start" /\ Hook # {}
    /\ step' = "recv"
    /\ subscribed' = TRUE
    /\ excused' = Ended
    /\ UNCHANGED <<correlation, collections, feed, lagged, task, wire,
                   received, prev, pending, attempt, reports>>

\* rx.recv() returns the oldest change the channel has kept ...
Recv ==
    /\ step = "recv" /\ ~lagged /\ feed # <<>>
    /\ received' = Head(feed) /\ feed' = Tail(feed)
    /\ step' = "detect"
    /\ UNCHANGED <<correlation, collections, subscribed, lagged, task, wire,
                   prev, pending, attempt, reported>>

\* ... or, once, that changes were lost.
RecvLagged ==
    /\ step = "recv" /\ lagged
    /\ lagged' = FALSE
    /\ step' = "resync"
    /\ UNCHANGED <<correlation, collections, subscribed, feed, task, wire,
                   received, prev, pending, attempt, reported>>

\* Fault of NewlyEnded: a turn never seen before is not reported.
SeenEnding == {t \in Ended : t \in DOMAIN prev /\ prev[t] \notin Terminal}

\* The turns that are terminal now and were not when last seen.
NewlyEnded == {t \in Ended : t \in DOMAIN prev => prev[t] \notin Terminal}

\* The events of these turns, for the hooks that want them
Deliveries(T) == {d \in [turn: T, hook: Hook] :
                    Event(d.turn) \in Filters[d.hook]}

ReportsOf(t) == IF t \in DOMAIN reports THEN reports[t] ELSE <<>>

Report(T) ==
    /\ pending' = Deliveries(T)
    /\ reports' = [t \in DOMAIN reports \cup T |->
                     IF t \in T THEN Append(ReportsOf(t), turns[t].state)
                                ELSE reports[t]]
    /\ step' = IF pending' = {} THEN "recv" ELSE "dispatch"

\* A snapshot, and detect_turn_events if the change concerns the turns
Detect ==
    /\ step = "detect"
    /\ IF received = "PromptTurns"
         THEN /\ Report(NewlyEnded)
              /\ prev' = [t \in DOMAIN prev \cup DOMAIN turns |->
                            IF t \in DOMAIN turns THEN States[t] ELSE prev[t]]
         ELSE step' = "recv" /\ UNCHANGED <<prev, pending, reports>>
    /\ UNCHANGED <<vars, received, attempt, excused>>

\* Fault of Resync: the states seen before are forgotten.
ResyncEmpty ==
    /\ step = "resync"
    /\ prev' = EmptyMap
    /\ step' = "recv"
    /\ excused' = excused \cup NewlyEnded
    /\ UNCHANGED <<vars, received, pending, attempt, reports>>

\* After a lag: take the states of a snapshot as seen.  What has ended in
\* the meantime is not reported.
Resync ==
    /\ step = "resync"
    /\ prev' = States
    /\ step' = "recv"
    /\ excused' = excused \cup NewlyEnded
    /\ UNCHANGED <<vars, received, pending, attempt, reports>>

\* Turn by turn, and hook by hook in the configured order
First(D) == CHOOSE d \in D : \A e \in D :
                \/ d.turn < e.turn
                \/ d.turn = e.turn /\ d.hook <= e.hook

\* Done with the first delivery
Drop ==
    /\ pending' = pending \ {First(pending)}
    /\ attempt' = 0
    /\ step' = IF pending' = {} THEN "recv" ELSE "dispatch"

\* try_dispatch answers true.
Accepted ==
    /\ step = "dispatch"
    /\ Drop
    /\ UNCHANGED <<vars, received, prev, reported>>

\* Faults of Failed: one attempt too many; after the last attempt the retry
\* schedule starts over.
FailedOnceMore ==
    /\ step = "dispatch"
    /\ IF attempt < MaxAttempts
         THEN attempt' = attempt + 1 /\ UNCHANGED <<step, pending>>
         ELSE Drop
    /\ UNCHANGED <<vars, received, prev, reported>>
FailedStartsOver ==
    /\ step = "dispatch"
    /\ attempt' = (attempt + 1) % MaxAttempts
    /\ UNCHANGED <<vars, step, received, prev, pending, reported>>

\* try_dispatch answers false: sleep and retry, up to the last attempt.
Failed ==
    /\ step = "dispatch"
    /\ IF attempt + 1 < MaxAttempts
         THEN attempt' = attempt + 1 /\ UNCHANGED <<step, pending>>
         ELSE Drop
    /\ UNCHANGED <<vars, received, prev, reported>>

Forward == \/ Subscribe \/ Recv \/ RecvLagged \/ Detect \/ Resync
           \/ Accepted \/ Failed

ForwarderNext == \/ Next /\ UNCHANGED <<forwarder, reported>>
                 \/ Forward

ForwarderSpec == ForwarderInit /\ [][ForwarderNext]_forwarderVars

\* The runtime polls the forwarder, and each of its waits ends: a request
\* after 10 seconds at most, a retry delay, a recv when there is a change.
FairForwarderSpec ==
    /\ ForwarderSpec
    /\ \A w \in Task : WF_vars(Deliver(w) \/ Apply(w))
    /\ WF_forwarderVars(Forward)

-----------------------------------------------------------------------------
(* Properties.                                                             *)

(* Every variable of the forwarder holds a value of its type.              *)
ForwarderTypeOK ==
    /\ TypeOK
    /\ step \in Step /\ received \in Change
    /\ DOMAIN prev \subseteq Turn /\ prev \in [DOMAIN prev -> TurnState]
    /\ pending \subseteq [turn: Turn, hook: Hook]
    /\ attempt \in 0..(MaxAttempts - 1)
    /\ step = "dispatch" <=> pending # {}
    /\ DOMAIN reports \subseteq Turn
    /\ reports \in [DOMAIN reports -> Seq(Terminal)]
    /\ excused \subseteq Turn

(* No turn is reported twice, however its changes are coalesced, reordered *)
(* with the snapshot or lost, and the outcome reported is the one the turn *)
(* keeps (detect_turn_events, the resync of run_forwarder).                *)
ReportedOnce ==
    \A t \in DOMAIN reports :
        /\ t \in DOMAIN turns
        /\ reports[t] = <<turns[t].state>>

\* The forwarder will look at the turns again without any further change:
\* one is on its way, or it is about to read or resync a snapshot.
WillLook ==
    \/ \E w \in Task : task[w].pc = "notify" /\ task[w].change = "PromptTurns"
    \/ "PromptTurns" \in Image(feed)
    \/ step = "detect" /\ received = "PromptTurns"
    \/ lagged \/ step = "resync"

(* No lost wake-up: a turn that has ended is reported, was excused, or the *)
(* forwarder is bound to look at the turns again.  Changes are sent after  *)
(* the lock is released and carry no data, so this rests on the order      *)
(* write, send, receive, snapshot.                                         *)
NoEventMissed ==
    step # "start" =>
        \A t \in Ended :
            \/ t \in DOMAIN reports
            \/ t \in excused
            \/ WillLook

(* A turn that has ended is eventually reported or, when the forwarder     *)
(* lagged, excused: a hook that keeps failing delays the others and not    *)
(* for ever.                                                               *)
EventuallyReported ==
    \A t \in 1..MaxTurns :
        (t \in DOMAIN turns /\ turns[t].state \in Terminal /\ step # "start")
        ~> (t \in excused \/ t \in DOMAIN reports)
=============================================================================

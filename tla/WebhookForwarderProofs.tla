----------------------- MODULE WebhookForwarderProofs -----------------------
(* Proofs about WebhookForwarder, for any number of tracers and hooks, any *)
(* capacity of the change channel and any choice of request ids.           *)
EXTENDS WebhookForwarder, StreamDbProofs

-----------------------------------------------------------------------------
(* The forwarder beside the read model.                                    *)

\* The forwarder touches nothing of the read model but the change channel.
LEMMA ForwardFrame ==
    ASSUME Forward
    PROVE  UNCHANGED <<correlation, collections, task, wire>>
  BY DEF Forward, Subscribe, Recv, RecvLagged, Detect, Resync, Accepted,
         Failed, vars

LEMMA ForwardType ==
    ASSUME TypeOK, Forward
    PROVE  TypeOK'
  <1>1. /\ subscribed \in BOOLEAN /\ lagged \in BOOLEAN
        /\ feed \in Seq(Change) /\ Len(feed) <= FeedCapacity
    BY DEF TypeOK
  <1>2. /\ subscribed' \in BOOLEAN /\ lagged' \in BOOLEAN
        /\ feed' = feed \/ (feed # <<>> /\ feed' = Tail(feed))
    BY <1>1 DEF Forward, Subscribe, Recv, RecvLagged, Detect, Resync,
                Accepted, Failed, vars, channel
  <1>3. feed' \in Seq(Change) /\ Len(feed') <= FeedCapacity
    <2>1. CASE feed' = feed
      BY <1>1, <2>1
    <2>2. CASE feed # <<>> /\ feed' = Tail(feed)
      <3>1. Tail(feed) \in Seq(Change) /\ Len(Tail(feed)) = Len(feed) - 1
        BY <1>1, <2>2
      <3>2. Len(feed) \in Nat /\ FeedCapacity \in Nat
        BY <1>1, StreamDbAssumption
      <3>3. QED
        BY <1>1, <2>2, <3>1, <3>2
    <2>3. QED
      BY <1>2, <2>1, <2>2
  <1>4. QED
    BY <1>2, <1>3, ForwardFrame DEF TypeOK, correlation, collections, wire

LEMMA ForwardOutcome ==
    ASSUME OutcomeInv, Forward
    PROVE  OutcomeInv'
  BY ForwardFrame DEF OutcomeInv, CorrelationOwnsTurns, InsertersOwnTurns,
     FinishersOwnTurns, correlation, collections

\* What the read model keeps beside the forwarder.
ReadModelInv == TypeOK /\ OutcomeInv

LEMMA ReadModelInit == ForwarderInit => ReadModelInv
  BY InitType, InitOutcome DEF ForwarderInit, ReadModelInv

LEMMA ReadModelNext == ReadModelInv /\ [ForwarderNext]_forwarderVars => ReadModelInv'
  BY NextType, NextOutcome, ForwardType, ForwardOutcome
     DEF ReadModelInv, ForwarderNext, forwarderVars

LEMMA ReadModelKept == ForwarderSpec => []ReadModelInv
  BY ReadModelInit, ReadModelNext, PTL DEF ForwarderSpec

\* A step of the read model or of the forwarder keeps what has ended.
LEMMA EndedKept ==
    ASSUME ReadModelInv, [ForwarderNext]_forwarderVars,
           NEW t \in DOMAIN turns, turns[t].state \in Terminal
    PROVE  t \in DOMAIN turns' /\ turns'[t] = turns[t]
  <1>1. CASE Next
    BY <1>1, StepKeepsOutcomes DEF Next, ReadModelInv
  <1>2. CASE Forward
    BY <1>2, ForwardFrame DEF collections
  <1>3. CASE UNCHANGED forwarderVars
    BY <1>3 DEF forwarderVars, vars, collections
  <1>4. QED
    BY <1>1, <1>2, <1>3 DEF ForwarderNext

-----------------------------------------------------------------------------
(* Type correctness.                                                       *)

ForwarderOwnType ==
    /\ step \in Step /\ received \in Change
    /\ DOMAIN prev \subseteq Turn /\ prev \in [DOMAIN prev -> TurnState]
    /\ pending \subseteq [turn: Turn, hook: Hook]
    /\ attempt \in 0..(MaxAttempts - 1)
    /\ step = "dispatch" <=> pending # {}
    /\ DOMAIN reports \subseteq Turn
    /\ reports \in [DOMAIN reports -> Seq(Terminal)]
    /\ excused \subseteq Turn

\* The states of a snapshot, and the turns that have ended in it.
LEMMA SnapshotType ==
    ASSUME TypeOK
    PROVE  /\ Ended \subseteq DOMAIN turns /\ DOMAIN turns \subseteq Turn
           /\ NewlyEnded \subseteq Ended
           /\ DOMAIN States = DOMAIN turns
           /\ \A t \in DOMAIN turns : /\ States[t] = turns[t].state
                                      /\ turns[t].state \in TurnState
           /\ \A t \in Ended : turns[t].state \in Terminal
  BY DEF TypeOK, Ended, NewlyEnded, States, TurnRow

LEMMA DetectType ==
    ASSUME TypeOK, ForwarderOwnType, Detect
    PROVE  ForwarderOwnType'
  <1>1. CASE received = "PromptTurns"
    <2> DEFINE T == NewlyEnded
    <2>1. Report(T)
      BY <1>1 DEF Detect
    <2>2. T \subseteq Turn /\ T \subseteq DOMAIN turns
      BY SnapshotType
    <2>3. pending' \subseteq [turn: Turn, hook: Hook]
      BY <2>1, <2>2 DEF Report, Deliveries
    <2>4. step' \in Step /\ (step' = "dispatch" <=> pending' # {})
      BY <2>1 DEF Report, Step
    <2>5. /\ DOMAIN reports' \subseteq Turn
          /\ reports' \in [DOMAIN reports' -> Seq(Terminal)]
      <3>1. \A t \in T : Append(ReportsOf(t), turns[t].state) \in Seq(Terminal)
        <4>1. SUFFICES ASSUME NEW t \in T
                       PROVE  Append(ReportsOf(t), turns[t].state) \in Seq(Terminal)
          OBVIOUS
        <4>2. turns[t].state \in Terminal
          BY SnapshotType
        <4>3. ReportsOf(t) \in Seq(Terminal)
          BY DEF ReportsOf, ForwarderOwnType
        <4>4. QED
          BY <4>2, <4>3
      <3>2. reports' = [t \in DOMAIN reports \cup T |->
                          IF t \in T THEN Append(ReportsOf(t), turns[t].state)
                                     ELSE reports[t]]
        BY <2>1 DEF Report
      <3> HIDE DEF T
      <3>3. QED
        BY <2>2, <3>1, <3>2 DEF ForwarderOwnType
    <2>6. DOMAIN prev' \subseteq Turn /\ prev' \in [DOMAIN prev' -> TurnState]
      BY <1>1, SnapshotType DEF Detect, ForwarderOwnType
    <2>7. UNCHANGED <<received, attempt, excused>>
      BY DEF Detect
    <2>8. QED
      BY <2>3, <2>4, <2>5, <2>6, <2>7 DEF ForwarderOwnType
  <1>2. CASE received # "PromptTurns"
    <2>1. /\ step = "detect" /\ step' = "recv"
          /\ UNCHANGED <<prev, pending, reports, received, attempt, excused>>
      BY <1>2 DEF Detect
    <2>2. QED
      BY <2>1 DEF ForwarderOwnType, Step
  <1>3. QED
    BY <1>1, <1>2

\* Any other step of the forwarder.
LEMMA ForwardOwnType ==
    ASSUME TypeOK, ForwarderOwnType, Forward
    PROVE  ForwarderOwnType'
  <1>1. CASE Subscribe
    BY <1>1, SnapshotType DEF Subscribe, ForwarderOwnType, Step
  <1>2. CASE Recv
    <2>1. Head(feed) \in Change
      BY <1>2 DEF Recv, TypeOK
    <2>2. QED
      BY <1>2, <2>1 DEF Recv, ForwarderOwnType, Step, reported
  <1>3. CASE RecvLagged
    BY <1>3 DEF RecvLagged, ForwarderOwnType, Step, reported
  <1>4. CASE Detect
    BY <1>4, DetectType
  <1>5. CASE Resync
    <2>1. DOMAIN prev' \subseteq Turn /\ prev' \in [DOMAIN prev' -> TurnState]
      BY <1>5, SnapshotType DEF Resync, States
    <2>2. excused' \subseteq Turn
      BY <1>5, SnapshotType DEF Resync, ForwarderOwnType
    <2>3. QED
      BY <1>5, <2>1, <2>2 DEF Resync, ForwarderOwnType, Step
  <1>6. ASSUME step = "dispatch", Drop, UNCHANGED <<received, prev, reported>>
        PROVE  ForwarderOwnType'
    BY <1>6, WebhookAssumption DEF Drop, ForwarderOwnType, Step, reported
  <1>7. CASE Accepted
    BY <1>6, <1>7 DEF Accepted
  <1>8. CASE Failed
    <2>1. CASE attempt + 1 < MaxAttempts
      <3>1. attempt' \in 0..(MaxAttempts - 1)
        BY <1>8, <2>1, WebhookAssumption DEF Failed, ForwarderOwnType
      <3>2. QED
        BY <1>8, <2>1, <3>1 DEF Failed, ForwarderOwnType, reported
    <2>2. CASE ~(attempt + 1 < MaxAttempts)
      BY <1>6, <1>8, <2>2 DEF Failed
    <2>3. QED
      BY <2>1, <2>2
  <1>9. QED
    BY <1>1, <1>2, <1>3, <1>4, <1>5, <1>7, <1>8 DEF Forward

(* Whatever the tracers do, however many changes are lost and however many *)
(* attempts fail, every variable of the forwarder keeps its type: a batch  *)
(* is being delivered exactly while something of it is left, and no hook   *)
(* is tried more than MaxAttempts times.                                   *)
THEOREM ForwarderTypeCorrect == ForwarderSpec => []ForwarderTypeOK
  <1>1. ForwarderInit => ForwarderOwnType
    BY WebhookAssumption
       DEF ForwarderInit, ForwarderOwnType, Step, Change, EmptyMap
  <1>2. ReadModelInv /\ ForwarderOwnType /\ [ForwarderNext]_forwarderVars
          => ForwarderOwnType'
    <2>1. ForwarderOwnType /\ UNCHANGED <<forwarder, reported>>
            => ForwarderOwnType'
      BY DEF ForwarderOwnType, forwarder, reported
    <2>2. QED
      BY <2>1, ForwardOwnType DEF ForwarderNext, forwarderVars, ReadModelInv
  <1>3. ReadModelInv /\ ForwarderOwnType => ForwarderTypeOK
    BY DEF ReadModelInv, ForwarderOwnType, ForwarderTypeOK
  <1>4. QED
    BY <1>1, <1>2, <1>3, ReadModelKept, PTL DEF ForwarderSpec

-----------------------------------------------------------------------------
(* Reported once.                                                          *)

\* ReportedOnce is not inductive: it must also be known that a reported turn
\* is among the states seen, as ended, and that it cannot change any more.
SeenAsReported ==
    \A t \in DOMAIN reports :
        /\ t \in DOMAIN prev /\ prev[t] \in Terminal
        /\ t \in DOMAIN turns /\ turns[t].state \in Terminal
        /\ reports[t] = <<turns[t].state>>

LEMMA DetectReports ==
    ASSUME TypeOK, SeenAsReported, Detect
    PROVE  SeenAsReported'
  <1>1. CASE received = "PromptTurns"
    <2> DEFINE T == NewlyEnded
    <2>1. /\ turns' = turns
          /\ DOMAIN reports' = DOMAIN reports \cup T
          /\ \A t \in T : reports'[t] = Append(ReportsOf(t), turns[t].state)
          /\ \A t \in DOMAIN reports \ T : reports'[t] = reports[t]
      BY <1>1 DEF Detect, Report, vars, collections
    <2>2. /\ DOMAIN prev' = DOMAIN prev \cup DOMAIN turns
          /\ \A t \in DOMAIN turns : prev'[t] = turns[t].state
      BY <1>1, SnapshotType DEF Detect
    <2>3. \A t \in T : /\ t \notin DOMAIN reports
                       /\ t \in DOMAIN turns /\ turns[t].state \in Terminal
      BY SnapshotType DEF NewlyEnded, SeenAsReported
    <2>4. \A t \in T : reports'[t] = <<turns[t].state>>
      <3>1. \A t \in T : ReportsOf(t) = <<>>
        BY <2>3 DEF ReportsOf
      <3>2. \A x : Append(<<>>, x) = <<x>>
        OBVIOUS
      <3>3. QED
        BY <2>1, <3>1, <3>2
    <2> HIDE DEF T
    <2>5. QED
      BY <2>1, <2>2, <2>3, <2>4 DEF SeenAsReported
  <1>2. CASE received # "PromptTurns"
    BY <1>2 DEF Detect, SeenAsReported, vars, collections
  <1>3. QED
    BY <1>1, <1>2

LEMMA NextReports ==
    ASSUME ReadModelInv, SeenAsReported, [ForwarderNext]_forwarderVars
    PROVE  SeenAsReported'
  <1>1. CASE UNCHANGED <<forwarder, reported>>
    BY <1>1, EndedKept DEF SeenAsReported, forwarder, reported
  <1>2. CASE Detect
    BY <1>2, DetectReports DEF ReadModelInv
  <1>3. CASE Resync
    BY <1>3 DEF Resync, SeenAsReported, States, vars, collections
  <1>4. CASE Subscribe \/ Recv \/ RecvLagged \/ Accepted \/ Failed
    <2>1. UNCHANGED <<prev, reports>>
      BY <1>4 DEF Subscribe, Recv, RecvLagged, Accepted, Failed, reported
    <2>2. QED
      BY <2>1, EndedKept DEF SeenAsReported
  <1>5. QED
    BY <1>1, <1>2, <1>3, <1>4 DEF ForwarderNext, Forward, forwarderVars

(* No turn is ever reported twice, and what was reported is the outcome    *)
(* the turn keeps: however changes are coalesced or lost, whatever the     *)
(* resync forgets, and even when request ids collide (run_forwarder,       *)
(* detect_turn_events).                                                    *)
THEOREM NothingReportedTwice == ForwarderSpec => []ReportedOnce
  <1>1. ForwarderInit => SeenAsReported
    BY DEF ForwarderInit, SeenAsReported, EmptyMap
  <1>2. SeenAsReported => ReportedOnce
    BY DEF SeenAsReported, ReportedOnce
  <1>3. QED
    BY <1>1, <1>2, NextReports, ReadModelKept, PTL DEF ForwarderSpec

-----------------------------------------------------------------------------
(* None missed.                                                            *)

\* What the forwarder has seen end was reported or excused, and it has seen
\* nothing before it subscribed.
SeenIsSettled ==
    /\ \A t \in DOMAIN prev :
         prev[t] \in Terminal => t \in DOMAIN reports \cup excused
    /\ step = "start" => DOMAIN prev = {}
    /\ step # "start" => subscribed

\* What of WillLook the read model may disturb: a change of the turns is on
\* its way, or the forwarder knows that it lost one.
Underway ==
    \/ \E w \in Task : task[w].pc = "notify" /\ task[w].change = "PromptTurns"
    \/ "PromptTurns" \in Image(feed)
    \/ lagged

LEMMA WillLookSplit ==
    WillLook <=> \/ Underway
                 \/ step = "detect" /\ received = "PromptTurns"
                 \/ step = "resync"
  BY DEF WillLook, Underway

\* Nothing but a tracer's Notify touches the channel.
LEMMA ChannelFrame ==
    ASSUME NEW w \in Task, Observe(w) \/ Deliver(w) \/ Apply(w)
    PROVE  Notify(w) \/ UNCHANGED channel
  BY DEF Observe, ObserveSessionNew, ObservePrompt, ObserveRequest,
     ObserveResponse, ObserveUpdate, ObserveOther, Deliver, Apply,
     BeginSessionNew, UpdateCwd, BeginPrompt, TrackPrompt, InsertTurn,
     IgnoreRequest, EndSessionNew, Attach, EndPrompt, Forget, FinishTurn,
     IgnoreResponse, FindTurn, NumberChunk, InsertChunk, IgnoreNotification

\* A task about to announce a change can only announce it.
LEMMA NotifyOnly ==
    ASSUME NEW w \in Task, Observe(w) \/ Deliver(w) \/ Apply(w),
           task[w].pc = "notify"
    PROVE  Notify(w)
  BY DEF Observe, ObserveSessionNew, ObservePrompt, ObserveRequest,
     ObserveResponse, ObserveUpdate, ObserveOther, Take, Deliver, Apply,
     Applying, BeginSessionNew, UpdateCwd, BeginPrompt, InsertTurn,
     IgnoreRequest, EndSessionNew, Attach, EndPrompt, AnswersPrompt,
     FinishTurn, IgnoreResponse, FindTurn, NumberChunk, InsertChunk,
     IgnoreNotification

\* What Notify does to a channel with a receiver: the new change is in it,
\* and an older one is too unless the receiver will be told of a loss.
LEMMA NotifyFeed ==
    ASSUME TypeOK, NEW w \in Task, Notify(w), subscribed
    PROVE  /\ task[w].change \in Image(feed')
           /\ lagged => lagged'
           /\ \A c \in Image(feed) : c \in Image(feed') \/ lagged'
  <1> DEFINE c == task[w].change
  <1>1. feed \in Seq(Change) /\ c \in Change /\ Len(feed) <= FeedCapacity
        /\ FeedCapacity \in Nat \ {0} /\ Len(feed) \in Nat
    BY StreamDbAssumption DEF TypeOK, TaskState
  <1>2. lagged' = (lagged \/ Len(feed) = FeedCapacity)
    BY DEF Notify
  <1>3. CASE Len(feed) < FeedCapacity
    <2>1. feed' = Append(feed, c)
      BY <1>3 DEF Notify
    <2> HIDE DEF c
    <2>2. /\ Len(feed') = Len(feed) + 1 /\ feed'[Len(feed) + 1] = c
          /\ DOMAIN feed = 1..Len(feed)
          /\ \A i \in DOMAIN feed : feed'[i] = feed[i]
          /\ DOMAIN feed' = 1..(Len(feed) + 1)
      BY <1>1, <2>1
    <2>3. Len(feed) + 1 \in DOMAIN feed' /\ DOMAIN feed \subseteq DOMAIN feed'
      BY <1>1, <2>2
    <2>4. c \in Image(feed') /\ \A x \in Image(feed) : x \in Image(feed')
      BY <2>2, <2>3 DEF Image
    <2>5. QED
      BY <1>2, <2>4 DEF c
  <1>4. CASE ~(Len(feed) < FeedCapacity)
    <2>1. Len(feed) = FeedCapacity /\ feed # <<>>
      BY <1>1, <1>4
    <2>2. feed' = Append(Tail(feed), c)
      BY <1>4 DEF Notify
    <2> HIDE DEF c
    <2>3. Tail(feed) \in Seq(Change) /\ Len(Tail(feed)) = Len(feed) - 1
      BY <1>1, <2>1
    <2>4. DOMAIN feed' = 1..Len(feed) /\ feed'[Len(feed)] = c
      BY <1>1, <2>1, <2>2, <2>3
    <2>5. c \in Image(feed')
      BY <1>1, <2>1, <2>4 DEF Image
    <2>6. QED
      BY <1>2, <2>1, <2>5 DEF c
  <1>5. QED
    BY <1>3, <1>4

\* A step of a tracer does not lose what is underway to the forwarder.
LEMMA UnderwayKept ==
    ASSUME TypeOK, subscribed, NEW w \in Task,
           Observe(w) \/ Deliver(w) \/ Apply(w), Underway
    PROVE  Underway'
  <1>1. CASE Notify(w)
    <2>1. \A v \in Task : task[v].pc = "notify" /\ task[v].change = "PromptTurns"
            => "PromptTurns" \in Image(feed') \/ task'[v] = task[v]
      BY <1>1, NotifyFeed, TaskFrame
    <2>2. QED
      BY <1>1, <2>1, NotifyFeed DEF Underway
  <1>2. CASE UNCHANGED channel
    <2>1. CASE task[w].pc = "notify"
      BY <1>1, <2>1, NotifyOnly
    <2>2. CASE task[w].pc # "notify"
      BY <1>2, <2>2, TaskFrame DEF Underway, channel
    <2>3. QED
      BY <2>1, <2>2
  <1>3. QED
    BY <1>1, <1>2, ChannelFrame

\* A turn that ends is about to be announced.
LEMMA EndingAnnounced ==
    ASSUME TypeOK, NEW w \in Task, Observe(w) \/ Deliver(w) \/ Apply(w),
           NEW t \in Ended', t \notin Ended
    PROVE  task'[w].pc = "notify" /\ task'[w].change = "PromptTurns"
  <1>1. turns' # turns
    BY DEF Ended
  <1>2. CASE InsertTurn(w)
    <2>1. \A u \in DOMAIN turns' : \/ turns'[u].state = "active"
                                   \/ u \in DOMAIN turns /\ turns'[u] = turns[u]
      BY <1>2 DEF InsertTurn, Put
    <2>2. QED
      BY <2>1 DEF Ended, Terminal
  <1>3. CASE FinishTurn(w)
    <2>1. task[w] \in TaskState /\ task \in [Task -> TaskState]
      BY DEF TypeOK
    <2>2. QED
      BY <1>3, <2>1 DEF FinishTurn, Announce, Become, TaskState
  <1>4. QED
    BY <1>1, <1>2, <1>3, TurnWriters

LEMMA ForwarderInitMissed == ForwarderInit => SeenIsSettled /\ NoEventMissed
  BY DEF ForwarderInit, SeenIsSettled, NoEventMissed, EmptyMap

LEMMA NextMissed ==
    ASSUME ReadModelInv, SeenIsSettled, NoEventMissed,
           [ForwarderNext]_forwarderVars
    PROVE  SeenIsSettled' /\ NoEventMissed'
  <1> USE DEF ReadModelInv
  <1>1. ASSUME NEW w \in Task, Observe(w) \/ Deliver(w) \/ Apply(w),
               UNCHANGED <<forwarder, reported>>
        PROVE  SeenIsSettled' /\ NoEventMissed'
    <2>1. subscribed' = subscribed
      BY <1>1, ChannelFrame DEF Notify, channel
    <2>2. SeenIsSettled'
      BY <1>1, <2>1 DEF SeenIsSettled, forwarder, reported
    <2>3. SUFFICES ASSUME step # "start", NEW t \in Ended'
                   PROVE  t \in DOMAIN reports \/ t \in excused \/ WillLook'
      BY <1>1, <2>2 DEF NoEventMissed, forwarder, reported
    <2>4. subscribed
      BY <2>3 DEF SeenIsSettled
    <2>5. CASE t \notin Ended
      <3>1. Underway'
        BY <1>1, <2>3, <2>5, EndingAnnounced DEF Underway
      <3>2. QED
        BY <3>1 DEF Underway, WillLook
    <2>6. CASE t \in Ended /\ WillLook
      <3>1. CASE Underway
        <4>1. Underway'
          BY <1>1, <2>4, <3>1, UnderwayKept
        <4>2. QED
          BY <4>1 DEF Underway, WillLook
      <3>2. CASE ~Underway
        BY <1>1, <2>6, <3>2, WillLookSplit DEF WillLook, forwarder
      <3>3. QED
        BY <3>1, <3>2
    <2>7. QED
      BY <2>3, <2>5, <2>6 DEF NoEventMissed
  <1>2. CASE UNCHANGED forwarderVars
    BY <1>2 DEF forwarderVars, vars, collections, channel, forwarder, reported,
       SeenIsSettled, NoEventMissed, Ended, WillLook, Image
  <1>3. CASE Forward
    <2>1. UNCHANGED <<task, turns>> /\ Ended' = Ended
      BY <1>3, ForwardFrame DEF collections, Ended
    <2>2. CASE Subscribe
      BY <2>1, <2>2 DEF Subscribe, SeenIsSettled, NoEventMissed
    <2>3. CASE Recv
      <3>1. step = "recv" /\ ~lagged /\ feed # <<>> /\ feed \in Seq(Change)
        BY <2>3 DEF Recv, TypeOK
      <3>2. \A c \in Image(feed) : c = Head(feed) \/ c \in Image(Tail(feed))
        <4>1. SUFFICES ASSUME NEW i \in 1..Len(feed), i # 1
                       PROVE  feed[i] \in Image(Tail(feed))
          BY <3>1 DEF Image
        <4>2. /\ Tail(feed) \in Seq(Change) /\ Len(Tail(feed)) = Len(feed) - 1
              /\ \A j \in 1..(Len(feed) - 1) : Tail(feed)[j] = feed[j + 1]
          BY <3>1
        <4>3. i - 1 \in 1..(Len(feed) - 1) /\ (i - 1) + 1 = i
          BY <3>1, <4>1
        <4>4. i - 1 \in DOMAIN Tail(feed) /\ Tail(feed)[i - 1] = feed[i]
          BY <4>2, <4>3
        <4>5. QED
          BY <4>4 DEF Image
      <3>3. WillLook => WillLook'
        BY <2>1, <2>3, <3>1, <3>2 DEF Recv, WillLook
      <3>4. QED
        BY <2>1, <2>3, <3>1, <3>3 DEF Recv, SeenIsSettled, NoEventMissed, reported
    <2>4. CASE RecvLagged
      BY <2>4 DEF RecvLagged, SeenIsSettled, NoEventMissed, WillLook, reported
    <2>5. CASE Detect /\ received = "PromptTurns"
      <3>1. /\ DOMAIN reports' = DOMAIN reports \cup NewlyEnded
            /\ UNCHANGED <<excused, subscribed>>
            /\ step = "detect" /\ step' # "start"
            /\ DOMAIN prev' = DOMAIN prev \cup DOMAIN turns
            /\ \A t \in DOMAIN prev' :
                 prev'[t] = IF t \in DOMAIN turns THEN turns[t].state ELSE prev[t]
        BY <2>5, SnapshotType DEF Detect, Report, vars, channel
      <3>2. \A t \in Ended : t \in DOMAIN reports' \cup excused
        BY <3>1 DEF NewlyEnded, SeenIsSettled
      <3>3. SeenIsSettled'
        BY <3>1, <3>2 DEF SeenIsSettled, Ended
      <3>4. QED
        BY <2>1, <3>1, <3>2, <3>3 DEF NoEventMissed
    <2>6. CASE Detect /\ received # "PromptTurns"
      <3>1. /\ step = "detect" /\ step' = "recv"
            /\ UNCHANGED <<prev, reports, excused, received, channel>>
        BY <2>6 DEF Detect, vars
      <3>2. QED
        BY <2>1, <2>6, <3>1
           DEF SeenIsSettled, NoEventMissed, WillLook, channel
    <2>7. CASE Resync
      <3>1. /\ step' = "recv" /\ UNCHANGED <<reports, subscribed>>
            /\ step = "resync" /\ excused' = excused \cup NewlyEnded
            /\ DOMAIN prev' = DOMAIN turns
            /\ \A t \in DOMAIN turns : prev'[t] = turns[t].state
        BY <2>7, SnapshotType DEF Resync, vars, channel
      <3>2. \A t \in Ended : t \in DOMAIN reports \cup excused'
        BY <3>1 DEF NewlyEnded, SeenIsSettled
      <3>3. SeenIsSettled'
        BY <3>1, <3>2 DEF SeenIsSettled, Ended
      <3>4. QED
        BY <2>1, <3>1, <3>2, <3>3 DEF NoEventMissed
    <2>8. CASE Accepted \/ Failed
      <3>1. /\ step = "dispatch" /\ step' \in {"recv", "dispatch"}
            /\ UNCHANGED <<prev, reports, excused, received, channel>>
        BY <2>8 DEF Accepted, Failed, Drop, reported, vars
      <3>2. QED
        BY <2>1, <3>1 DEF SeenIsSettled, NoEventMissed, WillLook, channel
    <2>9. QED
      BY <1>3, <2>2, <2>3, <2>4, <2>5, <2>6, <2>7, <2>8 DEF Forward
  <1>4. QED
    BY <1>1, <1>2, <1>3 DEF ForwarderNext, Next

(* No wake-up is lost: once the forwarder has subscribed, a turn that has  *)
(* ended was reported, was excused, or the forwarder is bound to look at   *)
(* the turns again, for every capacity of the channel and every number of  *)
(* tracers (run_forwarder, StreamDb::apply_json_message).                  *)
THEOREM NoWakeUpLost == ForwarderSpec => []NoEventMissed
  BY ForwarderInitMissed, NextMissed, ReadModelKept, PTL DEF ForwarderSpec
=============================================================================

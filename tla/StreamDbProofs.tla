--------------------------- MODULE StreamDbProofs ---------------------------
(* Proofs about StreamDb, for every value of its constants.                *)
EXTENDS StreamDb, TLAPS

-----------------------------------------------------------------------------
(* Maps.                                                                   *)

LEMMA PutType ==
    ASSUME NEW D, NEW R, NEW f, DOMAIN f \subseteq D, f \in [DOMAIN f -> R],
           NEW k \in D, NEW v \in R
    PROVE  /\ DOMAIN Put(f, k, v) \subseteq D
           /\ Put(f, k, v) \in [DOMAIN Put(f, k, v) -> R]
  BY DEF Put

LEMMA WithoutType ==
    ASSUME NEW D, NEW R, NEW f, DOMAIN f \subseteq D, f \in [DOMAIN f -> R],
           NEW S
    PROVE  /\ DOMAIN Without(f, S) \subseteq D
           /\ Without(f, S) \in [DOMAIN Without(f, S) -> R]
  BY DEF Without

-----------------------------------------------------------------------------
(* Type correctness.                                                       *)

LEMMA IdleTaskType == IdleTask \in TaskState /\ NoMessage \in Message
  <1>1. NoMessage \in Message
    BY DEF NoMessage, Message, MessageKind, RequestKind
  <1>2. QED
    BY <1>1 DEF IdleTask, TaskState, Section, Change

LEMMA RequestType ==
    ASSUME NEW kind \in RequestKind \cup {"session/update"},
           NEW id \in RequestId \cup {NoRequest},
           NEW s \in Session \cup {NoSession},
           kind # "session/update" => id \in RequestId,
           kind \in {"session/prompt", "session/update"} => s \in Session
    PROVE  Request(kind, id, s) \in Message
  BY IdleTaskType DEF Request, NoMessage, Message, MessageKind, RequestKind

LEMMA TakeType ==
    ASSUME TypeOK, NEW w \in Task, NEW m \in Message, Take(w, m)
    PROVE  task' \in [Task -> TaskState]
  <1>1. [IdleTask EXCEPT !.pc = "append", !.msg = m] \in TaskState
    BY IdleTaskType DEF TaskState, Section
  <1>2. QED
    BY <1>1 DEF Take, TypeOK

\* A request goes into the outstanding requests of its task.
LEMMA SendRequestType ==
    ASSUME TypeOK, NEW w \in Task, NEW party \in Party,
           NEW kind \in RequestKind, NEW id \in RequestId,
           NEW s \in Session \cup {NoSession}, SendRequest(w, party, kind, id, s)
    PROVE  outstanding' \in [Task -> SUBSET Outstanding]
  BY DEF SendRequest, TypeOK, Outstanding

\* Observing a message changes the task and the wire only, within their types.
LEMMA ObserveType ==
    ASSUME TypeOK, NEW w \in Task, Observe(w)
    PROVE  TypeOK'
  <1>1. /\ task' \in [Task -> TaskState]
        /\ outstanding' \in [Task -> SUBSET Outstanding]
        /\ established' \in [Task -> SUBSET Session]
    <2>1. CASE ObserveSessionNew(w)
      <3>1. PICK id \in RequestId :
              /\ Take(w, Request("session/new", id, NoSession))
              /\ SendRequest(w, "client", "session/new", id, NoSession)
              /\ UNCHANGED established
        BY <2>1 DEF ObserveSessionNew
      <3>2. Request("session/new", id, NoSession) \in Message
        BY RequestType DEF RequestKind
      <3>3. QED
        BY <3>1, <3>2, TakeType, SendRequestType
           DEF TypeOK, Party, RequestKind
    <2>2. CASE ObservePrompt(w)
      <3>1. PICK id \in RequestId, s \in established[w] :
              /\ Take(w, Request("session/prompt", id, s))
              /\ SendRequest(w, "client", "session/prompt", id, s)
              /\ UNCHANGED established
        BY <2>2 DEF ObservePrompt
      <3>2. s \in Session
        BY <3>1 DEF TypeOK
      <3>3. Request("session/prompt", id, s) \in Message
        BY <3>2, RequestType DEF RequestKind
      <3>4. QED
        BY <3>1, <3>2, <3>3, TakeType, SendRequestType
           DEF TypeOK, Party, RequestKind
    <2>3. CASE ObserveRequest(w)
      <3>1. PICK id \in RequestId, party \in Party :
              /\ Take(w, Request("request", id, NoSession))
              /\ SendRequest(w, party, "request", id, NoSession)
              /\ UNCHANGED established
        BY <2>3 DEF ObserveRequest
      <3>2. Request("request", id, NoSession) \in Message
        BY RequestType DEF RequestKind
      <3>3. QED
        BY <3>1, <3>2, TakeType, SendRequestType DEF TypeOK, RequestKind
    <2>4. CASE ObserveResponse(w)
      <3>1. PICK r \in outstanding[w], ok \in BOOLEAN :
              /\ outstanding' = [outstanding EXCEPT ![w] = @ \ {r}]
              /\ \/ \E s \in Session :
                      /\ Take(w, Response(r.id, s, TRUE))
                      /\ established' = [established EXCEPT ![w] = @ \cup {s}]
                 \/ /\ Take(w, Response(r.id, NoSession, ok))
                    /\ UNCHANGED established
        BY <2>4 DEF ObserveResponse
      <3>2. r.id \in RequestId
        BY <3>1 DEF TypeOK, Outstanding
      <3>3. \A s \in Session \cup {NoSession}, b \in BOOLEAN :
              Response(r.id, s, b) \in Message
        BY <3>2, IdleTaskType DEF Response, NoMessage, Message, MessageKind,
           RequestKind
      <3>4. task' \in [Task -> TaskState]
        BY <3>1, <3>3, TakeType
      <3>5. established' \in [Task -> SUBSET Session]
        BY <3>1 DEF TypeOK
      <3>6. QED
        BY <3>1, <3>4, <3>5 DEF TypeOK
    <2>5. CASE ObserveUpdate(w)
      <3>1. PICK s \in established[w] :
              Take(w, Request("session/update", NoRequest, s))
        BY <2>5 DEF ObserveUpdate
      <3>2. Request("session/update", NoRequest, s) \in Message
        BY <3>1, RequestType DEF TypeOK
      <3>3. QED
        BY <2>5, <3>1, <3>2, TakeType DEF ObserveUpdate, TypeOK, wire
    <2>6. CASE ObserveOther(w)
      BY <2>6, TakeType, IdleTaskType DEF ObserveOther, TypeOK, wire
    <2>7. QED
      BY <2>1, <2>2, <2>3, <2>4, <2>5, <2>6 DEF Observe
  <1>2. UNCHANGED <<correlation, collections, channel>>
    BY DEF Observe, ObserveSessionNew, ObservePrompt, ObserveRequest,
           ObserveResponse, ObserveUpdate, ObserveOther
  <1>3. QED
    BY <1>1, <1>2 DEF TypeOK, correlation, collections, channel

\* Where a task can go: every step of Apply moves one task to one of these.
LEMMA BecomeType ==
    ASSUME TypeOK, NEW w \in Task, NEW st \in TaskState, Become(w, st)
    PROVE  task' \in [Task -> TaskState]
  BY DEF Become, TypeOK

LEMMA ReturnType ==
    ASSUME TypeOK, NEW w \in Task, Return(w)
    PROVE  task' \in [Task -> TaskState]
  BY IdleTaskType, BecomeType DEF Return

LEMMA AnnounceType ==
    ASSUME TypeOK, NEW w \in Task, NEW change \in Change, Announce(w, change)
    PROVE  task' \in [Task -> TaskState]
  <1>1. [task[w] EXCEPT !.pc = "notify", !.change = change] \in TaskState
    BY DEF TypeOK, TaskState, Section
  <1>2. QED
    BY <1>1, BecomeType DEF Announce

\* Every section of the handlers keeps every variable within its type.
LEMMA ApplyType ==
    ASSUME TypeOK, NEW w \in Task, Apply(w)
    PROVE  TypeOK'
  <1> USE DEF correlation, collections, channel, wire
  <1>0. /\ task[w] \in TaskState /\ Msg(w) \in Message
        /\ connectionId \in Connection \cup {Unknown}
    BY DEF TypeOK, TaskState, Msg
  <1>1. CASE BeginSessionNew(w)
    <2>1. [task[w] EXCEPT !.pc = "update_cwd", !.connection = connectionId]
            \in TaskState
      BY <1>0 DEF TaskState, Section
    <2>2. task' \in [Task -> TaskState]
      BY <1>1, <2>1, BecomeType DEF BeginSessionNew
    <2>3. Msg(w).id \in RequestId
      BY <1>0, <1>1 DEF BeginSessionNew, Applying, Message, RequestKind
    <2>4. QED
      BY <1>1, <2>2, <2>3 DEF BeginSessionNew, TypeOK
  <1>2. CASE UpdateCwd(w)
    <2>1. task' \in [Task -> TaskState]
      BY <1>2, AnnounceType DEF UpdateCwd, Change
    <2>2. \A c \in DOMAIN connections :
            [connections[c] EXCEPT !.cwd = TRUE] \in ConnectionRow
      BY DEF TypeOK, ConnectionRow
    <2>3. /\ DOMAIN connections' \subseteq Connection
          /\ connections' \in [DOMAIN connections' -> ConnectionRow]
      BY <1>2, <2>2 DEF UpdateCwd, TypeOK
    <2>4. QED
      BY <1>2, <2>1, <2>3 DEF UpdateCwd, TypeOK
  <1>3. CASE BeginPrompt(w)
    <2>1. /\ Msg(w).id \in RequestId /\ Msg(w).session \in Session
          /\ turnCounter' \in Turn
      BY <1>0, <1>3 DEF BeginPrompt, Applying, Message, RequestKind, TypeOK, Turn
    <2>2. [task[w] EXCEPT !.pc = "insert_turn", !.turn = turnCounter',
                          !.connection = connectionId] \in TaskState
      BY <1>0, <1>3, <2>1 DEF TaskState, Section, Turn, BeginPrompt, Applying, Msg
    <2>3. task' \in [Task -> TaskState]
      BY <1>3, <2>2, BecomeType DEF BeginPrompt, TrackPrompt
    <2>4. /\ DOMAIN requestTurn' \subseteq RequestId
          /\ requestTurn' \in [DOMAIN requestTurn' -> Turn]
      <3>1. requestTurn' = Put(requestTurn, Msg(w).id, turnCounter')
        BY <1>3 DEF BeginPrompt, TrackPrompt
      <3>2. /\ DOMAIN requestTurn \subseteq RequestId
            /\ requestTurn \in [DOMAIN requestTurn -> Turn]
        BY DEF TypeOK
      <3>3. QED
        BY <2>1, <3>1, <3>2, PutType
    <2>5. /\ DOMAIN activeTurn' \subseteq Session
          /\ activeTurn' \in [DOMAIN activeTurn' -> Turn]
      <3>1. activeTurn' = Put(activeTurn, Msg(w).session, turnCounter')
        BY <1>3 DEF BeginPrompt, TrackPrompt
      <3>2. /\ DOMAIN activeTurn \subseteq Session
            /\ activeTurn \in [DOMAIN activeTurn -> Turn]
        BY DEF TypeOK
      <3>3. QED
        BY <2>1, <3>1, <3>2, PutType
    <2>6. QED
      BY <1>3, <2>1, <2>3, <2>4, <2>5 DEF BeginPrompt, TrackPrompt, TypeOK, Turn
  <1>4. CASE InsertTurn(w)
    <2>1. task' \in [Task -> TaskState]
      BY <1>4, AnnounceType DEF InsertTurn, Change
    <2>2. task[w].turn \in Turn /\ Msg(w).kind = "session/prompt"
      BY <1>0, <1>4 DEF InsertTurn, TaskState, Msg
    <2>3. [state |-> "active", session |-> Msg(w).session,
           request |-> Msg(w).id, connection |-> task[w].connection] \in TurnRow
      BY <1>0, <2>2
         DEF TurnRow, TurnState, TaskState, Message, RequestKind
    <2>4. DOMAIN turns' \subseteq Turn /\ turns' \in [DOMAIN turns' -> TurnRow]
      <3> DEFINE row == [state |-> "active", session |-> Msg(w).session,
                         request |-> Msg(w).id,
                         connection |-> task[w].connection]
      <3>1. turns' = Put(turns, task[w].turn, row)
        BY <1>4 DEF InsertTurn
      <3>2. DOMAIN turns \subseteq Turn /\ turns \in [DOMAIN turns -> TurnRow]
        BY DEF TypeOK
      <3>3. row \in TurnRow
        BY <2>3
      <3> HIDE DEF row
      <3>4. QED
        BY <2>2, <3>1, <3>2, <3>3, PutType
    <2>5. QED
      BY <1>4, <2>1, <2>4 DEF InsertTurn, TypeOK
  <1>5. CASE IgnoreRequest(w)
    BY <1>5, ReturnType DEF IgnoreRequest, TypeOK
  <1>6. CASE EndSessionNew(w)
    <2>1. [task[w] EXCEPT !.pc = "attach", !.connection = connectionId]
            \in TaskState
      BY <1>0 DEF TaskState, Section
    <2>2. task' \in [Task -> TaskState]
      BY <1>6, <2>1, BecomeType, ReturnType DEF EndSessionNew
    <2>3. QED
      BY <1>6, <2>2 DEF EndSessionNew, TypeOK
  <1>7. CASE Attach(w)
    <2>1. task' \in [Task -> TaskState]
      BY <1>7, AnnounceType DEF Attach, Change
    <2>2. Msg(w).session \in Session \cup {NoSession}
      BY <1>0 DEF Message
    <2>3. \A c \in DOMAIN connections :
            [connections[c] EXCEPT !.state = "attached",
                                   !.session = Msg(w).session] \in ConnectionRow
      BY <2>2 DEF TypeOK, ConnectionRow
    <2>4. /\ DOMAIN connections' \subseteq Connection
          /\ connections' \in [DOMAIN connections' -> ConnectionRow]
      BY <1>7, <2>3 DEF Attach, TypeOK
    <2>5. QED
      BY <1>7, <2>1, <2>4 DEF Attach, TypeOK
  <1>8. CASE EndPrompt(w)
    <2> DEFINE t == requestTurn[Msg(w).id]
    <2>1. /\ Forget(w, t, {Msg(w).id}, ActiveAs(t), {t})
          /\ t \in Turn
      BY <1>8 DEF EndPrompt, AnswersPrompt, TypeOK
    <2>2. [task[w] EXCEPT !.pc = "finish_turn", !.turn = t] \in TaskState
      BY <1>0, <2>1 DEF TaskState, Section, Turn
    <2> HIDE DEF t
    <2>3. task' \in [Task -> TaskState]
      BY <2>1, <2>2, BecomeType DEF Forget
    <2>4. /\ DOMAIN requestTurn' \subseteq RequestId
          /\ requestTurn' \in [DOMAIN requestTurn' -> Turn]
      BY <2>1, WithoutType DEF Forget, TypeOK
    <2>5. DOMAIN chunkSeq' \subseteq Turn /\ chunkSeq' \in [DOMAIN chunkSeq' -> Nat]
      BY <2>1, WithoutType DEF Forget, TypeOK
    <2>6. /\ DOMAIN activeTurn' \subseteq Session
          /\ activeTurn' \in [DOMAIN activeTurn' -> Turn]
      BY <2>1, WithoutType DEF Forget, TypeOK
    <2>7. QED
      BY <2>1, <2>3, <2>4, <2>5, <2>6 DEF Forget, TypeOK
  <1>9. CASE FinishTurn(w)
    <2>1. task' \in [Task -> TaskState]
      BY <1>9, AnnounceType DEF FinishTurn, Change
    <2>2. QED
      BY <1>9, <2>1 DEF FinishTurn, TypeOK, TurnRow, TurnState, Terminal
  <1>10. CASE IgnoreResponse(w)
    BY <1>10, ReturnType DEF IgnoreResponse, TypeOK
  <1>11. CASE FindTurn(w)
    <2>1. ASSUME Msg(w).session \in DOMAIN activeTurn
          PROVE  [task[w] EXCEPT !.pc = "number_chunk",
                                 !.turn = activeTurn[Msg(w).session]]
                   \in TaskState
      BY <1>0, <2>1 DEF TaskState, Section, TypeOK, Turn
    <2>2. task' \in [Task -> TaskState]
      BY <1>11, <2>1, BecomeType, ReturnType DEF FindTurn
    <2>3. QED
      BY <1>11, <2>2 DEF FindTurn, TypeOK
  <1>12. CASE NumberChunk(w)
    <2> DEFINE t == task[w].turn
               n == IF t \in DOMAIN chunkSeq THEN chunkSeq[t] ELSE 0
    <2>1. t \in Turn /\ n \in Nat
      BY <1>0, <1>12 DEF NumberChunk, TaskState, TypeOK
    <2>2. [task[w] EXCEPT !.pc = "insert_chunk", !.seq = n] \in TaskState
      BY <1>0, <2>1 DEF TaskState, Section
    <2>3. task' \in [Task -> TaskState]
      BY <1>12, <2>2, BecomeType DEF NumberChunk
    <2>4. DOMAIN chunkSeq' \subseteq Turn /\ chunkSeq' \in [DOMAIN chunkSeq' -> Nat]
      <3>1. chunkSeq' = Put(chunkSeq, t, n + 1) /\ n + 1 \in Nat
        BY <1>12, <2>1 DEF NumberChunk
      <3>2. DOMAIN chunkSeq \subseteq Turn /\ chunkSeq \in [DOMAIN chunkSeq -> Nat]
        BY DEF TypeOK
      <3> HIDE DEF t, n
      <3>3. QED
        BY <2>1, <3>1, <3>2, PutType
    <2>5. QED
      BY <1>12, <2>3, <2>4 DEF NumberChunk, TypeOK
  <1>13. CASE InsertChunk(w)
    <2>1. task' \in [Task -> TaskState]
      BY <1>13, AnnounceType DEF InsertChunk, Change
    <2>2. [turn |-> task[w].turn, seq |-> task[w].seq] \in ChunkRow
      BY <1>0, <1>13 DEF InsertChunk, TaskState, ChunkRow
    <2>3. QED
      BY <1>13, <2>1, <2>2 DEF InsertChunk, TypeOK
  <1>14. CASE IgnoreNotification(w)
    BY <1>14, ReturnType DEF IgnoreNotification, TypeOK
  <1>15. CASE Notify(w)
    <2>1. task' \in [Task -> TaskState]
      BY <1>15, ReturnType DEF Notify
    <2>2. feed' \in Seq(Change) /\ Len(feed') <= FeedCapacity
      <3>1. task[w].change \in Change
        BY <1>0 DEF TaskState
      <3> DEFINE c == task[w].change
      <3>2. CASE feed' = Append(feed, c) /\ Len(feed) < FeedCapacity
        <4>1. feed \in Seq(Change) /\ c \in Change
          BY <3>1 DEF TypeOK
        <4>2. Append(feed, c) \in Seq(Change) /\ Len(Append(feed, c)) = Len(feed) + 1
          BY <4>1
        <4>3. QED
          BY <3>2, <4>1, <4>2, StreamDbAssumption
      <3>3. CASE feed' = Append(Tail(feed), c) /\ ~(Len(feed) < FeedCapacity)
        <4>1. feed \in Seq(Change) /\ Len(feed) = FeedCapacity /\ feed # <<>>
          BY <3>3, StreamDbAssumption DEF TypeOK
        <4>2. Tail(feed) \in Seq(Change) /\ Len(Tail(feed)) = Len(feed) - 1
          BY <4>1
        <4>3. /\ Append(Tail(feed), c) \in Seq(Change)
              /\ Len(Append(Tail(feed), c)) = Len(feed)
          BY <3>1, <4>1, <4>2
        <4>4. QED
          BY <3>3, <4>1, <4>3
      <3>4. QED
        BY <1>15, <3>2, <3>3 DEF Notify, TypeOK
    <2>3. subscribed' \in BOOLEAN /\ lagged' \in BOOLEAN
      BY <1>15 DEF Notify, TypeOK
    <2>4. QED
      BY <1>15, <2>1, <2>2, <2>3 DEF Notify, TypeOK
  <1>16. QED
    BY <1>1, <1>2, <1>3, <1>4, <1>5, <1>6, <1>7, <1>8, <1>9, <1>10, <1>11,
       <1>12, <1>13, <1>14, <1>15 DEF Apply

\* The sections of the read model that only the log's messages reach.
LEMMA EnvelopeApplyType ==
    ASSUME TypeOK, NEW w \in Task, IgnoreLegacy(w) \/ ApplyConnection(w)
    PROVE  TypeOK'
  <1> USE DEF correlation, collections, channel, wire
  <1>1. CASE IgnoreLegacy(w)
    BY <1>1, ReturnType DEF IgnoreLegacy, TypeOK
  <1>2. CASE ApplyConnection(w)
    <2>1. task' \in [Task -> TaskState]
      BY <1>2, AnnounceType DEF ApplyConnection, Change
    <2> DEFINE c == Msg(w).connection
               row == [state |-> "created", cwd |-> FALSE,
                       session |-> NoSession]
    <2>2. connections' = Put(connections, c, row)
      BY <1>2 DEF ApplyConnection
    <2>3. c \in Connection
      BY <1>2 DEF ApplyConnection, Applying, Msg, TypeOK, TaskState, Message
    <2>4. row \in ConnectionRow
      BY DEF ConnectionRow
    <2>5. /\ DOMAIN connections \subseteq Connection
          /\ connections \in [DOMAIN connections -> ConnectionRow]
      BY DEF TypeOK
    <2> HIDE DEF c, row
    <2>6. /\ DOMAIN connections' \subseteq Connection
          /\ connections' \in [DOMAIN connections' -> ConnectionRow]
      BY <2>2, <2>3, <2>4, <2>5, PutType
    <2>7. QED
      BY <1>2, <2>1, <2>6 DEF ApplyConnection, TypeOK
  <1>3. QED
    BY <1>1, <1>2

LEMMA InitType == Init => TypeOK
  <1> SUFFICES ASSUME Init
               PROVE  TypeOK
    OBVIOUS
  <1>1. /\ DOMAIN connections \subseteq Connection
        /\ connections \in [DOMAIN connections -> ConnectionRow]
    BY DEF Init, ConnectionRow
  <1>2. /\ chunks \in Seq(ChunkRow)
        /\ feed \in Seq(Change) /\ Len(feed) <= FeedCapacity
    BY StreamDbAssumption DEF Init
  <1>3. task \in [Task -> TaskState]
    BY IdleTaskType DEF Init
  <1>4. QED
    BY <1>1, <1>2, <1>3 DEF Init, TypeOK, EmptyMap

LEMMA NextType == TypeOK /\ [Next]_vars => TypeOK'
  <1>1. ASSUME TypeOK, NEW w \in Task, Deliver(w)
        PROVE  TypeOK'
    <2>1. [task[w] EXCEPT !.pc = "apply"] \in TaskState
      BY <1>1 DEF TypeOK, TaskState, Section
    <2>2. task' \in [Task -> TaskState]
      BY <1>1, <2>1 DEF Deliver, TypeOK
    <2>3. QED
      BY <1>1, <2>2
         DEF Deliver, TypeOK, correlation, collections, channel, wire
  <1>2. TypeOK /\ UNCHANGED vars => TypeOK'
    BY DEF TypeOK, vars, correlation, collections, channel, wire
  <1>3. QED
    BY <1>1, <1>2, ObserveType, ApplyType DEF Next

(* Whatever messages the tracers observe and however their tasks           *)
(* interleave, every variable keeps its type.                              *)
THEOREM TypeCorrect == Spec => []TypeOK
  BY InitType, NextType, PTL DEF Spec

-----------------------------------------------------------------------------
(* Outcomes are final.                                                     *)

\* The sections that write neither the turns nor what leads to them.
LEMMA OutcomeFrame ==
    ASSUME OutcomeInv, NEW w \in Task,
           UNCHANGED <<requestTurn, turns, turnCounter>>,
           \A v \in Task \ {w} : task'[v] = task[v],
           task'[w].pc \notin {"insert_turn", "finish_turn"}
    PROVE  OutcomeInv'
  <1>1. \A v \in Task, pc \in {"insert_turn", "finish_turn"} :
          task'[v].pc = pc => v # w /\ task'[v] = task[v]
    OBVIOUS
  <1>2. QED
    BY <1>1 DEF OutcomeInv, CorrelationOwnsTurns, InsertersOwnTurns,
                FinishersOwnTurns

\* What every action does to the tasks.
LEMMA TaskFrame ==
    ASSUME TypeOK, NEW w \in Task, Observe(w) \/ Deliver(w) \/ Apply(w)
    PROVE  \A v \in Task \ {w} : task'[v] = task[v]
  BY DEF TypeOK, Observe, ObserveSessionNew, ObservePrompt, ObserveRequest,
         ObserveResponse, ObserveUpdate, ObserveOther, Take, Deliver, Apply,
         BeginSessionNew, UpdateCwd, BeginPrompt, TrackPrompt, InsertTurn,
         IgnoreRequest, EndSessionNew, Attach, EndPrompt, Forget, FinishTurn, IgnoreResponse,
         FindTurn, NumberChunk, InsertChunk, IgnoreNotification, Notify,
         Become, Return, Announce

\* Which section a task enters next.
LEMMA StepGoes ==
    ASSUME TypeOK, NEW w \in Task
    PROVE  /\ \A m : Take(w, m) => task'[w].pc = "append"
           /\ Return(w) => task'[w].pc = "idle"
           /\ \A change : Announce(w, change) => task'[w].pc = "notify"
           /\ \A pc, c : Become(w, [task[w] EXCEPT !.pc = pc, !.connection = c])
                          => task'[w].pc = pc
           /\ \A pc, n : Become(w, [task[w] EXCEPT !.pc = pc, !.turn = n])
                          => task'[w].pc = pc
           /\ \A pc, n : Become(w, [task[w] EXCEPT !.pc = pc, !.seq = n])
                          => task'[w].pc = pc
  <1>1. task \in [Task -> TaskState] /\ task[w] \in TaskState
    BY DEF TypeOK
  <1>2. \A st : Become(w, st) => task'[w] = st
    BY <1>1 DEF Become
  <1>3. \A m : Take(w, m) => task'[w].pc = "append"
    BY <1>1 DEF Take, IdleTask
  <1>4. Return(w) => task'[w].pc = "idle"
    BY <1>2 DEF Return, IdleTask
  <1>5. QED
    BY <1>1, <1>2, <1>3, <1>4 DEF Announce, TaskState

LEMMA OutcomeApply ==
    ASSUME TypeOK, OutcomeInv, NEW w \in Task, Apply(w)
    PROVE  OutcomeInv'
  <1> USE DEF correlation, collections, channel, wire
  <1>1. \A v \in Task \ {w} : task'[v] = task[v]
    BY TaskFrame
  <1>2. task[w] \in TaskState /\ task \in [Task -> TaskState] /\ turnCounter \in Nat
    BY DEF TypeOK
  <1>3. CASE BeginPrompt(w)
    <2> DEFINE t == turnCounter + 1
               i == Msg(w).id
    <2>1. /\ turnCounter' = t /\ turns' = turns
          /\ requestTurn' = Put(requestTurn, i, t)
          /\ task'[w].pc = "insert_turn" /\ task'[w].turn = t
      BY <1>2, <1>3 DEF BeginPrompt, TrackPrompt, Become, TaskState
    <2>2. \A n \in Nat : n <= turnCounter => n <= t /\ n # t
      BY <1>2
    <2>3. /\ \A j \in DOMAIN requestTurn : requestTurn[j] \in Nat
          /\ \A u \in DOMAIN turns : u \in Nat
          /\ \A v \in Task : task[v].turn \in Nat
          /\ t \in Nat
      BY <1>2 DEF TypeOK, Turn, TaskState
    <2>4. /\ DOMAIN requestTurn' = DOMAIN requestTurn \cup {i}
          /\ \A j \in DOMAIN requestTurn' :
               requestTurn'[j] = IF j = i THEN t ELSE requestTurn[j]
      BY <2>1 DEF Put
    <2> HIDE DEF t, i
    <2>5. t \notin DOMAIN turns
      BY <2>2, <2>3 DEF OutcomeInv, CorrelationOwnsTurns
    <2>6. CorrelationOwnsTurns'
      BY <2>1, <2>2, <2>3, <2>4, <2>5 DEF OutcomeInv, CorrelationOwnsTurns
    <2>7. InsertersOwnTurns'
      BY <1>1, <2>1, <2>2, <2>3, <2>5 DEF OutcomeInv, InsertersOwnTurns
    <2>8. FinishersOwnTurns'
      BY <1>1, <2>1, <2>2, <2>3, <2>4, <2>5 DEF OutcomeInv, FinishersOwnTurns
    <2>9. QED
      BY <2>6, <2>7, <2>8 DEF OutcomeInv
  <1>4. CASE InsertTurn(w)
    <2> DEFINE t == task[w].turn
    <2>1. /\ UNCHANGED <<requestTurn, turnCounter>>
          /\ DOMAIN turns' = DOMAIN turns \cup {t}
          /\ \A u \in DOMAIN turns' : u # t => turns'[u] = turns[u]
          /\ turns'[t].state = "active"
          /\ task'[w].pc = "notify" /\ task[w].pc = "insert_turn"
      BY <1>2, <1>4 DEF InsertTurn, Put, Announce, Become, TaskState
    <2>2. t <= turnCounter /\ t \notin DOMAIN turns
      BY <2>1 DEF OutcomeInv, InsertersOwnTurns
    <2> HIDE DEF t
    <2>3. CorrelationOwnsTurns'
      BY <2>1, <2>2 DEF OutcomeInv, CorrelationOwnsTurns
    <2>4. InsertersOwnTurns'
      BY <1>1, <2>1 DEF OutcomeInv, InsertersOwnTurns, t
    <2>5. FinishersOwnTurns'
      BY <1>1, <2>1, <2>2 DEF OutcomeInv, FinishersOwnTurns
    <2>6. QED
      BY <2>3, <2>4, <2>5 DEF OutcomeInv
  <1>5. CASE EndPrompt(w)
    <2> DEFINE i == Msg(w).id
               t == requestTurn[i]
    <2>1. /\ UNCHANGED <<turns, turnCounter>>
          /\ i \in DOMAIN requestTurn
          /\ DOMAIN requestTurn' = DOMAIN requestTurn \ {i}
          /\ \A j \in DOMAIN requestTurn' : requestTurn'[j] = requestTurn[j]
          /\ task'[w].pc = "finish_turn" /\ task'[w].turn = t
      BY <1>2, <1>5 DEF EndPrompt, AnswersPrompt, Forget, Without, Become,
                        TaskState
    <2> HIDE DEF i
    <2>2. CorrelationOwnsTurns'
      BY <2>1 DEF OutcomeInv, CorrelationOwnsTurns
    <2>3. InsertersOwnTurns'
      BY <1>1, <2>1 DEF OutcomeInv, InsertersOwnTurns
    <2>4. FinishersOwnTurns'
      BY <1>1, <2>1 DEF OutcomeInv, FinishersOwnTurns, CorrelationOwnsTurns
    <2>5. QED
      BY <2>2, <2>3, <2>4 DEF OutcomeInv
  <1>6. CASE FinishTurn(w)
    <2> DEFINE t == task[w].turn
    <2>1. /\ UNCHANGED <<requestTurn, turnCounter>>
          /\ DOMAIN turns' = DOMAIN turns
          /\ \A u \in DOMAIN turns : u # t => turns'[u] = turns[u]
          /\ task'[w].pc = "notify" /\ task[w].pc = "finish_turn"
      BY <1>2, <1>6 DEF FinishTurn, Announce, Become, TaskState
    <2>2. \A j \in DOMAIN requestTurn : requestTurn[j] # t
      BY <2>1 DEF OutcomeInv, FinishersOwnTurns
    <2>3. CorrelationOwnsTurns'
      BY <2>1, <2>2 DEF OutcomeInv, CorrelationOwnsTurns
    <2>4. InsertersOwnTurns'
      BY <1>1, <2>1 DEF OutcomeInv, InsertersOwnTurns
    <2>5. FinishersOwnTurns'
      BY <1>1, <2>1 DEF OutcomeInv, FinishersOwnTurns
    <2>6. QED
      BY <2>3, <2>4, <2>5 DEF OutcomeInv
  <1>7. ASSUME \/ BeginSessionNew(w) \/ UpdateCwd(w) \/ IgnoreRequest(w)
               \/ EndSessionNew(w) \/ Attach(w) \/ IgnoreResponse(w)
               \/ FindTurn(w) \/ NumberChunk(w) \/ InsertChunk(w)
               \/ IgnoreNotification(w) \/ Notify(w)
        PROVE  OutcomeInv'
    <2>1. UNCHANGED <<requestTurn, turns, turnCounter>>
      BY <1>7 DEF BeginSessionNew, UpdateCwd, IgnoreRequest, EndSessionNew,
           Attach, IgnoreResponse, FindTurn, NumberChunk, InsertChunk,
           IgnoreNotification, Notify
    <2>2. task'[w].pc \notin {"insert_turn", "finish_turn"}
      BY <1>2, <1>7, StepGoes DEF BeginSessionNew, UpdateCwd, IgnoreRequest,
           EndSessionNew, Attach, IgnoreResponse, FindTurn, NumberChunk,
           InsertChunk, IgnoreNotification, Notify, Change
    <2>3. QED
      BY <1>1, <2>1, <2>2, OutcomeFrame
  <1>8. QED
    BY <1>3, <1>4, <1>5, <1>6, <1>7 DEF Apply

LEMMA OutcomeObserve ==
    ASSUME TypeOK, OutcomeInv, NEW w \in Task, Observe(w) \/ Deliver(w)
    PROVE  OutcomeInv'
  <1>1. UNCHANGED <<requestTurn, turns, turnCounter>>
    BY DEF Observe, ObserveSessionNew, ObservePrompt, ObserveRequest,
           ObserveResponse, ObserveUpdate, ObserveOther, Deliver, correlation,
           collections
  <1>2. CASE Observe(w)
    <2>1. \E m : Take(w, m)
      BY <1>2 DEF Observe, ObserveSessionNew, ObservePrompt, ObserveRequest,
           ObserveResponse, ObserveUpdate, ObserveOther
    <2>2. task'[w].pc = "append"
      BY <2>1, StepGoes
    <2>3. QED
      BY <1>1, <2>2, TaskFrame, OutcomeFrame
  <1>3. CASE Deliver(w)
    <2>1. task'[w].pc = "apply"
      BY <1>3 DEF Deliver, TypeOK, TaskState
    <2>2. QED
      BY <1>1, <2>1, TaskFrame, OutcomeFrame
  <1>4. QED
    BY <1>2, <1>3

LEMMA InitOutcome == Init => OutcomeInv
  BY DEF Init, OutcomeInv, CorrelationOwnsTurns, InsertersOwnTurns,
         FinishersOwnTurns, EmptyMap, IdleTask

LEMMA NextOutcome == TypeOK /\ OutcomeInv /\ [Next]_vars => OutcomeInv'
  <1>1. OutcomeInv /\ UNCHANGED vars => OutcomeInv'
    BY DEF vars, correlation, collections, OutcomeInv, CorrelationOwnsTurns,
           InsertersOwnTurns, FinishersOwnTurns
  <1>2. QED
    BY <1>1, OutcomeApply, OutcomeObserve DEF Next

(* The ownership of turns is an invariant, whatever ids the parties of the *)
(* observed conversations choose and however many tasks there are.         *)
THEOREM OutcomesOwned == Spec => []OutcomeInv
  BY InitOutcome, NextOutcome, TypeCorrect, PTL DEF Spec

\* Only two sections write the turns.
LEMMA TurnWriters ==
    ASSUME NEW w \in Task, Observe(w) \/ Deliver(w) \/ Apply(w),
           turns' # turns
    PROVE  InsertTurn(w) \/ FinishTurn(w)
  BY DEF Observe, ObserveSessionNew, ObservePrompt,
     ObserveRequest, ObserveResponse, ObserveUpdate, ObserveOther, Deliver,
     Apply, BeginSessionNew, UpdateCwd, BeginPrompt, TrackPrompt,
     IgnoreRequest, EndSessionNew, Attach, EndPrompt, Forget,
     IgnoreResponse, FindTurn, NumberChunk, InsertChunk,
     IgnoreNotification, Notify, collections

\* A step of a task keeps the rows of the turns that have ended.
LEMMA StepKeepsOutcomes ==
    ASSUME TypeOK, OutcomeInv, NEW w \in Task,
           Observe(w) \/ Deliver(w) \/ Apply(w),
           NEW t \in DOMAIN turns, turns[t].state \in Terminal
    PROVE  t \in DOMAIN turns' /\ turns'[t] = turns[t]
  <1>1. CASE InsertTurn(w)
    <2>1. /\ \A u \in DOMAIN turns : u # task[w].turn =>
               u \in DOMAIN turns' /\ turns'[u] = turns[u]
          /\ task[w].pc = "insert_turn"
      BY <1>1 DEF InsertTurn, Put
    <2>2. task[w].turn \notin DOMAIN turns
      BY <2>1 DEF OutcomeInv, InsertersOwnTurns
    <2>3. QED
      BY <2>1, <2>2
  <1>2. CASE FinishTurn(w)
    <2>1. /\ \A u \in DOMAIN turns : u # task[w].turn =>
               u \in DOMAIN turns' /\ turns'[u] = turns[u]
          /\ task[w].pc = "finish_turn"
      BY <1>2 DEF FinishTurn
    <2>2. task[w].turn \in DOMAIN turns => turns[task[w].turn].state = "active"
      BY <2>1 DEF OutcomeInv, FinishersOwnTurns
    <2>3. QED
      BY <2>1, <2>2 DEF Terminal
  <1>3. QED
    BY <1>1, <1>2, TurnWriters

(* A turn that has ended keeps its row: outcomes shown to API clients,     *)
(* subscribers and webhooks are never taken back, even when the request    *)
(* ids of several conversations collide.                                   *)
THEOREM OutcomesFinal == Spec => TerminalIsFinal
  <1> DEFINE Kept == \A t \in DOMAIN turns : turns[t].state \in Terminal =>
                         t \in DOMAIN turns' /\ turns'[t] = turns[t]
  <1>1. TypeOK /\ OutcomeInv /\ [Next]_vars => [Kept]_vars
    BY StepKeepsOutcomes DEF Next
  <1>2. QED
    BY <1>1, TypeCorrect, OutcomesOwned, PTL DEF Spec, TerminalIsFinal

(* The read model implements TurnLedger: every step of a task opens one    *)
(* turn, closes one, or leaves the ledger as it is.                        *)
THEOREM LedgerImplemented == Spec => ImplementsLedger
  <1> DEFINE ledger == [t \in DOMAIN turns |-> turns[t].state]
  <1>1. Init => Ledger!LedgerInit
    BY DEF Init, EmptyMap, Ledger!LedgerInit
  <1>2. TypeOK /\ OutcomeInv /\ [Next]_vars
          => [Ledger!LedgerNext]_ledger
    <2> SUFFICES ASSUME TypeOK, OutcomeInv, [Next]_vars, ledger' # ledger
                 PROVE  Ledger!LedgerNext
      OBVIOUS
    <2>1. turns' # turns
      OBVIOUS
    <2>2. PICK w \in Task : InsertTurn(w) \/ FinishTurn(w)
      BY <2>1, TurnWriters DEF Next, vars, collections
    <2> DEFINE t == task[w].turn
    <2>3. CASE InsertTurn(w)
      <3>1. t \notin DOMAIN turns
        BY <2>3 DEF InsertTurn, OutcomeInv, InsertersOwnTurns
      <3>2. /\ DOMAIN turns' = DOMAIN turns \cup {t}
            /\ turns'[t].state = "active"
            /\ \A u \in DOMAIN turns : u # t => turns'[u] = turns[u]
        BY <2>3 DEF InsertTurn, Put
      <3> HIDE DEF t
      <3>3. Ledger!Open(t) /\ t \in DOMAIN ledger'
        BY <3>1, <3>2 DEF Ledger!Open
      <3>4. QED
        BY <3>3 DEF Ledger!LedgerNext, Ledger!Open
    <2>4. CASE FinishTurn(w)
      <3> DEFINE outcome == IF Msg(w).ok THEN "completed" ELSE "broken"
      <3>1. /\ DOMAIN turns' = DOMAIN turns
            /\ \A u \in DOMAIN turns : u # t => turns'[u] = turns[u]
            /\ task[w].pc = "finish_turn"
        BY <2>4 DEF FinishTurn
      <3>2. t \in DOMAIN turns
        BY <2>1, <2>4 DEF FinishTurn, TypeOK
      <3>3. turns[t].state = "active"
        BY <3>1, <3>2 DEF OutcomeInv, FinishersOwnTurns
      <3>4. turns'[t].state = outcome
        BY <2>4, <3>2 DEF FinishTurn, TypeOK, TurnRow
      <3>5. outcome \in {"completed", "broken"}
        OBVIOUS
      <3> HIDE DEF t, outcome
      <3>6. Ledger!Close(t, outcome) /\ t \in DOMAIN ledger'
        BY <3>1, <3>2, <3>3, <3>4 DEF Ledger!Close
      <3>7. QED
        BY <3>5, <3>6 DEF Ledger!LedgerNext, Ledger!Close
    <2>5. QED
      BY <2>2, <2>3, <2>4
  <1>3. QED
    BY <1>1, <1>2, TypeCorrect, OutcomesOwned, PTL
       DEF Spec, ImplementsLedger, Ledger!LedgerSpec
-----------------------------------------------------------------------------
(* What a message determines.  The part of the read model that a replay is   *)
(* to rebuild is one value, and a message has an effect on it that does    *)
(* not depend on the sections it is applied in.                            *)

ModelOf(rt, pn, at, cs, tc, rows, ch) ==
    [requestTurn |-> rt, pendingNew |-> pn, activeTurn |-> at,
     chunkSeq |-> cs, turnCounter |-> tc, turns |-> rows, chunks |-> ch]

Model == ModelOf(requestTurn, pendingNew, activeTurn, chunkSeq, turnCounter,
                 UnscopedTurns, chunks)
Blank == ModelOf(EmptyMap, {}, EmptyMap, EmptyMap, 0, EmptyMap, <<>>)

Opened(rows, t, m) == Put(rows, t, [state |-> "active", session |-> m.session,
                                    request |-> m.id])
Closed(rows, t, ok) ==
    [u \in DOMAIN rows |->
       IF u = t THEN [rows[u] EXCEPT !.state =
                        IF ok THEN "completed" ELSE "broken"]
                ELSE rows[u]]
Number(cs, t) == IF t \in DOMAIN cs THEN cs[t] ELSE 0
Chunk(t, n)   == [turn |-> t, seq |-> n]

PromptEffect(m, M) ==
    LET t == M.turnCounter + 1 IN
    ModelOf(Put(M.requestTurn, m.id, t), M.pendingNew,
            Put(M.activeTurn, m.session, t), M.chunkSeq, t,
            Opened(M.turns, t, m), M.chunks)

EndEffect(m, M) ==
    LET t == M.requestTurn[m.id] IN
    ModelOf(Without(M.requestTurn, {m.id}), M.pendingNew,
            Without(M.activeTurn,
                    {s \in DOMAIN M.activeTurn : M.activeTurn[s] = t}),
            Without(M.chunkSeq, {t}), M.turnCounter,
            Closed(M.turns, t, m.ok), M.chunks)

UpdateEffect(t, M) ==
    ModelOf(M.requestTurn, M.pendingNew, M.activeTurn,
            Put(M.chunkSeq, t, Number(M.chunkSeq, t) + 1), M.turnCounter,
            M.turns, Append(M.chunks, Chunk(t, Number(M.chunkSeq, t))))

PendingEffect(pn, M) ==
    ModelOf(M.requestTurn, pn, M.activeTurn, M.chunkSeq, M.turnCounter,
            M.turns, M.chunks)

Effect(m, M) ==
    IF m.kind = "session/new" THEN PendingEffect(M.pendingNew \cup {m.id}, M)
    ELSE IF m.kind = "session/prompt" THEN PromptEffect(m, M)
    ELSE IF m.kind = "response" /\ m.id \in M.pendingNew
      THEN PendingEffect(M.pendingNew \ {m.id}, M)
    ELSE IF m.kind = "response" /\ m.id \in DOMAIN M.requestTurn
      THEN EndEffect(m, M)
    ELSE IF m.kind = "session/update" /\ m.session \in DOMAIN M.activeTurn
      THEN UpdateEffect(M.activeTurn[m.session], M)
    ELSE M

TurnsEffect(rows, M) ==
    ModelOf(M.requestTurn, M.pendingNew, M.activeTurn, M.chunkSeq,
            M.turnCounter, rows, M.chunks)

\* What the model will be when task w has finished the message it applies.
Rest(w) ==
    IF task[w].pc = "apply" THEN Effect(Msg(w), Model)
    ELSE IF task[w].pc = "insert_turn"
      THEN TurnsEffect(Opened(UnscopedTurns, task[w].turn, Msg(w)), Model)
    ELSE IF task[w].pc = "finish_turn"
      THEN TurnsEffect(Closed(UnscopedTurns, task[w].turn, Msg(w).ok), Model)
    ELSE IF task[w].pc = "number_chunk" THEN UpdateEffect(task[w].turn, Model)
    ELSE IF task[w].pc = "insert_chunk"
      THEN ModelOf(requestTurn, pendingNew, activeTurn, chunkSeq, turnCounter,
                   UnscopedTurns,
                   Append(chunks, Chunk(task[w].turn, task[w].seq)))
    ELSE Model

\* The sections in which nothing of the effect is left to do.
Spent == {"idle", "append", "update_cwd", "attach", "notify"}

LEMMA RestSpent ==
    ASSUME NEW w \in Task, task[w].pc \in Spent PROVE Rest(w) = Model
  BY DEF Rest, Spent

LEMMA ModelFields ==
    /\ Model.requestTurn = requestTurn /\ Model.pendingNew = pendingNew
    /\ Model.activeTurn = activeTurn /\ Model.chunkSeq = chunkSeq
    /\ Model.turnCounter = turnCounter /\ Model.turns = UnscopedTurns
    /\ Model.chunks = chunks
  BY DEF Model, ModelOf

\* Every section of a handler leaves the outcome of the handler as it is:
\* what one section has done, the next ones no longer do.
LEMMA RestStep ==
    ASSUME TypeOK, NEW w \in Task,
           Apply(w) \/ IgnoreLegacy(w) \/ ApplyConnection(w)
    PROVE  Rest(w)' = Rest(w)
  <1> USE DEF correlation, collections
  <1>0. /\ task \in [Task -> TaskState] /\ task[w] \in TaskState
        /\ \A st : Become(w, st) => task'[w] = st
    BY DEF TypeOK, Become
  <1>1. CASE BeginSessionNew(w)
    <2>1. task'[w].pc = "update_cwd"
      BY <1>0, <1>1 DEF BeginSessionNew, TaskState
    <2>2. Rest(w) = PendingEffect(pendingNew \cup {Msg(w).id}, Model)
      BY <1>1, ModelFields DEF BeginSessionNew, Applying, Rest, Effect
    <2>3. Rest(w)' = Model'
      BY <2>1 DEF Rest
    <2>4. QED
      BY <1>1, <2>2, <2>3 DEF BeginSessionNew, PendingEffect, Model, ModelOf,
                              UnscopedTurns
  <1>2. CASE BeginPrompt(w)
    <2>1. /\ task'[w].pc = "insert_turn" /\ task'[w].turn = turnCounter + 1
          /\ Msg(w)' = Msg(w)
      BY <1>0, <1>2 DEF BeginPrompt, TrackPrompt, TaskState, Msg
    <2>2. Rest(w) = PromptEffect(Msg(w), Model)
      BY <1>2 DEF BeginPrompt, Applying, Rest, Effect
    <2>3. Rest(w)' = TurnsEffect(Opened(UnscopedTurns', turnCounter + 1,
                                        Msg(w)), Model')
      BY <2>1 DEF Rest
    <2>4. UnscopedTurns' = UnscopedTurns
      BY <1>2 DEF BeginPrompt, TrackPrompt, UnscopedTurns
    <2>5. QED
      BY <1>2, <2>2, <2>3, <2>4
         DEF BeginPrompt, TrackPrompt, PromptEffect, TurnsEffect, Model, ModelOf
  <1>3. CASE InsertTurn(w)
    <2>1. task'[w].pc = "notify"
      BY <1>0, <1>3 DEF InsertTurn, Announce, TaskState
    <2>2. Rest(w) = TurnsEffect(Opened(UnscopedTurns, task[w].turn, Msg(w)),
                                Model)
      BY <1>3 DEF InsertTurn, Rest
    <2>3. UnscopedTurns' = Opened(UnscopedTurns, task[w].turn, Msg(w))
      BY <1>3 DEF InsertTurn, UnscopedTurns, Opened, Put, Unscoped
    <2>4. Rest(w)' = Model'
      BY <2>1 DEF Rest
    <2>5. QED
      BY <1>3, <2>2, <2>3, <2>4 DEF InsertTurn, TurnsEffect, Model, ModelOf
  <1>4. CASE EndSessionNew(w)
    <2>0. \/ Return(w)
          \/ Become(w, [task[w] EXCEPT !.pc = "attach",
                                       !.connection = connectionId])
      BY <1>4 DEF EndSessionNew
    <2>1. task'[w].pc \in Spent
      BY <2>0, StepGoes DEF Spent
    <2>2. Rest(w) = PendingEffect(pendingNew \ {Msg(w).id}, Model)
      BY <1>4, ModelFields DEF EndSessionNew, Applying, Rest, Effect
    <2>3. Rest(w)' = Model'
      BY <2>1 DEF Rest, Spent
    <2>4. QED
      BY <1>4, <2>2, <2>3 DEF EndSessionNew, PendingEffect, Model, ModelOf,
                              UnscopedTurns
  <1>5. CASE EndPrompt(w)
    <2> DEFINE t == requestTurn[Msg(w).id]
    <2>1. /\ task'[w].pc = "finish_turn" /\ task'[w].turn = t
          /\ Msg(w)' = Msg(w)
      BY <1>0, <1>5 DEF EndPrompt, Forget, TaskState, Msg
    <2>2. Rest(w) = EndEffect(Msg(w), Model)
      BY <1>5, ModelFields DEF EndPrompt, AnswersPrompt, Applying, Rest, Effect
    <2>3. Rest(w)' = TurnsEffect(Closed(UnscopedTurns', t, Msg(w).ok), Model')
      BY <2>1 DEF Rest
    <2>4. UnscopedTurns' = UnscopedTurns
      BY <1>5 DEF EndPrompt, Forget, UnscopedTurns
    <2>5. QED
      BY <1>5, <2>2, <2>3, <2>4
         DEF EndPrompt, Forget, ActiveAs, EndEffect, TurnsEffect, Model, ModelOf
  <1>6. CASE FinishTurn(w)
    <2>1. task'[w].pc = "notify"
      BY <1>0, <1>6 DEF FinishTurn, Announce, TaskState
    <2>2. Rest(w) = TurnsEffect(Closed(UnscopedTurns, task[w].turn, Msg(w).ok),
                                Model)
      BY <1>6 DEF FinishTurn, Rest
    <2>3. UnscopedTurns' = Closed(UnscopedTurns, task[w].turn, Msg(w).ok)
      BY <1>6 DEF FinishTurn, UnscopedTurns, Closed, Unscoped, TypeOK, TurnRow
    <2>4. Rest(w)' = Model'
      BY <2>1 DEF Rest
    <2>5. QED
      BY <1>6, <2>2, <2>3, <2>4 DEF FinishTurn, TurnsEffect, Model, ModelOf
  <1>7. CASE FindTurn(w)
    <2>0. Model' = Model
      BY <1>7 DEF FindTurn, Model, UnscopedTurns
    <2>1. CASE Msg(w).session \in DOMAIN activeTurn
      <3>1. /\ task'[w].pc = "number_chunk"
            /\ task'[w].turn = activeTurn[Msg(w).session]
        BY <1>0, <1>7, <2>1 DEF FindTurn, TaskState
      <3>2. Rest(w) = UpdateEffect(activeTurn[Msg(w).session], Model)
        BY <1>7, <2>1, ModelFields DEF FindTurn, Applying, Rest, Effect
      <3>3. Rest(w)' = UpdateEffect(activeTurn[Msg(w).session], Model')
        BY <3>1 DEF Rest
      <3>4. QED
        BY <2>0, <3>2, <3>3
    <2>2. CASE Msg(w).session \notin DOMAIN activeTurn
      <3>1. task'[w].pc = "idle"
        BY <1>0, <1>7, <2>2 DEF FindTurn, Return, IdleTask
      <3>2. Rest(w) = Model
        BY <1>7, <2>2, ModelFields DEF FindTurn, Applying, Rest, Effect
      <3>3. Rest(w)' = Model'
        BY <3>1 DEF Rest
      <3>4. QED
        BY <2>0, <3>2, <3>3
    <2>3. QED
      BY <2>1, <2>2
  <1>8. CASE NumberChunk(w)
    <2> DEFINE t == task[w].turn
               n == Number(chunkSeq, t)
    <2>1. /\ task'[w].pc = "insert_chunk" /\ task'[w].turn = t
          /\ task'[w].seq = n
      BY <1>0, <1>8 DEF NumberChunk, Number, TaskState
    <2>2. Rest(w) = UpdateEffect(t, Model)
      BY <1>8 DEF NumberChunk, Rest
    <2>3. Rest(w)' = ModelOf(requestTurn', pendingNew', activeTurn', chunkSeq',
                             turnCounter', UnscopedTurns',
                             Append(chunks', Chunk(t, n)))
      BY <2>1 DEF Rest
    <2>4. UnscopedTurns' = UnscopedTurns /\ chunkSeq' = Put(chunkSeq, t, n + 1)
      BY <1>8 DEF NumberChunk, UnscopedTurns, Number
    <2>5. QED
      BY <1>8, <2>2, <2>3, <2>4, ModelFields DEF NumberChunk, UpdateEffect
  <1>9. CASE InsertChunk(w)
    <2>1. task'[w].pc = "notify"
      BY <1>0, <1>9 DEF InsertChunk, Announce, TaskState
    <2>2. Rest(w) = ModelOf(requestTurn, pendingNew, activeTurn, chunkSeq,
                            turnCounter, UnscopedTurns,
                            Append(chunks, Chunk(task[w].turn, task[w].seq)))
      BY <1>9 DEF InsertChunk, Rest
    <2>3. Rest(w)' = Model'
      BY <2>1 DEF Rest
    <2>4. UnscopedTurns' = UnscopedTurns
      BY <1>9 DEF InsertChunk, UnscopedTurns
    <2>5. QED
      BY <1>9, <2>2, <2>3, <2>4 DEF InsertChunk, Chunk, Model
  <1>10. ASSUME \/ UpdateCwd(w) \/ IgnoreRequest(w) \/ Attach(w)
                \/ IgnoreResponse(w) \/ IgnoreNotification(w) \/ Notify(w)
                \/ IgnoreLegacy(w) \/ ApplyConnection(w)
         PROVE  Rest(w)' = Rest(w)
    <2>1. Model' = Model
      BY <1>10 DEF UpdateCwd, IgnoreRequest, Attach, IgnoreResponse,
         IgnoreNotification, Notify, IgnoreLegacy, ApplyConnection, Model,
         UnscopedTurns
    <2>2. Rest(w) = Model
      <3>1. CASE UpdateCwd(w) \/ Attach(w) \/ Notify(w)
        BY <3>1 DEF UpdateCwd, Attach, Notify, Rest
      <3>2. CASE IgnoreRequest(w) \/ IgnoreNotification(w) \/ IgnoreLegacy(w)
                 \/ ApplyConnection(w)
        BY <3>2 DEF IgnoreRequest, IgnoreNotification, IgnoreLegacy,
           ApplyConnection, Applying, Rest, Effect
      <3>3. CASE IgnoreResponse(w)
        BY <3>3, ModelFields DEF IgnoreResponse, Applying, Rest, Effect
      <3>4. QED
        BY <1>10, <3>1, <3>2, <3>3
    <2>3. task'[w].pc \in Spent
      BY <1>0, <1>10, StepGoes DEF UpdateCwd, IgnoreRequest, Attach,
         IgnoreResponse, IgnoreNotification, Notify, IgnoreLegacy,
         ApplyConnection, Spent
    <2>4. Rest(w)' = Model'
      BY <2>3 DEF Rest, Spent
    <2>5. QED
      BY <2>1, <2>2, <2>4
  <1>11. QED
    BY <1>1, <1>2, <1>3, <1>4, <1>5, <1>6, <1>7, <1>8, <1>9, <1>10 DEF Apply
=============================================================================

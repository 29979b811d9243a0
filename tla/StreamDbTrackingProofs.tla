----------------------- MODULE StreamDbTrackingProofs -----------------------
(* What StreamDb promises of a request from the moment it is observed to   *)
(* the moment its answer is applied, for every value of the constants for  *)
(* which no two parties choose the same request id.                        *)
EXTENDS StreamDbProofs, FiniteSetTheorems

OwnIds(w) == ClientIds[w] \cup AgentIds[w]

\* Ids tell conversations apart.
LEMMA OwnIdsDisjoint ==
    ASSUME UniqueIds, NEW v \in Task, NEW w \in Task, v # w
    PROVE  OwnIds(v) \cap OwnIds(w) = {}
  BY DEF UniqueIds, OwnIds

-----------------------------------------------------------------------------
(* What one step does to the task and to the wire.                         *)

\* Message m of task w is a request that goes out.
Asking(w, m) == \E r \in Outstanding :
    /\ m.kind \in RequestKind
    /\ r.kind = m.kind /\ r.id = m.id /\ r.session = m.session
    /\ r.id \in IdsOf(r.party, w)
    /\ \A q \in outstanding[w] : q.party = r.party => q.id # r.id
    /\ m.kind = "session/prompt" =>
         /\ r.session \in established[w]
         /\ Serialized => \A q \in outstanding[w] : q.session # r.session
    /\ outstanding' = [outstanding EXCEPT ![w] = @ \cup {r}]
    /\ UNCHANGED established

\* Message m of task w is the answer to an outstanding request.
Answering(w, m) == \E r \in outstanding[w] :
    /\ m.kind = "response" /\ m.id = r.id
    /\ outstanding' = [outstanding EXCEPT ![w] = @ \ {r}]
    /\ \/ UNCHANGED established
       \/ \E s \in Session \ UNION {established[v] : v \in Task} :
            established' = [established EXCEPT ![w] = @ \cup {s}]

\* Message m of task w is a notification.
Notifying(w, m) ==
    /\ m.kind \in {"session/update", "notification"}
    /\ m.kind = "session/update" => m.session \in established[w]
    /\ UNCHANGED wire

\* Observing a message is one of the three, and hands it to the idle task.
LEMMA ObserveStep ==
    ASSUME TypeOK, NEW w \in Task, Observe(w)
    PROVE  /\ UNCHANGED <<correlation, collections, channel>>
           /\ task[w].pc = "idle"
           /\ \A v \in Task \ {w} : task'[v] = task[v]
           /\ \E m : /\ task'[w].pc = "append" /\ task'[w].msg = m
                     /\ Asking(w, m) \/ Answering(w, m) \/ Notifying(w, m)
  <1>1. \A m : Take(w, m) => /\ task[w].pc = "idle"
                              /\ task'[w].pc = "append" /\ task'[w].msg = m
    BY DEF Take, IdleTask, TypeOK
  <1>2. \A v \in Task \ {w} : task'[v] = task[v]
    BY TaskFrame
  <1>3. UNCHANGED <<correlation, collections, channel>>
    BY DEF Observe, ObserveSessionNew, ObservePrompt, ObserveRequest,
           ObserveResponse, ObserveUpdate, ObserveOther
  <1>4. \A kind, id, s : /\ Request(kind, id, s).kind = kind
                          /\ Request(kind, id, s).id = id
                          /\ Request(kind, id, s).session = s
    BY DEF Request, NoMessage
  <1> DEFINE Observed(m) == Asking(w, m) \/ Answering(w, m) \/ Notifying(w, m)
  <1>5. ASSUME NEW kind \in RequestKind, NEW id \in RequestId,
               NEW party \in Party, NEW s \in Session \cup {NoSession},
               SendRequest(w, party, kind, id, s), UNCHANGED established,
               kind = "session/prompt" =>
                 /\ s \in established[w]
                 /\ Serialized => \A q \in outstanding[w] : q.session # s
        PROVE  Observed(Request(kind, id, s))
    <2> DEFINE r == [party |-> party, id |-> id, kind |-> kind, session |-> s]
               m == Request(kind, id, s)
    <2>1. r \in Outstanding
      BY <1>5 DEF Outstanding
    <2>2. /\ id \in IdsOf(party, w)
          /\ \A q \in outstanding[w] : q.party = party => q.id # id
          /\ outstanding' = [outstanding EXCEPT ![w] = @ \cup {r}]
      BY <1>5 DEF SendRequest, FreshId
    <2>3. m.kind = kind /\ m.id = id /\ m.session = s
      BY <1>4
    <2>4. /\ r.kind = kind /\ r.id = id /\ r.session = s /\ r.party = party
      OBVIOUS
    <2> HIDE DEF r, m
    <2>5. Asking(w, m)
      BY <1>5, <2>1, <2>2, <2>3, <2>4 DEF Asking
    <2>6. QED
      BY <2>5 DEF m
  <1>6. ASSUME ObserveSessionNew(w)
        PROVE  \E m : Take(w, m) /\ Observed(m)
    <2>1. PICK id \in RequestId :
            /\ Take(w, Request("session/new", id, NoSession))
            /\ SendRequest(w, "client", "session/new", id, NoSession)
            /\ UNCHANGED established
      BY <1>6 DEF ObserveSessionNew
    <2>2. Observed(Request("session/new", id, NoSession))
      BY <1>5, <2>1 DEF RequestKind, Party
    <2>3. QED
      BY <2>1, <2>2
  <1>7. ASSUME ObservePrompt(w)
        PROVE  \E m : Take(w, m) /\ Observed(m)
    <2>1. PICK id \in RequestId, s \in established[w] :
            /\ Take(w, Request("session/prompt", id, s))
            /\ SendRequest(w, "client", "session/prompt", id, s)
            /\ Serialized => \A r \in outstanding[w] : r.session # s
            /\ UNCHANGED established
      BY <1>7 DEF ObservePrompt
    <2>2. s \in Session
      BY <2>1 DEF TypeOK
    <2>3. Observed(Request("session/prompt", id, s))
      BY <1>5, <2>1, <2>2 DEF RequestKind, Party
    <2>4. QED
      BY <2>1, <2>3
  <1>8. ASSUME ObserveRequest(w)
        PROVE  \E m : Take(w, m) /\ Observed(m)
    <2>1. PICK id \in RequestId, party \in Party :
            /\ Take(w, Request("request", id, NoSession))
            /\ SendRequest(w, party, "request", id, NoSession)
            /\ UNCHANGED established
      BY <1>8 DEF ObserveRequest
    <2>2. Observed(Request("request", id, NoSession))
      BY <1>5, <2>1 DEF RequestKind
    <2>3. QED
      BY <2>1, <2>2
  <1>9. ASSUME ObserveResponse(w)
        PROVE  \E m : Take(w, m) /\ Observed(m)
    <2>1. PICK r \in outstanding[w], ok \in BOOLEAN :
            /\ outstanding' = [outstanding EXCEPT ![w] = @ \ {r}]
            /\ \/ \E s \in Session \ UNION {established[v] : v \in Task} :
                    /\ Take(w, Response(r.id, s, TRUE))
                    /\ established' = [established EXCEPT ![w] = @ \cup {s}]
               \/ /\ Take(w, Response(r.id, NoSession, ok))
                  /\ UNCHANGED established
      BY <1>9 DEF ObserveResponse
    <2>2. \A s, b : /\ Response(r.id, s, b).kind = "response"
                     /\ Response(r.id, s, b).id = r.id
      BY DEF Response, NoMessage
    <2>3. PICK m : /\ m.kind = "response" /\ m.id = r.id /\ Take(w, m)
                   /\ \/ UNCHANGED established
                      \/ \E s \in Session \ UNION {established[v] : v \in Task} :
                           established' = [established EXCEPT ![w] = @ \cup {s}]
      BY <2>1, <2>2
    <2>4. Answering(w, m)
      BY <2>1, <2>3 DEF Answering
    <2>5. QED
      BY <2>3, <2>4
  <1>10. ASSUME ObserveUpdate(w)
         PROVE  \E m : Take(w, m) /\ Observed(m)
    BY <1>4, <1>10 DEF ObserveUpdate, Notifying
  <1>11. ASSUME ObserveOther(w)
         PROVE  \E m : Take(w, m) /\ Observed(m)
    BY <1>11 DEF ObserveOther, Notifying, NoMessage
  <1>12. \E m : Take(w, m) /\ Observed(m)
    BY <1>6, <1>7, <1>8, <1>9, <1>10, <1>11 DEF Observe
  <1>13. QED
    BY <1>1, <1>2, <1>3, <1>12

\* A busy task keeps its message until it is idle again; which message
\* leads to which section.
LEMMA HandStep ==
    ASSUME TypeOK, NEW w \in Task, Deliver(w) \/ Apply(w)
    PROVE  /\ UNCHANGED wire
           /\ \A v \in Task \ {w} : task'[v] = task[v]
           /\ task[w].pc # "idle"
           /\ task'[w].pc # "idle" => Msg(w)' = Msg(w)
           /\ task'[w].pc # "append"
           /\ task'[w].pc = "apply" => task[w].pc = "append"
           /\ task'[w].pc = "update_cwd" => Applying(w, "session/new")
           /\ task'[w].pc = "insert_turn" => Applying(w, "session/prompt")
           /\ task'[w].pc \in {"attach", "finish_turn"}
                => Applying(w, "response")
           /\ task'[w].pc = "number_chunk" => Applying(w, "session/update")
           /\ task'[w].pc = "insert_chunk" => task[w].pc = "number_chunk"
  <1>1. task \in [Task -> TaskState] /\ task[w] \in TaskState
    BY DEF TypeOK
  <1>2. \A v \in Task \ {w} : task'[v] = task[v]
    BY TaskFrame
  <1>3. Return(w) => task'[w].pc = "idle"
    BY StepGoes
  <1>4. \A change : Announce(w, change) =>
          task'[w].pc = "notify" /\ Msg(w)' = Msg(w)
    BY <1>1 DEF Announce, Become, Msg, TaskState
  <1>5. CASE Deliver(w)
    BY <1>1, <1>2, <1>5 DEF Deliver, Msg, TaskState
  <1>6. ASSUME \/ UpdateCwd(w) \/ InsertTurn(w) \/ Attach(w)
               \/ FinishTurn(w) \/ InsertChunk(w)
        PROVE  /\ UNCHANGED wire
               /\ task[w].pc # "idle"
               /\ task'[w].pc = "notify" /\ Msg(w)' = Msg(w)
    BY <1>4, <1>6 DEF UpdateCwd, InsertTurn, Attach, FinishTurn, InsertChunk
  <1>7. ASSUME \/ IgnoreRequest(w) \/ IgnoreResponse(w)
               \/ IgnoreNotification(w) \/ Notify(w)
        PROVE  /\ UNCHANGED wire
               /\ task[w].pc # "idle"
               /\ task'[w].pc = "idle"
    BY <1>3, <1>7 DEF IgnoreRequest, IgnoreResponse, IgnoreNotification,
                      Notify, Applying
  <1>8. CASE BeginSessionNew(w)
    BY <1>1, <1>2, <1>8 DEF BeginSessionNew, Become, Msg, TaskState, Applying
  <1>9. CASE BeginPrompt(w)
    BY <1>1, <1>2, <1>9
       DEF BeginPrompt, TrackPrompt, Become, Msg, TaskState, Applying
  <1>10. CASE EndSessionNew(w)
    <2>1. UNCHANGED wire /\ Applying(w, "response") /\ task[w].pc # "idle"
      BY <1>10 DEF EndSessionNew, Applying
    <2> DEFINE st == [task[w] EXCEPT !.pc = "attach",
                                     !.connection = connectionId]
    <2>2. Return(w) \/ Become(w, st)
      BY <1>10 DEF EndSessionNew
    <2>3. Become(w, st) => task'[w].pc = "attach" /\ Msg(w)' = Msg(w)
      BY <1>1 DEF Become, Msg, TaskState
    <2>4. QED
      BY <1>2, <1>3, <2>1, <2>2, <2>3
  <1>11. CASE EndPrompt(w)
    BY <1>1, <1>2, <1>11
       DEF EndPrompt, AnswersPrompt, Forget, Become, Msg, TaskState, Applying
  <1>12. CASE FindTurn(w)
    <2>1. /\ UNCHANGED wire /\ Applying(w, "session/update")
          /\ task[w].pc # "idle"
      BY <1>12 DEF FindTurn, Applying
    <2> DEFINE st == [task[w] EXCEPT !.pc = "number_chunk",
                                     !.turn = activeTurn[Msg(w).session]]
    <2>2. Return(w) \/ Become(w, st)
      BY <1>12 DEF FindTurn
    <2>3. Become(w, st) => task'[w].pc = "number_chunk" /\ Msg(w)' = Msg(w)
      BY <1>1 DEF Become, Msg, TaskState
    <2>4. QED
      BY <1>2, <1>3, <2>1, <2>2, <2>3
  <1>13. CASE NumberChunk(w)
    BY <1>1, <1>2, <1>13 DEF NumberChunk, Become, Msg, TaskState
  <1>14. QED
    BY <1>2, <1>5, <1>6, <1>7, <1>8, <1>9, <1>10, <1>11, <1>12, <1>13
       DEF Apply

-----------------------------------------------------------------------------
(* The conversation: what the wire holds, and what the tasks hold of it.   *)

\* The requests of a conversation have different ids of its own parties,
\* and its sessions are nobody else's.
Wired(w) ==
    /\ \A r \in outstanding[w] :
         /\ r.id \in IdsOf(r.party, w)
         /\ r.kind = "session/prompt" => r.session \in established[w]
         /\ \A q \in outstanding[w] : q.id = r.id => q = r
    /\ \A v \in Task : v # w => established[v] \cap established[w] = {}

\* A busy task holds a request that is on the wire, a response to one that
\* is not any more, or a notification; and is in a section for it.
InHand(w) ==
    /\ Msg(w).kind \in RequestKind =>
         \E r \in outstanding[w] : /\ r.id = Msg(w).id
                                   /\ r.kind = Msg(w).kind
                                   /\ r.session = Msg(w).session
    /\ Msg(w).kind = "response" =>
         /\ Msg(w).id \in OwnIds(w)
         /\ \A r \in outstanding[w] : r.id # Msg(w).id
    /\ Msg(w).kind = "session/update" => Msg(w).session \in established[w]
    /\ task[w].pc = "update_cwd" => Msg(w).kind = "session/new"
    /\ task[w].pc = "insert_turn" => Msg(w).kind = "session/prompt"
    /\ task[w].pc \in {"attach", "finish_turn"} => Msg(w).kind = "response"
    /\ task[w].pc \in {"number_chunk", "insert_chunk"}
         => Msg(w).kind = "session/update"

Conversation ==
    \A w \in Task : Wired(w) /\ (task[w].pc # "idle" => InHand(w))

LEMMA InitConversation == Init => Conversation
  BY DEF Init, Conversation, Wired, InHand, IdleTask

\* An outstanding request has an id of its conversation.
LEMMA OutstandingId ==
    ASSUME TypeOK, Conversation, NEW w \in Task, NEW r \in outstanding[w]
    PROVE  r.id \in OwnIds(w)
  BY DEF TypeOK, Outstanding, Party, Conversation, Wired, IdsOf, OwnIds

\* What the wire holds once a request is on it
LEMMA WireAsk ==
    ASSUME UniqueIds, TypeOK, \A v \in Task : Wired(v), NEW w \in Task, NEW m,
           Asking(w, m)
    PROVE  /\ \A v \in Task : Wired(v)'
           /\ m.kind \in RequestKind /\ m.id \in OwnIds(w)
           /\ \A q \in outstanding[w] : q.id # m.id
           /\ m.kind = "session/prompt" =>
                /\ m.session \in established[w]
                /\ Serialized => \A q \in outstanding[w] :
                                   q.session # m.session
           /\ \E r \in outstanding'[w] :
                r.id = m.id /\ r.kind = m.kind /\ r.session = m.session
           /\ \A v \in Task : outstanding[v] \subseteq outstanding'[v]
           /\ \A v \in Task \ {w} : outstanding'[v] = outstanding[v]
           /\ established' = established
  <1>1. /\ outstanding \in [Task -> SUBSET Outstanding]
        /\ established \in [Task -> SUBSET Session]
    BY DEF TypeOK
  <1>2. PICK r \in Outstanding :
          /\ m.kind \in RequestKind
          /\ r.kind = m.kind /\ r.id = m.id /\ r.session = m.session
          /\ r.id \in IdsOf(r.party, w)
          /\ \A q \in outstanding[w] : q.party = r.party => q.id # r.id
          /\ m.kind = "session/prompt" =>
               /\ r.session \in established[w]
               /\ Serialized => \A q \in outstanding[w] :
                                  q.session # r.session
          /\ outstanding' = [outstanding EXCEPT ![w] = @ \cup {r}]
          /\ established' = established
    BY DEF Asking
  <1>3. /\ outstanding'[w] = outstanding[w] \cup {r}
        /\ \A v \in Task \ {w} : outstanding'[v] = outstanding[v]
    BY <1>1, <1>2
  <1>4. \A q \in outstanding[w] : q.id # r.id
    <2> SUFFICES ASSUME NEW q \in outstanding[w], q.id = r.id
                 PROVE  q.party = r.party
      BY <1>2
    <2>1. q.id \in IdsOf(q.party, w)
      BY DEF Wired
    <2>2. q.party \in Party /\ r.party \in Party
      BY <1>1 DEF Outstanding
    <2>3. QED
      BY <1>2, <2>1, <2>2 DEF UniqueIds, IdsOf, Party
  <1>5. \A v \in Task : Wired(v)'
    BY <1>2, <1>3, <1>4 DEF Wired
  <1>6. r.id \in OwnIds(w)
    BY <1>2 DEF Outstanding, Party, IdsOf, OwnIds
  <1>7. QED
    BY <1>2, <1>3, <1>4, <1>5, <1>6

\* and once its answer is taken from it
LEMMA WireAnswer ==
    ASSUME TypeOK, \A v \in Task : Wired(v), NEW w \in Task, NEW m,
           Answering(w, m)
    PROVE  /\ \A v \in Task : Wired(v)'
           /\ m.kind = "response" /\ m.id \in OwnIds(w)
           /\ \A q \in outstanding'[w] : q.id # m.id
           /\ \A q \in outstanding[w] : q.id # m.id => q \in outstanding'[w]
           /\ \A v \in Task \ {w} : outstanding'[v] = outstanding[v]
           /\ \A v \in Task : established[v] \subseteq established'[v]
  <1>1. /\ outstanding \in [Task -> SUBSET Outstanding]
        /\ established \in [Task -> SUBSET Session]
    BY DEF TypeOK
  <1>2. PICK r \in outstanding[w] :
          /\ m.kind = "response" /\ m.id = r.id
          /\ outstanding' = [outstanding EXCEPT ![w] = @ \ {r}]
          /\ \/ UNCHANGED established
             \/ \E s \in Session \ UNION {established[v] : v \in Task} :
                  established' = [established EXCEPT ![w] = @ \cup {s}]
    BY DEF Answering
  <1>3. /\ outstanding'[w] = outstanding[w] \ {r}
        /\ \A v \in Task \ {w} : outstanding'[v] = outstanding[v]
    BY <1>1, <1>2
  <1>4. /\ established[w] \subseteq established'[w]
        /\ \A v \in Task \ {w} : established'[v] = established[v]
        /\ \A v \in Task \ {w} :
             established'[w] \cap established[v]
               = established[w] \cap established[v]
    BY <1>1, <1>2
  <1>5. \A v \in Task : Wired(v)'
    BY <1>3, <1>4 DEF Wired
  <1>6. r.id \in OwnIds(w) /\ \A q \in outstanding'[w] : q.id # r.id
    BY <1>1, <1>3 DEF Wired, Outstanding, Party, IdsOf, OwnIds
  <1>7. QED
    BY <1>2, <1>3, <1>4, <1>5, <1>6

LEMMA ObserveConversation ==
    ASSUME UniqueIds, TypeOK, Conversation, NEW w \in Task, Observe(w)
    PROVE  Conversation'
  <1>1. PICK m : /\ task'[w].pc = "append" /\ task'[w].msg = m
                 /\ Asking(w, m) \/ Answering(w, m) \/ Notifying(w, m)
    BY ObserveStep
  <1>2. \A v \in Task \ {w} : task'[v] = task[v]
    BY TaskFrame
  <1>3. \A v \in Task : Wired(v) /\ (task[v].pc # "idle" => InHand(v))
    BY DEF Conversation
  <1>4. CASE Asking(w, m)
    <2>1. InHand(w)'
      BY <1>1, <1>3, <1>4, WireAsk DEF InHand, Msg, RequestKind
    <2>2. \A v \in Task \ {w} : task'[v].pc # "idle" => InHand(v)'
      BY <1>2, <1>3, <1>4, WireAsk DEF InHand, Msg
    <2>3. QED
      BY <1>3, <1>4, <2>1, <2>2, WireAsk DEF Conversation
  <1>5. CASE Answering(w, m)
    <2>1. InHand(w)'
      BY <1>1, <1>3, <1>5, WireAnswer DEF InHand, Msg, RequestKind
    <2>2. \A v \in Task \ {w} : task'[v].pc # "idle" => InHand(v)'
      BY <1>2, <1>3, <1>5, WireAnswer DEF InHand, Msg
    <2>3. QED
      BY <1>3, <1>5, <2>1, <2>2, WireAnswer DEF Conversation
  <1>6. CASE Notifying(w, m)
    <2>1. /\ m.kind \in {"session/update", "notification"}
          /\ m.kind = "session/update" => m.session \in established[w]
          /\ outstanding' = outstanding /\ established' = established
      BY <1>6 DEF Notifying, wire
    <2>2. InHand(w)'
      BY <1>1, <2>1 DEF InHand, Msg, RequestKind
    <2>3. QED
      BY <1>2, <1>3, <2>1, <2>2 DEF Conversation, Wired, InHand, Msg
  <1>7. QED
    BY <1>1, <1>4, <1>5, <1>6

LEMMA HandConversation ==
    ASSUME TypeOK, Conversation, NEW w \in Task, Deliver(w) \/ Apply(w)
    PROVE  Conversation'
  <1>1. outstanding' = outstanding /\ established' = established
    BY HandStep DEF wire
  <1>2. \A v \in Task : Wired(v) /\ (task[v].pc # "idle" => InHand(v))
    BY DEF Conversation
  <1>3. task'[w].pc # "idle" => InHand(w)'
    BY <1>1, <1>2, HandStep DEF InHand, Applying
  <1>4. \A v \in Task \ {w} : task'[v].pc # "idle" => InHand(v)'
    BY <1>1, <1>2, HandStep DEF InHand, Msg
  <1>5. QED
    BY <1>1, <1>2, <1>3, <1>4 DEF Conversation, Wired

LEMMA NextConversation ==
    UniqueIds /\ TypeOK /\ Conversation /\ [Next]_vars => Conversation'
  <1>1. Conversation /\ UNCHANGED vars => Conversation'
    BY DEF vars, wire, Conversation, Wired, InHand, Msg
  <1>2. QED
    BY <1>1, ObserveConversation, HandConversation DEF Next

-----------------------------------------------------------------------------
(* The correlation maps: each entry belongs to a request whose answer no   *)
(* task has applied yet, each such request has its entry.                  *)

Unread(w) == task[w].pc \in {"append", "apply"}

\* The task has not applied the request with id i yet.
Fresh(w, i) == Unread(w) /\ Msg(w).kind \in RequestKind /\ Msg(w).id = i

\* The request with id i has been applied, and its answer
\* is owed by the wire, or is in the hands of the task.
Asked(w, kind, i) ==
    ~Fresh(w, i) /\ \E r \in outstanding[w] : r.kind = kind /\ r.id = i
Replied(w, i) == Unread(w) /\ Msg(w).kind = "response" /\ Msg(w).id = i

EntriesAwaitAnswers ==
    /\ \A i \in DOMAIN requestTurn :
         \E w \in Task : Asked(w, "session/prompt", i) \/ Replied(w, i)
    /\ \A i \in pendingNew :
         \E w \in Task : Asked(w, "session/new", i) \/ Replied(w, i)
    /\ DOMAIN requestTurn \cap pendingNew = {}

RowsNameRequests ==
    \A i \in DOMAIN requestTurn :
        requestTurn[i] \in DOMAIN turns => turns[requestTurn[i]].request = i

InsertersAreMapped ==
    \A w \in Task : task[w].pc = "insert_turn" =>
        /\ Msg(w).id \in DOMAIN requestTurn
        /\ requestTurn[Msg(w).id] = task[w].turn

\* Where to find the turn of an unanswered prompt
HasTurn(w, r) ==
    /\ r.id \in DOMAIN requestTurn
    /\ \/ task[w].pc = "insert_turn" /\ Msg(w).id = r.id
       \/ /\ requestTurn[r.id] \in DOMAIN turns
          /\ turns[requestTurn[r.id]].session = r.session

PromptsHaveTurns ==
    \A w \in Task : \A r \in outstanding[w] :
        r.kind = "session/prompt" /\ ~Fresh(w, r.id) => HasTurn(w, r)

ActiveTurnsHeld ==
    \A t \in DOMAIN turns : turns[t].state = "active" =>
        \/ t \in Image(requestTurn)
        \/ \E w \in Task : task[w].pc = "finish_turn" /\ task[w].turn = t

Tracking == /\ EntriesAwaitAnswers
            /\ RowsNameRequests
            /\ InsertersAreMapped
            /\ PromptsHaveTurns
            /\ ActiveTurnsHeld

LEMMA InitTracking == Init => Tracking
  BY DEF Init, Tracking, EntriesAwaitAnswers, RowsNameRequests,
         InsertersAreMapped, PromptsHaveTurns, ActiveTurnsHeld, EmptyMap,
         IdleTask

\* An entry of either map awaits an answer of the party that chose its id.
LEMMA AwaitedId ==
    ASSUME TypeOK, Conversation, NEW w \in Task, NEW kind, NEW i,
           Asked(w, kind, i) \/ Replied(w, i)
    PROVE  i \in OwnIds(w)
  <1>1. CASE Asked(w, kind, i)
    BY <1>1, OutstandingId DEF Asked
  <1>2. CASE Replied(w, i)
    BY <1>2 DEF Replied, Unread, Conversation, InHand
  <1>3. QED
    BY <1>1, <1>2

\* The id of the message in hand belongs to the conversation.
LEMMA IdInHand ==
    ASSUME TypeOK, Conversation, NEW w \in Task, task[w].pc # "idle",
           Msg(w).kind \in RequestKind \cup {"response"}
    PROVE  Msg(w).id \in OwnIds(w)
  BY OutstandingId DEF Conversation, InHand

\* A request in hand that has not been applied has no entry yet.
LEMMA FreshInHand ==
    ASSUME UniqueIds, TypeOK, Conversation, Tracking, NEW w \in Task,
           task[w].pc = "apply", Msg(w).kind \in RequestKind
    PROVE  Msg(w).id \notin DOMAIN requestTurn \cup pendingNew
  <1> SUFFICES ASSUME Msg(w).id \in DOMAIN requestTurn \cup pendingNew
               PROVE  FALSE
    OBVIOUS
  <1>1. PICK v \in Task, kind \in RequestKind :
          Asked(v, kind, Msg(w).id) \/ Replied(v, Msg(w).id)
    BY DEF Tracking, EntriesAwaitAnswers, RequestKind
  <1>2. Msg(w).id \in OwnIds(v) /\ Msg(w).id \in OwnIds(w)
    BY <1>1, AwaitedId, IdInHand
  <1>3. v = w
    BY <1>2, OwnIdsDisjoint
  <1>4. QED
    BY <1>1, <1>3 DEF Asked, Replied, Fresh, Unread, RequestKind

\* The sections that change neither the maps nor the rows: enough is that
\* the task still awaits what it awaited, and has applied no more prompts.
LEMMA TrackingFrame ==
    ASSUME Tracking, NEW w \in Task,
           UNCHANGED <<requestTurn, pendingNew, turns>>,
           \A v \in Task \ {w} : /\ task'[v] = task[v]
                                  /\ outstanding'[v] = outstanding[v],
           task[w].pc \notin {"insert_turn", "finish_turn"},
           task'[w].pc \notin {"insert_turn", "finish_turn"},
           \A i \in DOMAIN requestTurn :
             Asked(w, "session/prompt", i) \/ Replied(w, i)
               => Asked(w, "session/prompt", i)' \/ Replied(w, i)',
           \A i \in pendingNew :
             Asked(w, "session/new", i) \/ Replied(w, i)
               => Asked(w, "session/new", i)' \/ Replied(w, i)',
           \A r \in outstanding'[w] :
             r.kind = "session/prompt" /\ ~Fresh(w, r.id)'
               => r \in outstanding[w] /\ ~Fresh(w, r.id)
    PROVE  Tracking'
  <1>1. \A v \in Task \ {w}, kind \in RequestKind : \A i :
          /\ Asked(v, kind, i)' <=> Asked(v, kind, i)
          /\ Replied(v, i)' <=> Replied(v, i)
          /\ Fresh(v, i)' <=> Fresh(v, i)
    BY DEF Asked, Replied, Fresh, Unread, Msg
  <1>2. EntriesAwaitAnswers'
    <2>1. ASSUME NEW i \in DOMAIN requestTurn'
          PROVE  \E v \in Task :
                   Asked(v, "session/prompt", i)' \/ Replied(v, i)'
      <3>1. PICK v \in Task : Asked(v, "session/prompt", i) \/ Replied(v, i)
        BY DEF Tracking, EntriesAwaitAnswers
      <3>2. QED
        BY <1>1, <3>1 DEF RequestKind
    <2>2. ASSUME NEW i \in pendingNew'
          PROVE  \E v \in Task :
                   Asked(v, "session/new", i)' \/ Replied(v, i)'
      <3>1. PICK v \in Task : Asked(v, "session/new", i) \/ Replied(v, i)
        BY DEF Tracking, EntriesAwaitAnswers
      <3>2. QED
        BY <1>1, <3>1 DEF RequestKind
    <2>3. QED
      BY <2>1, <2>2 DEF Tracking, EntriesAwaitAnswers
  <1>3. RowsNameRequests'
    BY DEF Tracking, RowsNameRequests
  <1>4. InsertersAreMapped'
    BY DEF Tracking, InsertersAreMapped, Msg
  <1>5. PromptsHaveTurns'
    <2> SUFFICES ASSUME NEW v \in Task, NEW r \in outstanding'[v],
                        r.kind = "session/prompt", ~Fresh(v, r.id)'
                 PROVE  HasTurn(v, r)'
      BY DEF PromptsHaveTurns
    <2>1. r \in outstanding[v] /\ ~Fresh(v, r.id)
      BY <1>1 DEF RequestKind
    <2>2. HasTurn(v, r)
      BY <2>1 DEF Tracking, PromptsHaveTurns
    <2>3. QED
      BY <2>2 DEF HasTurn, Msg
  <1>6. ActiveTurnsHeld'
    BY DEF Tracking, ActiveTurnsHeld
  <1>7. QED
    BY <1>2, <1>3, <1>4, <1>5, <1>6 DEF Tracking

LEMMA ObserveTracking ==
    ASSUME UniqueIds, TypeOK, Conversation, Tracking, NEW w \in Task, Observe(w)
    PROVE  Tracking'
  <1>1. PICK m : /\ task'[w].pc = "append" /\ task'[w].msg = m
                 /\ Asking(w, m) \/ Answering(w, m) \/ Notifying(w, m)
    BY ObserveStep
  <1>2. /\ task[w].pc = "idle"
        /\ UNCHANGED <<requestTurn, pendingNew, turns>>
        /\ \A v \in Task \ {w} : task'[v] = task[v]
    BY ObserveStep DEF correlation, collections
  <1>3. outstanding \in [Task -> SUBSET Outstanding]
    BY DEF TypeOK
  <1>4. /\ \A i : ~Fresh(w, i) /\ ~Replied(w, i)
        /\ \A i : Fresh(w, i)' <=> m.kind \in RequestKind /\ m.id = i
        /\ \A i : Replied(w, i)' <=> m.kind = "response" /\ m.id = i
    BY <1>1, <1>2 DEF Fresh, Replied, Unread, Msg
  <1>5. CASE Asking(w, m)
    <2>1. PICK r \in Outstanding :
            /\ m.kind \in RequestKind
            /\ r.kind = m.kind /\ r.id = m.id
            /\ \A q \in outstanding[w] : q.party = r.party => q.id # r.id
            /\ outstanding' = [outstanding EXCEPT ![w] = @ \cup {r}]
      BY <1>5 DEF Asking
    <2>2. /\ outstanding'[w] = outstanding[w] \cup {r}
          /\ \A v \in Task \ {w} : outstanding'[v] = outstanding[v]
      BY <1>3, <2>1
    <2>3. \A q \in outstanding[w] : q.id # r.id
      BY <2>1, <2>2, ObserveConversation DEF Conversation, Wired
    <2>4. \A kind, i : Asked(w, kind, i) => Asked(w, kind, i)'
      BY <1>4, <2>1, <2>2, <2>3 DEF Asked
    <2>5. \A q \in outstanding'[w] : ~Fresh(w, q.id)' => q \in outstanding[w]
      BY <1>4, <2>1, <2>2
    <2>6. QED
      BY <1>1, <1>2, <1>4, <2>2, <2>4, <2>5, TrackingFrame
  <1>6. CASE Answering(w, m)
    <2>1. PICK r \in outstanding[w] :
            /\ m.kind = "response" /\ m.id = r.id
            /\ outstanding' = [outstanding EXCEPT ![w] = @ \ {r}]
      BY <1>6 DEF Answering
    <2>2. /\ outstanding'[w] = outstanding[w] \ {r}
          /\ \A v \in Task \ {w} : outstanding'[v] = outstanding[v]
      BY <1>3, <2>1
    <2>3. \A kind, i : Asked(w, kind, i) =>
                         Asked(w, kind, i)' \/ Replied(w, i)'
      BY <1>4, <2>1, <2>2 DEF Asked, RequestKind
    <2>4. QED
      BY <1>1, <1>2, <1>4, <2>2, <2>3, TrackingFrame
  <1>7. CASE Notifying(w, m)
    <2>1. outstanding' = outstanding /\ m.kind \notin RequestKind
      BY <1>7 DEF Notifying, wire, RequestKind
    <2>2. \A kind, i : Asked(w, kind, i) => Asked(w, kind, i)'
      BY <1>4, <2>1 DEF Asked
    <2>3. QED
      BY <1>1, <1>2, <1>4, <2>1, <2>2, TrackingFrame
  <1>8. QED
    BY <1>1, <1>5, <1>6, <1>7

LEMMA DeliverTracking ==
    ASSUME TypeOK, Tracking, NEW w \in Task, Deliver(w)
    PROVE  Tracking'
  <1>1. /\ task[w].pc = "append" /\ task'[w].pc = "apply"
        /\ Msg(w)' = Msg(w)
        /\ UNCHANGED <<requestTurn, pendingNew, turns, outstanding>>
        /\ \A v \in Task \ {w} : task'[v] = task[v]
    BY DEF Deliver, TypeOK, TaskState, Msg, correlation, collections, wire
  <1>2. \A kind, i : /\ Fresh(w, i)' <=> Fresh(w, i)
                     /\ Replied(w, i)' <=> Replied(w, i)
                     /\ Asked(w, kind, i)' <=> Asked(w, kind, i)
    BY <1>1 DEF Fresh, Replied, Asked, Unread
  <1>3. QED
    BY <1>1, <1>2, TrackingFrame

\* What the task has to do with requests once it has applied its message
LEMMA AppliedWaits ==
    ASSUME NEW w \in Task, UNCHANGED outstanding, ~Unread(w)'
    PROVE  /\ \A i : ~Fresh(w, i)' /\ ~Replied(w, i)'
           /\ \A kind, i : Asked(w, kind, i) => Asked(w, kind, i)'
           /\ \A kind, i : Asked(w, kind, i)' <=>
                \E r \in outstanding[w] : r.kind = kind /\ r.id = i
  BY DEF Fresh, Replied, Asked

\* The other tasks wait for what they waited for.
LEMMA OthersWait ==
    ASSUME NEW w \in Task, UNCHANGED outstanding,
           \A v \in Task \ {w} : task'[v] = task[v]
    PROVE  \A v \in Task \ {w} : \A kind, i :
             /\ Asked(v, kind, i)' <=> Asked(v, kind, i)
             /\ Replied(v, i)' <=> Replied(v, i)
             /\ Fresh(v, i)' <=> Fresh(v, i)
  BY DEF Asked, Replied, Fresh, Unread, Msg

\* The sections that leave the maps and the rows alone
LEMMA QuietTracking ==
    ASSUME TypeOK, Conversation, Tracking, NEW w \in Task,
           \/ UpdateCwd(w) \/ IgnoreRequest(w) \/ Attach(w)
           \/ IgnoreResponse(w) \/ FindTurn(w) \/ NumberChunk(w)
           \/ InsertChunk(w) \/ IgnoreNotification(w) \/ Notify(w)
    PROVE  Tracking'
  <1>1. /\ UNCHANGED <<requestTurn, pendingNew, turns, outstanding>>
        /\ task[w].pc \notin {"idle", "append", "insert_turn", "finish_turn"}
    BY DEF UpdateCwd, IgnoreRequest, Attach, IgnoreResponse, FindTurn,
           NumberChunk, InsertChunk, IgnoreNotification, Notify, Applying,
           correlation, collections, wire
  <1>2. /\ \A v \in Task \ {w} : task'[v] = task[v]
        /\ task'[w].pc \notin {"append", "apply"}
    BY <1>1, HandStep DEF Apply
  <1>3. task'[w].pc \notin {"insert_turn", "finish_turn"}
    BY StepGoes DEF UpdateCwd, IgnoreRequest, Attach, IgnoreResponse, FindTurn,
       NumberChunk, InsertChunk, IgnoreNotification, Notify
  <1>4. ~Unread(w)'
    BY <1>2 DEF Unread
  <1>5. ASSUME NEW i \in DOMAIN requestTurn \cup pendingNew
        PROVE  ~Replied(w, i)
    BY <1>5 DEF Replied, Unread, UpdateCwd, IgnoreRequest, Attach,
       IgnoreResponse, FindTurn, NumberChunk, InsertChunk, IgnoreNotification,
       Notify, Applying
  <1>6. ASSUME NEW r \in outstanding[w], r.kind = "session/prompt",
               Fresh(w, r.id)
        PROVE  FALSE
    <2>1. Msg(w).kind = "request"
      BY <1>6 DEF Fresh, Unread, RequestKind, UpdateCwd, IgnoreRequest, Attach,
         IgnoreResponse, FindTurn, NumberChunk, InsertChunk,
         IgnoreNotification, Notify, Applying
    <2>2. PICK q \in outstanding[w] : q.id = Msg(w).id /\ q.kind = "request"
      BY <1>1, <2>1 DEF Conversation, InHand, RequestKind
    <2>3. QED
      BY <1>6, <2>2 DEF Fresh, Conversation, Wired
  <1>7. QED
    BY <1>1, <1>2, <1>3, <1>4, <1>5, <1>6, AppliedWaits, TrackingFrame

\* A session/new request is entered as pending.
LEMMA BeginSessionNewTracking ==
    ASSUME UniqueIds, TypeOK, Conversation, Tracking, NEW w \in Task,
           BeginSessionNew(w)
    PROVE  Tracking'
  <1>0. PICK i : i = Msg(w).id
    OBVIOUS
  <1>1. /\ UNCHANGED <<requestTurn, turns, outstanding>>
        /\ pendingNew' = pendingNew \cup {i}
        /\ task[w].pc = "apply" /\ Msg(w).kind = "session/new"
    BY <1>0 DEF BeginSessionNew, Applying, collections, wire
  <1>2. /\ \A v \in Task \ {w} : task'[v] = task[v]
        /\ task'[w].pc = "update_cwd"
    BY TaskFrame, StepGoes DEF Apply, BeginSessionNew
  <1>3. i \notin DOMAIN requestTurn
    BY <1>0, <1>1, FreshInHand DEF RequestKind
  <1>4. PICK r \in outstanding[w] : r.id = i /\ r.kind = "session/new"
    BY <1>0, <1>1 DEF Conversation, InHand, RequestKind
  <1>5. /\ ~Unread(w)' /\ \A j : ~Replied(w, j)
        /\ \A j : Fresh(w, j) <=> j = i
    BY <1>0, <1>1, <1>2 DEF Unread, Replied, Fresh, RequestKind
  <1>6. \A v \in Task \ {w} : \A kind, j :
          /\ Asked(v, kind, j)' <=> Asked(v, kind, j)
          /\ Replied(v, j)' <=> Replied(v, j)
          /\ Fresh(v, j)' <=> Fresh(v, j)
    BY <1>1, <1>2, OthersWait
  <1>7. \A kind, j : /\ ~Fresh(w, j)'
                     /\ Asked(w, kind, j) => Asked(w, kind, j)'
    BY <1>1, <1>5, AppliedWaits
  <1>8. Asked(w, "session/new", i)'
    BY <1>1, <1>4, <1>5, AppliedWaits
  <1>9. EntriesAwaitAnswers'
    <2>1. ASSUME NEW j \in DOMAIN requestTurn
          PROVE  \E v \in Task :
                   Asked(v, "session/prompt", j)' \/ Replied(v, j)'
      BY <1>5, <1>6, <1>7 DEF Tracking, EntriesAwaitAnswers
    <2>2. ASSUME NEW j \in pendingNew
          PROVE  \E v \in Task :
                   Asked(v, "session/new", j)' \/ Replied(v, j)'
      BY <1>5, <1>6, <1>7 DEF Tracking, EntriesAwaitAnswers
    <2>3. QED
      BY <1>1, <1>3, <1>8, <2>1, <2>2 DEF Tracking, EntriesAwaitAnswers
  <1>10. RowsNameRequests'
    BY <1>1 DEF Tracking, RowsNameRequests
  <1>11. InsertersAreMapped'
    BY <1>1, <1>2 DEF Tracking, InsertersAreMapped, Msg
  <1>12. PromptsHaveTurns'
    <2> SUFFICES ASSUME NEW v \in Task, NEW q \in outstanding[v],
                        q.kind = "session/prompt", ~Fresh(v, q.id)'
                 PROVE  HasTurn(v, q)'
      BY <1>1 DEF PromptsHaveTurns
    <2>1. ~Fresh(v, q.id)
      <3>1. v = w => q.id # i
        BY <1>4 DEF Conversation, Wired
      <3>2. QED
        BY <1>5, <1>6, <3>1
    <2>2. HasTurn(v, q)
      BY <2>1 DEF Tracking, PromptsHaveTurns
    <2>3. QED
      BY <1>1, <1>2, <2>2 DEF HasTurn, Msg
  <1>13. ActiveTurnsHeld'
    BY <1>1, <1>2 DEF Tracking, ActiveTurnsHeld
  <1>14. QED
    BY <1>9, <1>10, <1>11, <1>12, <1>13 DEF Tracking

\* A session/prompt request gets a turn that no row has yet.
LEMMA BeginPromptTracking ==
    ASSUME UniqueIds, TypeOK, OutcomeInv, Conversation, Tracking,
           NEW w \in Task, BeginPrompt(w)
    PROVE  Tracking'
  <1> DEFINE t == turnCounter + 1
  <1>0. PICK i : i = Msg(w).id
    OBVIOUS
  <1>1. /\ UNCHANGED <<pendingNew, turns, outstanding>>
        /\ requestTurn' = Put(requestTurn, i, t)
        /\ task[w].pc = "apply" /\ Msg(w).kind = "session/prompt"
    BY <1>0 DEF BeginPrompt, TrackPrompt, Applying, collections, wire
  <1>2. /\ \A v \in Task \ {w} : task'[v] = task[v]
        /\ task'[w].pc = "insert_turn" /\ task'[w].turn = t
        /\ Msg(w)' = Msg(w)
    BY TaskFrame DEF Apply, BeginPrompt, TrackPrompt, Become, TypeOK, TaskState,
       Msg
  <1>3. /\ DOMAIN requestTurn' = DOMAIN requestTurn \cup {i}
        /\ requestTurn'[i] = t
        /\ \A j \in DOMAIN requestTurn \ {i} : requestTurn'[j] = requestTurn[j]
    BY <1>1 DEF Put
  <1>4. i \notin DOMAIN requestTurn \cup pendingNew
    BY <1>0, <1>1, FreshInHand DEF RequestKind
  <1>5. t \notin DOMAIN turns
    BY DEF OutcomeInv, CorrelationOwnsTurns, TypeOK, Turn
  <1>6. PICK r \in outstanding[w] : r.id = i /\ r.kind = "session/prompt"
    BY <1>0, <1>1 DEF Conversation, InHand, RequestKind
  <1>7. /\ ~Unread(w)' /\ \A j : ~Replied(w, j)
        /\ \A j : Fresh(w, j) <=> j = i
    BY <1>0, <1>1, <1>2 DEF Unread, Replied, Fresh, RequestKind
  <1>8. \A v \in Task \ {w} : \A kind, j :
          /\ Asked(v, kind, j)' <=> Asked(v, kind, j)
          /\ Replied(v, j)' <=> Replied(v, j)
          /\ Fresh(v, j)' <=> Fresh(v, j)
    BY <1>1, <1>2, OthersWait
  <1>9. \A kind, j : /\ ~Fresh(w, j)'
                     /\ Asked(w, kind, j) => Asked(w, kind, j)'
    BY <1>1, <1>7, AppliedWaits
  <1>10. Asked(w, "session/prompt", i)'
    BY <1>1, <1>6, <1>7, AppliedWaits
  <1> HIDE DEF t
  <1>11. EntriesAwaitAnswers'
    <2>1. ASSUME NEW j \in DOMAIN requestTurn
          PROVE  \E v \in Task :
                   Asked(v, "session/prompt", j)' \/ Replied(v, j)'
      BY <1>7, <1>8, <1>9 DEF Tracking, EntriesAwaitAnswers
    <2>2. ASSUME NEW j \in pendingNew
          PROVE  \E v \in Task :
                   Asked(v, "session/new", j)' \/ Replied(v, j)'
      BY <1>7, <1>8, <1>9 DEF Tracking, EntriesAwaitAnswers
    <2>3. QED
      BY <1>1, <1>3, <1>4, <1>10, <2>1, <2>2 DEF Tracking, EntriesAwaitAnswers
  <1>12. RowsNameRequests'
    BY <1>1, <1>3, <1>5 DEF Tracking, RowsNameRequests
  <1>13. InsertersAreMapped'
    BY <1>0, <1>2, <1>3, <1>4 DEF Tracking, InsertersAreMapped, Msg
  <1>14. PromptsHaveTurns'
    <2> SUFFICES ASSUME NEW v \in Task, NEW q \in outstanding[v],
                        q.kind = "session/prompt", ~Fresh(v, q.id)'
                 PROVE  HasTurn(v, q)'
      BY <1>1 DEF PromptsHaveTurns
    <2>1. CASE v = w /\ q.id = i
      BY <1>0, <1>2, <1>3, <2>1 DEF HasTurn
    <2>2. CASE ~(v = w /\ q.id = i)
      <3>1. ~Fresh(v, q.id)
        BY <1>7, <1>8, <2>2
      <3>2. HasTurn(v, q)
        BY <3>1 DEF Tracking, PromptsHaveTurns
      <3>3. requestTurn'[q.id] = requestTurn[q.id] /\ q.id \in DOMAIN requestTurn'
        BY <1>3, <1>4, <3>2 DEF HasTurn
      <3>4. QED
        BY <1>1, <1>2, <3>2, <3>3 DEF HasTurn, Msg
    <2>3. QED
      BY <2>1, <2>2
  <1>15. ActiveTurnsHeld'
    <2>1. Image(requestTurn) \subseteq Image(requestTurn')
      BY <1>3, <1>4 DEF Image
    <2>2. QED
      BY <1>1, <1>2, <2>1 DEF Tracking, ActiveTurnsHeld
  <1>16. QED
    BY <1>11, <1>12, <1>13, <1>14, <1>15 DEF Tracking

\* The row of a prompt is inserted under the turn its request maps to.
LEMMA InsertTurnTracking ==
    ASSUME UniqueIds, TypeOK, OutcomeInv, Conversation, Tracking,
           NEW w \in Task, InsertTurn(w)
    PROVE  Tracking'
  <1>0. PICK i, t : i = Msg(w).id /\ t = task[w].turn
    OBVIOUS
  <1>1. /\ UNCHANGED <<requestTurn, pendingNew, outstanding>>
        /\ task[w].pc = "insert_turn"
        /\ DOMAIN turns' = DOMAIN turns \cup {t}
        /\ turns'[t].request = i /\ turns'[t].session = Msg(w).session
        /\ \A u \in DOMAIN turns : u # t => turns'[u] = turns[u]
    BY <1>0 DEF InsertTurn, Put, correlation, wire
  <1>2. /\ \A v \in Task \ {w} : task'[v] = task[v]
        /\ task'[w].pc = "notify"
    BY TaskFrame, StepGoes DEF Apply, InsertTurn
  <1>3. i \in DOMAIN requestTurn /\ requestTurn[i] = t
    BY <1>0, <1>1 DEF Tracking, InsertersAreMapped
  <1>4. \A j \in DOMAIN requestTurn : requestTurn[j] = t => j = i
    BY <1>3 DEF OutcomeInv, CorrelationOwnsTurns
  <1>5. t \notin DOMAIN turns
    BY <1>0, <1>1 DEF OutcomeInv, InsertersOwnTurns
  <1>6. \A v \in Task : \A kind, j :
          /\ Asked(v, kind, j)' <=> Asked(v, kind, j)
          /\ Replied(v, j)' <=> Replied(v, j)
          /\ Fresh(v, j)' <=> Fresh(v, j)
    <2>1. \A kind, j : /\ Asked(w, kind, j)' <=> Asked(w, kind, j)
                       /\ Replied(w, j)' <=> Replied(w, j)
                       /\ Fresh(w, j)' <=> Fresh(w, j)
      BY <1>1, <1>2 DEF Asked, Replied, Fresh, Unread
    <2>2. QED
      BY <1>1, <1>2, <2>1, OthersWait
  <1>7. EntriesAwaitAnswers'
    BY <1>1, <1>6 DEF Tracking, EntriesAwaitAnswers
  <1>8. RowsNameRequests'
    BY <1>1, <1>4 DEF Tracking, RowsNameRequests
  <1>9. InsertersAreMapped'
    BY <1>1, <1>2 DEF Tracking, InsertersAreMapped, Msg
  <1>10. PromptsHaveTurns'
    <2> SUFFICES ASSUME NEW v \in Task, NEW q \in outstanding[v],
                        q.kind = "session/prompt", ~Fresh(v, q.id)'
                 PROVE  HasTurn(v, q)'
      BY <1>1 DEF PromptsHaveTurns
    <2>1. HasTurn(v, q)
      BY <1>6 DEF Tracking, PromptsHaveTurns
    <2>2. CASE v = w /\ q.id = i
      <3>1. q.session = Msg(w).session
        BY <1>0, <1>1, <2>2 DEF Conversation, Wired, InHand, RequestKind
      <3>2. QED
        BY <1>1, <1>3, <2>2, <3>1 DEF HasTurn
    <2>3. CASE v = w /\ q.id # i
      BY <1>0, <1>1, <1>5, <2>1, <2>3 DEF HasTurn
    <2>4. CASE v # w
      BY <1>1, <1>2, <1>5, <2>1, <2>4 DEF HasTurn, Msg
    <2>5. QED
      BY <2>2, <2>3, <2>4
  <1>11. ActiveTurnsHeld'
    <2>1. t \in Image(requestTurn)
      BY <1>3 DEF Image
    <2>2. QED
      BY <1>1, <1>2, <2>1 DEF Tracking, ActiveTurnsHeld
  <1>12. QED
    BY <1>7, <1>8, <1>9, <1>10, <1>11 DEF Tracking

\* The answer to a pending session/new request removes the entry.
LEMMA EndSessionNewTracking ==
    ASSUME UniqueIds, TypeOK, Conversation, Tracking, NEW w \in Task,
           EndSessionNew(w)
    PROVE  Tracking'
  <1>0. PICK i : i = Msg(w).id
    OBVIOUS
  <1>1. /\ UNCHANGED <<requestTurn, turns, outstanding>>
        /\ i \in pendingNew /\ pendingNew' = pendingNew \ {i}
        /\ task[w].pc = "apply" /\ Msg(w).kind = "response"
    BY <1>0 DEF EndSessionNew, Applying, collections, wire
  <1>2. /\ \A v \in Task \ {w} : task'[v] = task[v]
        /\ task'[w].pc \in {"idle", "attach"}
    BY TaskFrame, StepGoes DEF Apply, EndSessionNew
  <1>3. i \notin DOMAIN requestTurn
    BY <1>1 DEF Tracking, EntriesAwaitAnswers
  <1>4. /\ ~Unread(w)' /\ \A j : ~Fresh(w, j)
        /\ \A j : Replied(w, j) <=> j = i
    BY <1>0, <1>1, <1>2 DEF Unread, Replied, Fresh, RequestKind
  <1>5. \A v \in Task \ {w} : \A kind, j :
          /\ Asked(v, kind, j)' <=> Asked(v, kind, j)
          /\ Replied(v, j)' <=> Replied(v, j)
          /\ Fresh(v, j)' <=> Fresh(v, j)
    BY <1>1, <1>2, OthersWait
  <1>6. \A kind, j : Asked(w, kind, j) => Asked(w, kind, j)'
    BY <1>1, <1>4, AppliedWaits
  <1>7. EntriesAwaitAnswers'
    <2>1. ASSUME NEW j \in DOMAIN requestTurn
          PROVE  \E v \in Task :
                   Asked(v, "session/prompt", j)' \/ Replied(v, j)'
      BY <1>3, <1>4, <1>5, <1>6 DEF Tracking, EntriesAwaitAnswers
    <2>2. ASSUME NEW j \in pendingNew, j # i
          PROVE  \E v \in Task :
                   Asked(v, "session/new", j)' \/ Replied(v, j)'
      BY <1>4, <1>5, <1>6, <2>2 DEF Tracking, EntriesAwaitAnswers
    <2>3. QED
      BY <1>1, <2>1, <2>2 DEF Tracking, EntriesAwaitAnswers
  <1>8. RowsNameRequests'
    BY <1>1 DEF Tracking, RowsNameRequests
  <1>9. InsertersAreMapped'
    BY <1>1, <1>2 DEF Tracking, InsertersAreMapped, Msg
  <1>10. PromptsHaveTurns'
    <2> SUFFICES ASSUME NEW v \in Task, NEW q \in outstanding[v],
                        q.kind = "session/prompt", ~Fresh(v, q.id)'
                 PROVE  HasTurn(v, q)'
      BY <1>1 DEF PromptsHaveTurns
    <2>1. HasTurn(v, q)
      BY <1>4, <1>5 DEF Tracking, PromptsHaveTurns
    <2>2. QED
      BY <1>1, <1>2, <2>1 DEF HasTurn, Msg
  <1>11. ActiveTurnsHeld'
    BY <1>1, <1>2 DEF Tracking, ActiveTurnsHeld
  <1>12. QED
    BY <1>7, <1>8, <1>9, <1>10, <1>11 DEF Tracking

\* The answer to a prompt removes the entry, and the task holds the turn.
LEMMA EndPromptTracking ==
    ASSUME UniqueIds, TypeOK, Conversation, Tracking, NEW w \in Task,
           EndPrompt(w)
    PROVE  Tracking'
  <1>0. PICK i, t : i = Msg(w).id /\ t = requestTurn[Msg(w).id]
    OBVIOUS
  <1>1. /\ UNCHANGED <<pendingNew, turns, outstanding>>
        /\ i \in DOMAIN requestTurn /\ i \notin pendingNew
        /\ DOMAIN requestTurn' = DOMAIN requestTurn \ {i}
        /\ \A j \in DOMAIN requestTurn' : requestTurn'[j] = requestTurn[j]
        /\ task[w].pc = "apply" /\ Msg(w).kind = "response"
    BY <1>0 DEF EndPrompt, AnswersPrompt, Forget, Without, Applying,
       collections, wire
  <1>2. /\ \A v \in Task \ {w} : task'[v] = task[v]
        /\ task'[w].pc = "finish_turn" /\ task'[w].turn = t
    <2>1. task \in [Task -> TaskState]
      BY DEF TypeOK
    <2>2. Become(w, [task[w] EXCEPT !.pc = "finish_turn", !.turn = t])
      BY <1>0 DEF EndPrompt, Forget
    <2>3. QED
      BY <2>1, <2>2, TaskFrame DEF Apply, Become, TaskState
  <1>3. \A v \in Task : \A r \in outstanding[v] : r.id # i
    <2> SUFFICES ASSUME NEW v \in Task, NEW r \in outstanding[v], r.id = i
                 PROVE  FALSE
      OBVIOUS
    <2>1. i \in OwnIds(v) /\ i \in OwnIds(w)
      BY <1>0, <1>1, OutstandingId, IdInHand
    <2>2. v = w
      BY <2>1, OwnIdsDisjoint
    <2>3. QED
      BY <1>0, <1>1, <2>2 DEF Conversation, InHand
  <1>4. /\ ~Unread(w)' /\ \A j : ~Fresh(w, j)
        /\ \A j : Replied(w, j) <=> j = i
    BY <1>0, <1>1, <1>2 DEF Unread, Replied, Fresh, RequestKind
  <1>5. \A v \in Task \ {w} : \A kind, j :
          /\ Asked(v, kind, j)' <=> Asked(v, kind, j)
          /\ Replied(v, j)' <=> Replied(v, j)
          /\ Fresh(v, j)' <=> Fresh(v, j)
    BY <1>1, <1>2, OthersWait
  <1>6. \A kind, j : Asked(w, kind, j) => Asked(w, kind, j)'
    BY <1>1, <1>4, AppliedWaits
  <1>7. EntriesAwaitAnswers'
    <2>1. ASSUME NEW j \in DOMAIN requestTurn, j # i
          PROVE  \E v \in Task :
                   Asked(v, "session/prompt", j)' \/ Replied(v, j)'
      BY <1>4, <1>5, <1>6, <2>1 DEF Tracking, EntriesAwaitAnswers
    <2>2. ASSUME NEW j \in pendingNew
          PROVE  \E v \in Task :
                   Asked(v, "session/new", j)' \/ Replied(v, j)'
      BY <1>1, <1>4, <1>5, <1>6 DEF Tracking, EntriesAwaitAnswers
    <2>3. QED
      BY <1>1, <2>1, <2>2 DEF Tracking, EntriesAwaitAnswers
  <1>8. RowsNameRequests'
    BY <1>1 DEF Tracking, RowsNameRequests
  <1>9. InsertersAreMapped'
    <2> SUFFICES ASSUME NEW v \in Task, task'[v].pc = "insert_turn"
                 PROVE  /\ Msg(v)'.id \in DOMAIN requestTurn'
                        /\ requestTurn'[Msg(v)'.id] = task'[v].turn
      BY DEF InsertersAreMapped
    <2>1. v # w /\ task'[v] = task[v]
      BY <1>2
    <2>2. Msg(v).id # i
      BY <1>3, <2>1 DEF Conversation, InHand, RequestKind
    <2>3. QED
      BY <1>1, <2>1, <2>2 DEF Tracking, InsertersAreMapped, Msg
  <1>10. PromptsHaveTurns'
    <2> SUFFICES ASSUME NEW v \in Task, NEW q \in outstanding[v],
                        q.kind = "session/prompt", ~Fresh(v, q.id)'
                 PROVE  HasTurn(v, q)'
      BY <1>1 DEF PromptsHaveTurns
    <2>1. HasTurn(v, q)
      BY <1>4, <1>5 DEF Tracking, PromptsHaveTurns
    <2>2. QED
      BY <1>1, <1>2, <1>3, <2>1 DEF HasTurn, Msg
  <1>11. ActiveTurnsHeld'
    <2>1. \A u \in Image(requestTurn) : u # t => u \in Image(requestTurn')
      BY <1>0, <1>1 DEF Image
    <2>2. QED
      BY <1>1, <1>2, <2>1 DEF Tracking, ActiveTurnsHeld
  <1>12. QED
    BY <1>7, <1>8, <1>9, <1>10, <1>11 DEF Tracking

\* The outcome of a turn changes neither its request nor its session.
LEMMA FinishTurnTracking ==
    ASSUME UniqueIds, TypeOK, Conversation, Tracking, NEW w \in Task,
           FinishTurn(w)
    PROVE  Tracking'
  <1>0. PICK t : t = task[w].turn
    OBVIOUS
  <1>1. /\ UNCHANGED <<requestTurn, pendingNew, outstanding>>
        /\ task[w].pc = "finish_turn"
        /\ DOMAIN turns' = DOMAIN turns
    BY DEF FinishTurn, correlation, wire
  <1>2. \A u \in DOMAIN turns : /\ turns'[u].request = turns[u].request
                                /\ turns'[u].session = turns[u].session
                                /\ u # t => turns'[u] = turns[u]
                                /\ u = t => turns'[u].state # "active"
    BY <1>0 DEF FinishTurn, TypeOK, TurnRow
  <1>3. /\ \A v \in Task \ {w} : task'[v] = task[v]
        /\ task'[w].pc = "notify"
    BY TaskFrame, StepGoes DEF Apply, FinishTurn
  <1>4. \A v \in Task : \A kind, j :
          /\ Asked(v, kind, j)' <=> Asked(v, kind, j)
          /\ Replied(v, j)' <=> Replied(v, j)
          /\ Fresh(v, j)' <=> Fresh(v, j)
    <2>1. \A kind, j : /\ Asked(w, kind, j)' <=> Asked(w, kind, j)
                       /\ Replied(w, j)' <=> Replied(w, j)
                       /\ Fresh(w, j)' <=> Fresh(w, j)
      BY <1>1, <1>3 DEF Asked, Replied, Fresh, Unread
    <2>2. QED
      BY <1>1, <1>3, <2>1, OthersWait
  <1>5. EntriesAwaitAnswers'
    BY <1>1, <1>4 DEF Tracking, EntriesAwaitAnswers
  <1>6. RowsNameRequests'
    BY <1>1, <1>2 DEF Tracking, RowsNameRequests
  <1>7. InsertersAreMapped'
    BY <1>1, <1>3 DEF Tracking, InsertersAreMapped, Msg
  <1>8. PromptsHaveTurns'
    <2> SUFFICES ASSUME NEW v \in Task, NEW q \in outstanding[v],
                        q.kind = "session/prompt", ~Fresh(v, q.id)'
                 PROVE  HasTurn(v, q)'
      BY <1>1 DEF PromptsHaveTurns
    <2>1. HasTurn(v, q)
      BY <1>4 DEF Tracking, PromptsHaveTurns
    <2>2. QED
      BY <1>1, <1>2, <1>3, <2>1 DEF HasTurn, Msg
  <1>9. ActiveTurnsHeld'
    BY <1>0, <1>1, <1>2, <1>3 DEF Tracking, ActiveTurnsHeld
  <1>10. QED
    BY <1>5, <1>6, <1>7, <1>8, <1>9 DEF Tracking

LEMMA NextTracking ==
    UniqueIds /\ TypeOK /\ OutcomeInv /\ Conversation /\ Tracking /\ [Next]_vars
      => Tracking'
  <1>1. Tracking /\ UNCHANGED vars => Tracking'
    BY DEF vars, correlation, collections, wire, Tracking, EntriesAwaitAnswers,
           RowsNameRequests, InsertersAreMapped, PromptsHaveTurns, HasTurn,
           ActiveTurnsHeld, Asked, Replied, Fresh, Unread, Msg
  <1>2. QED
    BY <1>1, ObserveTracking, DeliverTracking, QuietTracking,
       BeginSessionNewTracking, BeginPromptTracking, InsertTurnTracking,
       EndSessionNewTracking, EndPromptTracking, FinishTurnTracking
       DEF Next, Apply

\* Everything the tracking needs, as one inductive invariant.
TrackingInv == TypeOK /\ OutcomeInv /\ Conversation /\ Tracking

LEMMA TrackingInvariant ==
    ASSUME UniqueIds
    PROVE  Spec => []TrackingInv
  <1>1. Init => TrackingInv
    BY InitType, InitOutcome, InitConversation, InitTracking DEF TrackingInv
  <1>2. TrackingInv /\ [Next]_vars => TrackingInv'
    BY NextType, NextOutcome, NextConversation, NextTracking DEF TrackingInv
  <1>3. QED
    BY <1>1, <1>2, PTL DEF Spec

(* As long as no two parties choose the same request id, each unanswered   *)
(* prompt of a conversation is tracked between two messages: the map leads *)
(* to its active row, with its session and its request, however many tasks *)
(* interleave and whatever else they apply (handle_trace_request,          *)
(* handle_trace_response).                                                 *)
THEOREM PromptsStayTracked ==
    ASSUME UniqueIds
    PROVE  Spec => []PromptsTracked
  <1>1. TrackingInv => PromptsTracked
    <2> SUFFICES ASSUME TrackingInv, NEW w \in Task, task[w].pc = "idle",
                        NEW r \in outstanding[w], r.kind = "session/prompt"
                 PROVE  /\ r.id \in DOMAIN requestTurn
                        /\ requestTurn[r.id] \in DOMAIN turns
                        /\ turns[requestTurn[r.id]].state = "active"
                        /\ turns[requestTurn[r.id]].session = r.session
                        /\ turns[requestTurn[r.id]].request = r.id
      BY DEF PromptsTracked
    <2>1. ~Fresh(w, r.id)
      BY DEF Fresh, Unread
    <2>2. HasTurn(w, r)
      BY <2>1 DEF TrackingInv, Tracking, PromptsHaveTurns
    <2>3. QED
      BY <2>2 DEF HasTurn, TrackingInv, Tracking, RowsNameRequests, OutcomeInv,
         CorrelationOwnsTurns
  <1>2. QED
    BY <1>1, TrackingInvariant, PTL

(* No row stays active for ever for want of an answer: an active turn has  *)
(* one to come, on the wire or in the hands of a task.                     *)
THEOREM ActiveTurnsStayAnswerable ==
    ASSUME UniqueIds
    PROVE  Spec => []ActiveTurnsAnswerable
  <1>1. TrackingInv => ActiveTurnsAnswerable
    <2> SUFFICES ASSUME TrackingInv, NEW t \in DOMAIN turns,
                        turns[t].state = "active"
                 PROVE  Answerable(t)
      BY DEF ActiveTurnsAnswerable
    <2>1. CASE t \in Image(requestTurn)
      <3>1. PICK i \in DOMAIN requestTurn : requestTurn[i] = t
        BY <2>1 DEF Image
      <3>2. turns[t].request = i
        BY <3>1 DEF TrackingInv, Tracking, RowsNameRequests
      <3>3. PICK w \in Task : Asked(w, "session/prompt", i) \/ Replied(w, i)
        BY DEF TrackingInv, Tracking, EntriesAwaitAnswers
      <3>4. QED
        BY <3>2, <3>3 DEF Answerable, Asked, Replied, Unread
    <2>2. CASE \E w \in Task : task[w].pc = "finish_turn" /\ task[w].turn = t
      BY <2>2 DEF Answerable
    <2>3. QED
      BY <2>1, <2>2 DEF TrackingInv, Tracking, ActiveTurnsHeld
  <1>2. QED
    BY <1>1, TrackingInvariant, PTL
=============================================================================

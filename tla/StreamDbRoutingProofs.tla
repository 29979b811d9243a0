----------------------- MODULE StreamDbRoutingProofs ------------------------
(* Where the updates of a session go: the correlation maps hold nothing of *)
(* an answered request, the chunks of a turn are numbered in order, and    *)
(* updates reach the turn of the unanswered prompt of their session.       *)
EXTENDS StreamDbTrackingProofs

-----------------------------------------------------------------------------
(* The sessions and the updates in hand lead to turns that are mapped, and *)
(* mapped by an id of their own conversation.                              *)

OwnTurn(w, t) == \E i \in OwnIds(w) \cap DOMAIN requestTurn : requestTurn[i] = t

UpdateSection == {"number_chunk", "insert_chunk"}

Routing ==
    /\ \A s \in DOMAIN activeTurn :
         \E w \in Task : s \in established[w] /\ OwnTurn(w, activeTurn[s])
    /\ \A w \in Task : task[w].pc \in UpdateSection => OwnTurn(w, task[w].turn)
    /\ DOMAIN chunkSeq \subseteq Image(requestTurn)

\* Two conversations never lead to the same turn.
LEMMA OwnTurnUnique ==
    ASSUME UniqueIds, OutcomeInv, NEW v \in Task, NEW w \in Task, NEW t,
           OwnTurn(v, t), OwnTurn(w, t)
    PROVE  v = w
  <1>1. PICK i \in OwnIds(v) \cap DOMAIN requestTurn : requestTurn[i] = t
    BY DEF OwnTurn
  <1>2. PICK j \in OwnIds(w) \cap DOMAIN requestTurn : requestTurn[j] = t
    BY DEF OwnTurn
  <1>3. i = j
    BY <1>1, <1>2 DEF OutcomeInv, CorrelationOwnsTurns
  <1>4. QED
    BY <1>3, OwnIdsDisjoint

LEMMA OwnTurnMapped ==
    ASSUME TypeOK, OutcomeInv, NEW w \in Task, NEW t, OwnTurn(w, t)
    PROVE  t \in Image(requestTurn) /\ t \in Turn /\ t <= turnCounter
  BY DEF OwnTurn, Image, OutcomeInv, CorrelationOwnsTurns, TypeOK

\* Which sections write what routes the updates, the chunks, or the section
\* of a task that handles one.
LEMMA RoutingWriters ==
    ASSUME TypeOK, NEW w \in Task, Apply(w)
    PROVE  \/ BeginPrompt(w) \/ EndPrompt(w)
           \/ FindTurn(w) \/ NumberChunk(w) \/ InsertChunk(w)
           \/ /\ UNCHANGED <<requestTurn, activeTurn, chunkSeq, turnCounter,
                             chunks>>
              /\ task[w].pc \notin UpdateSection
              /\ task'[w].pc \notin UpdateSection
              /\ ~Applying(w, "session/prompt")
  <1> SUFFICES ASSUME \/ BeginSessionNew(w) \/ UpdateCwd(w) \/ InsertTurn(w)
                      \/ IgnoreRequest(w) \/ EndSessionNew(w) \/ Attach(w)
                      \/ FinishTurn(w) \/ IgnoreResponse(w)
                      \/ IgnoreNotification(w) \/ Notify(w)
               PROVE  /\ UNCHANGED <<requestTurn, activeTurn, chunkSeq,
                                     turnCounter, chunks>>
                      /\ task[w].pc \notin UpdateSection
                      /\ task'[w].pc \notin UpdateSection
                      /\ ~Applying(w, "session/prompt")
    BY DEF Apply
  <1>1. /\ UNCHANGED <<requestTurn, activeTurn, chunkSeq, turnCounter, chunks>>
        /\ task[w].pc \notin UpdateSection
        /\ ~Applying(w, "session/prompt")
    BY DEF BeginSessionNew, UpdateCwd, InsertTurn, IgnoreRequest,
           EndSessionNew, Attach, FinishTurn, IgnoreResponse,
           IgnoreNotification, Notify, Applying, UpdateSection, correlation,
           collections
  <1>2. task'[w].pc \notin UpdateSection
    BY StepGoes DEF BeginSessionNew, UpdateCwd, InsertTurn, IgnoreRequest,
       EndSessionNew, Attach, FinishTurn, IgnoreResponse, IgnoreNotification,
       Notify, UpdateSection
  <1>3. QED
    BY <1>1, <1>2

LEMMA InitRouting == Init => Routing
  BY DEF Init, Routing, EmptyMap, IdleTask, UpdateSection, Image

LEMMA RoutingFrame ==
    ASSUME Routing, NEW w \in Task,
           UNCHANGED <<requestTurn, activeTurn, chunkSeq>>,
           \A v \in Task : established[v] \subseteq established'[v],
           \A v \in Task \ {w} : task'[v] = task[v],
           task'[w].pc \notin UpdateSection
    PROVE  Routing'
  <1>1. \A v \in Task : \A t : OwnTurn(v, t)' <=> OwnTurn(v, t)
    BY DEF OwnTurn, OwnIds
  <1>2. QED
    BY <1>1 DEF Routing

LEMMA ObserveRouting ==
    ASSUME TypeOK, Routing, NEW w \in Task, Observe(w)
    PROVE  Routing'
  <1>1. PICK m : /\ task'[w].pc = "append"
                 /\ Asking(w, m) \/ Answering(w, m) \/ Notifying(w, m)
    BY ObserveStep
  <1>2. \A v \in Task : established[v] \subseteq established'[v]
    BY <1>1 DEF Asking, Answering, Notifying, wire, TypeOK
  <1>3. QED
    BY <1>1, <1>2, ObserveStep, RoutingFrame DEF correlation, UpdateSection

LEMMA DeliverRouting ==
    ASSUME TypeOK, Routing, NEW w \in Task, Deliver(w)
    PROVE  Routing'
  <1>1. task'[w].pc = "apply"
    BY DEF Deliver, TypeOK, TaskState
  <1>2. QED
    BY <1>1, TaskFrame, RoutingFrame DEF Deliver, correlation, wire,
       UpdateSection

\* The new turn belongs to the conversation of its prompt.
LEMMA BeginPromptRouting ==
    ASSUME UniqueIds, TypeOK, Conversation, Tracking, Routing, NEW w \in Task,
           BeginPrompt(w)
    PROVE  Routing'
  <1>0. PICK i, s, t : i = Msg(w).id /\ s = Msg(w).session /\ t = turnCounter'
    OBVIOUS
  <1>1. /\ requestTurn' = Put(requestTurn, i, t)
        /\ activeTurn' = Put(activeTurn, s, t)
        /\ chunkSeq' = chunkSeq /\ established' = established
        /\ task[w].pc = "apply" /\ Msg(w).kind = "session/prompt"
    BY <1>0 DEF BeginPrompt, TrackPrompt, Applying, wire
  <1>2. /\ \A v \in Task \ {w} : task'[v] = task[v]
        /\ task'[w].pc = "insert_turn"
    <2>1. task \in [Task -> TaskState]
      BY DEF TypeOK
    <2>2. Become(w, [task[w] EXCEPT !.pc = "insert_turn", !.turn = turnCounter',
                                    !.connection = connectionId])
      BY DEF BeginPrompt, TrackPrompt
    <2>3. QED
      BY <2>1, <2>2, TaskFrame DEF Apply, Become, TaskState
  <1>3. i \notin DOMAIN requestTurn /\ i \in OwnIds(w)
    BY <1>0, <1>1, FreshInHand, IdInHand DEF RequestKind
  <1>4. s \in established[w]
    BY <1>0, <1>1 DEF Conversation, InHand, Wired, RequestKind
  <1>5. /\ DOMAIN requestTurn' = DOMAIN requestTurn \cup {i}
        /\ requestTurn'[i] = t
        /\ \A j \in DOMAIN requestTurn : requestTurn'[j] = requestTurn[j]
    BY <1>1, <1>3 DEF Put
  <1>6. \A v \in Task : \A u : OwnTurn(v, u) => OwnTurn(v, u)'
    BY <1>5 DEF OwnTurn, OwnIds
  <1>7. OwnTurn(w, t)'
    BY <1>3, <1>5 DEF OwnTurn, OwnIds
  <1>8. ASSUME NEW x \in DOMAIN activeTurn'
        PROVE  \E v \in Task : x \in established[v] /\ OwnTurn(v, activeTurn[x])'
    <2>1. CASE x = s
      BY <1>1, <1>4, <1>7, <2>1 DEF Put
    <2>2. CASE x # s
      <3>1. x \in DOMAIN activeTurn /\ activeTurn'[x] = activeTurn[x]
        BY <1>1, <2>2 DEF Put
      <3>2. QED
        BY <1>6, <3>1 DEF Routing
    <2>3. QED
      BY <2>1, <2>2
  <1>9. DOMAIN chunkSeq \subseteq Image(requestTurn')
    BY <1>5 DEF Routing, Image
  <1>10. \A v \in Task : task'[v].pc \in UpdateSection
                           => OwnTurn(v, task[v].turn)'
    BY <1>2, <1>6 DEF Routing, UpdateSection
  <1>11. QED
    BY <1>1, <1>8, <1>9, <1>10 DEF Routing

\* No other conversation holds the turn that ends.
LEMMA EndPromptAlone ==
    ASSUME UniqueIds, TypeOK, OutcomeInv, Conversation, Tracking, NEW w \in Task,
           EndPrompt(w)
    PROVE  /\ OwnTurn(w, requestTurn[Msg(w).id])
           /\ \A v \in Task : \A r \in outstanding[v] :
                /\ r.id # Msg(w).id
                /\ r.id \in DOMAIN requestTurn
                     => requestTurn[r.id] # requestTurn[Msg(w).id]
  <1>1. /\ Msg(w).id \in DOMAIN requestTurn
        /\ task[w].pc = "apply" /\ Msg(w).kind = "response"
    BY DEF EndPrompt, AnswersPrompt, Applying
  <1>2. Msg(w).id \in OwnIds(w)
    BY <1>1, IdInHand
  <1>3. ASSUME NEW v \in Task, NEW r \in outstanding[v], r.id = Msg(w).id
        PROVE  FALSE
    <2>1. v = w
      BY <1>2, <1>3, OutstandingId, OwnIdsDisjoint
    <2>2. QED
      BY <1>1, <1>3, <2>1 DEF Conversation, InHand
  <1>4. \A j \in DOMAIN requestTurn :
          requestTurn[j] = requestTurn[Msg(w).id] => j = Msg(w).id
    BY <1>1 DEF OutcomeInv, CorrelationOwnsTurns
  <1>5. QED
    BY <1>1, <1>2, <1>3, <1>4 DEF OwnTurn

\* The maps let go of the turn that ends together.
LEMMA EndPromptRouting ==
    ASSUME UniqueIds, TypeOK, OutcomeInv, Conversation, Tracking, Routing,
           NEW w \in Task, EndPrompt(w)
    PROVE  Routing'
  <1>0. PICK i, t : i = Msg(w).id /\ t = requestTurn[Msg(w).id]
    OBVIOUS
  <1>1. /\ i \in DOMAIN requestTurn
        /\ DOMAIN requestTurn' = DOMAIN requestTurn \ {i}
        /\ \A j \in DOMAIN requestTurn' : requestTurn'[j] = requestTurn[j]
        /\ DOMAIN activeTurn' = DOMAIN activeTurn \ ActiveAs(t)
        /\ \A s \in DOMAIN activeTurn' : activeTurn'[s] = activeTurn[s]
        /\ DOMAIN chunkSeq' = DOMAIN chunkSeq \ {t}
        /\ established' = established
    BY <1>0 DEF EndPrompt, AnswersPrompt, Forget, Without, wire
  <1>2. /\ \A v \in Task \ {w} : task'[v] = task[v]
        /\ task'[w].pc \notin UpdateSection
    BY TaskFrame, StepGoes DEF Apply, EndPrompt, Forget, UpdateSection
  <1>3. \A v \in Task : \A u : OwnTurn(v, u) /\ u # t => OwnTurn(v, u)'
    BY <1>0, <1>1 DEF OwnTurn, OwnIds
  <1>4. \A s \in DOMAIN activeTurn' :
          \E v \in Task : s \in established'[v] /\ OwnTurn(v, activeTurn[s])'
    <2> SUFFICES ASSUME NEW s \in DOMAIN activeTurn'
                 PROVE  \E v \in Task :
                          s \in established'[v] /\ OwnTurn(v, activeTurn[s])'
      OBVIOUS
    <2>1. s \in DOMAIN activeTurn /\ activeTurn[s] # t
      BY <1>1 DEF ActiveAs
    <2>2. PICK v \in Task : s \in established[v] /\ OwnTurn(v, activeTurn[s])
      BY <2>1 DEF Routing
    <2>3. QED
      BY <1>1, <1>3, <2>1, <2>2
  <1>5. \A v \in Task : task'[v].pc \in UpdateSection
                          => OwnTurn(v, task[v].turn)'
    <2> SUFFICES ASSUME NEW v \in Task, task'[v].pc \in UpdateSection
                 PROVE  OwnTurn(v, task[v].turn)'
      OBVIOUS
    <2>1. v # w /\ task'[v] = task[v] /\ OwnTurn(v, task[v].turn)
      BY <1>2 DEF Routing
    <2>2. task[v].turn # t
      BY <1>0, <2>1, EndPromptAlone, OwnTurnUnique
    <2>3. QED
      BY <1>3, <2>1, <2>2
  <1>6. DOMAIN chunkSeq' \subseteq Image(requestTurn')
    <2>1. Image(requestTurn) \ {t} \subseteq Image(requestTurn')
      BY <1>0, <1>1 DEF Image
    <2>2. QED
      BY <1>1, <2>1 DEF Routing
  <1>7. QED
    BY <1>4, <1>5, <1>6 DEF Routing

\* The session of an update leads to a turn of the same conversation.
LEMMA FindTurnRouting ==
    ASSUME TypeOK, Conversation, Routing, NEW w \in Task, FindTurn(w)
    PROVE  Routing'
  <1>1. /\ UNCHANGED <<requestTurn, activeTurn, chunkSeq, established>>
        /\ task[w].pc = "apply" /\ Msg(w).kind = "session/update"
    BY DEF FindTurn, Applying, correlation, wire
  <1>2. \A v \in Task \ {w} : task'[v] = task[v]
    BY TaskFrame DEF Apply
  <1>3. CASE Return(w)
    BY <1>1, <1>2, <1>3, StepGoes, RoutingFrame DEF UpdateSection
  <1>4. CASE /\ Msg(w).session \in DOMAIN activeTurn
             /\ Become(w, [task[w] EXCEPT !.pc = "number_chunk",
                                   !.turn = activeTurn[Msg(w).session]])
    <2>1. PICK s : s = Msg(w).session
      OBVIOUS
    <2>2. task'[w].turn = activeTurn[s]
      BY <1>4, <2>1 DEF Become, TypeOK, TaskState
    <2>3. s \in established[w]
      BY <1>1, <2>1 DEF Conversation, InHand
    <2>4. PICK v \in Task : s \in established[v] /\ OwnTurn(v, activeTurn[s])
      BY <1>4, <2>1 DEF Routing
    <2>5. v = w
      BY <2>3, <2>4 DEF Conversation, Wired
    <2>6. \A u \in Task : \A t : OwnTurn(u, t)' <=> OwnTurn(u, t)
      BY <1>1 DEF OwnTurn, OwnIds
    <2>7. OwnTurn(w, task[w].turn)'
      BY <2>2, <2>4, <2>5, <2>6
    <2>8. QED
      BY <1>1, <1>2, <2>6, <2>7 DEF Routing
  <1>5. QED
    BY <1>3, <1>4 DEF FindTurn

LEMMA NumberChunkRouting ==
    ASSUME TypeOK, OutcomeInv, Routing, NEW w \in Task, NumberChunk(w)
    PROVE  Routing'
  <1>1. /\ UNCHANGED <<requestTurn, activeTurn, established>>
        /\ task[w].pc = "number_chunk"
        /\ DOMAIN chunkSeq' = DOMAIN chunkSeq \cup {task[w].turn}
    BY DEF NumberChunk, Put, wire
  <1>2. /\ \A v \in Task \ {w} : task'[v] = task[v]
        /\ task'[w].turn = task[w].turn
    BY TaskFrame DEF Apply, NumberChunk, Become, TypeOK, TaskState
  <1>3. OwnTurn(w, task[w].turn)
    BY <1>1 DEF Routing, UpdateSection
  <1>4. task[w].turn \in Image(requestTurn)
    BY <1>3, OwnTurnMapped
  <1>5. \A u \in Task : \A t : OwnTurn(u, t)' <=> OwnTurn(u, t)
    BY <1>1 DEF OwnTurn, OwnIds
  <1>6. QED
    BY <1>1, <1>2, <1>3, <1>4, <1>5 DEF Routing

LEMMA InsertChunkRouting ==
    ASSUME TypeOK, Routing, NEW w \in Task, InsertChunk(w)
    PROVE  Routing'
  <1>1. UNCHANGED <<requestTurn, activeTurn, chunkSeq, established>>
    BY DEF InsertChunk, correlation, wire
  <1>2. /\ \A v \in Task \ {w} : task'[v] = task[v]
        /\ task'[w].pc = "notify"
    BY TaskFrame, StepGoes DEF Apply, InsertChunk
  <1>3. QED
    BY <1>1, <1>2, RoutingFrame DEF UpdateSection

LEMMA NextRouting ==
    UniqueIds /\ TrackingInv /\ Routing /\ [Next]_vars => Routing'
  <1>1. Routing /\ UNCHANGED vars => Routing'
    BY DEF vars, correlation, wire, Routing, OwnTurn, OwnIds, Image
  <1>2. ASSUME UniqueIds, TrackingInv, Routing, NEW w \in Task, Apply(w)
        PROVE  Routing'
    <2>1. ASSUME UNCHANGED <<requestTurn, activeTurn, chunkSeq>>,
                 task'[w].pc \notin UpdateSection
          PROVE  Routing'
      BY <1>2, <2>1, HandStep, RoutingFrame DEF wire, TrackingInv
    <2>2. QED
      BY <1>2, <2>1, RoutingWriters, BeginPromptRouting, EndPromptRouting,
         FindTurnRouting, NumberChunkRouting, InsertChunkRouting
         DEF TrackingInv
  <1>3. QED
    BY <1>1, <1>2, ObserveRouting, DeliverRouting DEF Next, TrackingInv

(* The correlation maps do not grow: as long as no two parties choose the  *)
(* same request id, whenever no message is in flight every entry belongs   *)
(* to a request without an answer, and every active session and chunk      *)
(* counter to a turn of such a request.                                    *)
THEOREM NoResidueRemains ==
    ASSUME UniqueIds
    PROVE  Spec => []NoResidue
  <1>1. TrackingInv /\ Routing => NoResidue
    <2> SUFFICES ASSUME TrackingInv, Routing, \A w \in Task : task[w].pc = "idle"
                 PROVE  NoResidue
      BY DEF NoResidue
    <2> DEFINE waiting(kind) == {r.id : r \in {x \in UNION Image(outstanding) :
                                                 x.kind = kind}}
    <2>1. ASSUME NEW w \in Task, NEW kind, NEW i,
                 Asked(w, kind, i) \/ Replied(w, i)
          PROVE  i \in waiting(kind)
      <3>1. PICK r \in outstanding[w] : r.kind = kind /\ r.id = i
        BY <2>1 DEF Asked, Replied, Unread
      <3>2. r \in UNION Image(outstanding)
        BY <3>1 DEF Image, TrackingInv, TypeOK
      <3>3. QED
        BY <3>1, <3>2
    <2> HIDE DEF waiting
    <2>2. /\ DOMAIN requestTurn \subseteq waiting("session/prompt")
          /\ pendingNew \subseteq waiting("session/new")
      BY <2>1 DEF TrackingInv, Tracking, EntriesAwaitAnswers
    <2>3. Image(activeTurn) \subseteq Image(requestTurn)
      BY OwnTurnMapped DEF Routing, Image, TrackingInv
    <2>4. QED
      BY <2>2, <2>3 DEF NoResidue, Routing, waiting
  <1>2. UniqueIds /\ TrackingInv /\ Routing /\ [Next]_vars => Routing'
    BY NextRouting
  <1>3. QED
    BY <1>1, <1>2, InitRouting, TrackingInvariant, PTL DEF Spec

-----------------------------------------------------------------------------
(* The chunks of a turn: the counter of a mapped turn says how many chunks *)
(* the turn has, but for the one a task is about to insert.                *)

ChunksOf(t)  == {j \in DOMAIN chunks : chunks[j].turn = t}
Numbered(t)  == IF t \in DOMAIN chunkSeq THEN chunkSeq[t] ELSE 0
Inserts(w, t) == task[w].pc = "insert_chunk" /\ task[w].turn = t

Counting ==
    /\ \A j \in DOMAIN chunks : chunks[j].turn <= turnCounter
    /\ \A w \in Task, t \in Turn : Inserts(w, t) =>
         /\ task[w].seq = Cardinality(ChunksOf(t))
         /\ t \in DOMAIN chunkSeq /\ chunkSeq[t] = task[w].seq + 1
    /\ \A t \in Image(requestTurn) :
         (\A w \in Task : ~Inserts(w, t))
           => Cardinality(ChunksOf(t)) = Numbered(t)
    /\ ChunksNumberedInOrder

LEMMA ChunksOfFinite ==
    ASSUME TypeOK, NEW t
    PROVE  /\ IsFiniteSet(ChunksOf(t))
           /\ Cardinality(ChunksOf(t)) \in Nat
  <1>1. DOMAIN chunks = 1..Len(chunks) /\ Len(chunks) \in Nat
    BY DEF TypeOK
  <1>2. IsFiniteSet(1..Len(chunks))
    BY <1>1, FS_Interval
  <1>3. ChunksOf(t) \subseteq 1..Len(chunks)
    BY <1>1 DEF ChunksOf
  <1>4. QED
    BY <1>2, <1>3, FS_Subset, FS_CardinalityType

LEMMA InitCounting == Init => Counting
  BY DEF Init, Counting, ChunksNumberedInOrder, Inserts, IdleTask, EmptyMap,
         Image

\* The steps that number and insert nothing
LEMMA CountingFrame ==
    ASSUME Counting, NEW w \in Task,
           UNCHANGED <<requestTurn, chunkSeq, turnCounter, chunks>>,
           \A v \in Task \ {w} : task'[v] = task[v],
           task[w].pc # "insert_chunk", task'[w].pc # "insert_chunk"
    PROVE  Counting'
  <1>1. \A v \in Task : \A t : Inserts(v, t)' <=> Inserts(v, t)
    BY DEF Inserts
  <1>2. \A v \in Task : \A t : Inserts(v, t) => v # w /\ task'[v] = task[v]
    BY DEF Inserts
  <1>3. \A t : ChunksOf(t)' = ChunksOf(t) /\ Numbered(t)' = Numbered(t)
    BY DEF ChunksOf, Numbered
  <1>4. ChunksNumberedInOrder'
    BY DEF Counting, ChunksNumberedInOrder
  <1>5. QED
    BY <1>1, <1>2, <1>3, <1>4 DEF Counting

\* A new turn has neither chunks nor a counter.
LEMMA BeginPromptCounting ==
    ASSUME UniqueIds, TrackingInv, Routing, Counting, NEW w \in Task,
           BeginPrompt(w)
    PROVE  Counting'
  <1> USE DEF TrackingInv
  <1>0. PICK i, t : i = Msg(w).id /\ t = turnCounter'
    OBVIOUS
  <1>1. /\ requestTurn' = Put(requestTurn, i, t)
        /\ t = turnCounter + 1 /\ turnCounter' = t /\ turnCounter \in Nat
        /\ chunkSeq' = chunkSeq /\ chunks' = chunks
        /\ task[w].pc = "apply"
    BY <1>0 DEF BeginPrompt, TrackPrompt, Applying, collections, TypeOK
  <1>2. \A v \in Task \ {w} : task'[v] = task[v]
    BY TaskFrame DEF Apply
  <1>3. task'[w].pc # "insert_chunk"
    BY <1>1, HandStep DEF Apply
  <1>4. \A v \in Task : \A u : Inserts(v, u)' <=> Inserts(v, u)
    BY <1>1, <1>2, <1>3 DEF Inserts
  <1>5. \A v \in Task : \A u : Inserts(v, u) => v # w /\ task'[v] = task[v]
    BY <1>1, <1>2 DEF Inserts
  <1>6. \A u : ChunksOf(u)' = ChunksOf(u) /\ Numbered(u)' = Numbered(u)
    BY <1>1 DEF ChunksOf, Numbered
  <1>7. Image(requestTurn') \subseteq Image(requestTurn) \cup {t}
    BY <1>1 DEF Image, Put
  <1>8. \A j \in DOMAIN chunks : chunks[j].turn \in Nat
    <2>1. chunks \in Seq(ChunkRow)
      BY DEF TypeOK
    <2>2. \A j \in DOMAIN chunks : chunks[j] \in ChunkRow
      BY <2>1
    <2>3. QED
      BY <2>2 DEF ChunkRow, Turn
  <1>9. Cardinality(ChunksOf(t)) = 0
    <2>1. ChunksOf(t) = {}
      BY <1>1, <1>8 DEF ChunksOf, Counting
    <2>2. QED
      BY <2>1, FS_EmptySet
  <1>10. Numbered(t) = 0
    <2>1. \A u \in Image(requestTurn) : u <= turnCounter /\ u \in Nat
      BY DEF Image, OutcomeInv, CorrelationOwnsTurns, TypeOK, Turn
    <2>2. t \notin DOMAIN chunkSeq
      BY <1>1, <2>1 DEF Routing
    <2>3. QED
      BY <2>2 DEF Numbered
  <1>11. \A j \in DOMAIN chunks : chunks[j].turn <= t
    BY <1>1, <1>8 DEF Counting
  <1>12. ChunksNumberedInOrder'
    BY <1>1 DEF Counting, ChunksNumberedInOrder
  <1>13. \A u \in Image(requestTurn') :
           (\A v \in Task : ~Inserts(v, u)')
             => Cardinality(ChunksOf(u))' = Numbered(u)'
    BY <1>4, <1>6, <1>7, <1>9, <1>10 DEF Counting
  <1>14. \A v \in Task, u \in Turn : Inserts(v, u)' =>
           /\ task'[v].seq = Cardinality(ChunksOf(u))'
           /\ u \in DOMAIN chunkSeq' /\ chunkSeq'[u] = task'[v].seq + 1
    BY <1>1, <1>4, <1>5, <1>6 DEF Counting
  <1>15. QED
    BY <1>1, <1>11, <1>12, <1>13, <1>14 DEF Counting

\* The counter that is forgotten is nobody's: no task inserts a chunk of the
\* turn that ends.
LEMMA EndPromptCounting ==
    ASSUME UniqueIds, TrackingInv, Routing, Counting, NEW w \in Task,
           EndPrompt(w)
    PROVE  Counting'
  <1> USE DEF TrackingInv
  <1>0. PICK i, t : i = Msg(w).id /\ t = requestTurn[Msg(w).id]
    OBVIOUS
  <1>1. /\ i \in DOMAIN requestTurn
        /\ DOMAIN requestTurn' = DOMAIN requestTurn \ {i}
        /\ \A j \in DOMAIN requestTurn' : requestTurn'[j] = requestTurn[j]
        /\ DOMAIN chunkSeq' = DOMAIN chunkSeq \ {t}
        /\ \A u \in DOMAIN chunkSeq' : chunkSeq'[u] = chunkSeq[u]
        /\ turnCounter' = turnCounter /\ chunks' = chunks
        /\ task[w].pc = "apply"
    BY <1>0 DEF EndPrompt, AnswersPrompt, Forget, Without, Applying, collections
  <1>2. \A v \in Task \ {w} : task'[v] = task[v]
    BY TaskFrame DEF Apply
  <1>3. task'[w].pc # "insert_chunk"
    BY <1>1, HandStep DEF Apply
  <1>4. \A v \in Task : \A u : Inserts(v, u)' <=> Inserts(v, u)
    BY <1>1, <1>2, <1>3 DEF Inserts
  <1>5. \A v \in Task : \A u : Inserts(v, u) => v # w /\ task'[v] = task[v]
    BY <1>1, <1>2 DEF Inserts
  <1>6. \A v \in Task : ~Inserts(v, t)
    <2> SUFFICES ASSUME NEW v \in Task, Inserts(v, t)
                 PROVE  FALSE
      OBVIOUS
    <2>1. OwnTurn(v, t)
      BY DEF Inserts, Routing, UpdateSection
    <2>2. OwnTurn(w, t)
      BY <1>0, EndPromptAlone
    <2>3. QED
      BY <1>5, <2>1, <2>2, OwnTurnUnique
  <1>7. \A u : /\ ChunksOf(u)' = ChunksOf(u)
               /\ u # t => Numbered(u)' = Numbered(u)
    BY <1>1 DEF ChunksOf, Numbered
  <1>8. Image(requestTurn') \subseteq Image(requestTurn) \ {t}
    BY <1>0, <1>1 DEF Image, OutcomeInv, CorrelationOwnsTurns
  <1>9. ChunksNumberedInOrder'
    BY <1>1 DEF Counting, ChunksNumberedInOrder
  <1>10. \A u \in Image(requestTurn') :
           (\A v \in Task : ~Inserts(v, u)')
             => Cardinality(ChunksOf(u))' = Numbered(u)'
    BY <1>4, <1>7, <1>8 DEF Counting
  <1>11. \A v \in Task, u \in Turn : Inserts(v, u)' =>
           /\ task'[v].seq = Cardinality(ChunksOf(u))'
           /\ u \in DOMAIN chunkSeq' /\ chunkSeq'[u] = task'[v].seq + 1
    BY <1>1, <1>4, <1>5, <1>6, <1>7 DEF Counting
  <1>12. QED
    BY <1>1, <1>9, <1>10, <1>11 DEF Counting

\* The number taken is the number of chunks the turn has: no other task is
\* between numbering and inserting one of the same turn.
LEMMA NumberChunkCounting ==
    ASSUME UniqueIds, TrackingInv, Routing, Counting, NEW w \in Task,
           NumberChunk(w)
    PROVE  Counting'
  <1> USE DEF TrackingInv
  <1>0. PICK t, n : t = task[w].turn /\ n = Numbered(t)
    OBVIOUS
  <1>1. /\ UNCHANGED <<requestTurn, turnCounter, chunks>>
        /\ chunkSeq' = Put(chunkSeq, t, n + 1)
        /\ task[w].pc = "number_chunk"
    BY <1>0 DEF NumberChunk, Numbered, collections
  <1>2. /\ \A v \in Task \ {w} : task'[v] = task[v]
        /\ task'[w].pc = "insert_chunk" /\ task'[w].turn = t /\ task'[w].seq = n
    <2>1. task \in [Task -> TaskState]
      BY DEF TypeOK
    <2>2. Become(w, [task[w] EXCEPT !.pc = "insert_chunk", !.seq = n])
      BY <1>0 DEF NumberChunk, Numbered
    <2>3. QED
      BY <1>0, <2>1, <2>2, TaskFrame DEF Apply, Become, TaskState
  <1>3. OwnTurn(w, t)
    BY <1>0, <1>1 DEF Routing, UpdateSection
  <1>4. \A v \in Task : ~Inserts(v, t)
    <2> SUFFICES ASSUME NEW v \in Task, Inserts(v, t)
                 PROVE  FALSE
      OBVIOUS
    <2>1. OwnTurn(v, t)
      BY DEF Inserts, Routing, UpdateSection
    <2>2. v = w
      BY <1>3, <2>1, OwnTurnUnique
    <2>3. QED
      BY <1>1, <2>2 DEF Inserts
  <1>5. n = Cardinality(ChunksOf(t))
    BY <1>0, <1>3, <1>4, OwnTurnMapped DEF Counting
  <1>6. /\ \A v \in Task \ {w} : \A u : Inserts(v, u)' <=> Inserts(v, u)
        /\ \A u : Inserts(w, u)' <=> u = t
        /\ \A u : ~Inserts(w, u)
    BY <1>1, <1>2 DEF Inserts
  <1>7. \A u : /\ ChunksOf(u)' = ChunksOf(u)
               /\ u # t => /\ Numbered(u)' = Numbered(u)
                           /\ u \in DOMAIN chunkSeq =>
                                /\ u \in DOMAIN chunkSeq'
                                /\ chunkSeq'[u] = chunkSeq[u]
    BY <1>1 DEF ChunksOf, Numbered, Put
  <1>8. t \in DOMAIN chunkSeq' /\ chunkSeq'[t] = n + 1
    BY <1>1 DEF Put
  <1>9. ChunksNumberedInOrder'
    BY <1>1 DEF Counting, ChunksNumberedInOrder
  <1>10. ASSUME NEW u \in Image(requestTurn), \A v \in Task : ~Inserts(v, u)'
         PROVE  Cardinality(ChunksOf(u))' = Numbered(u)'
    <2>1. u # t /\ \A v \in Task : ~Inserts(v, u)
      BY <1>6, <1>10
    <2>2. QED
      BY <1>7, <2>1 DEF Counting
  <1>11. ASSUME NEW v \in Task, NEW u \in Turn, Inserts(v, u)'
         PROVE  /\ task'[v].seq = Cardinality(ChunksOf(u))'
                /\ u \in DOMAIN chunkSeq' /\ chunkSeq'[u] = task'[v].seq + 1
    <2>1. CASE v = w
      BY <1>2, <1>5, <1>6, <1>7, <1>8, <1>11, <2>1
    <2>2. CASE v # w
      <3>1. Inserts(v, u) /\ u # t /\ task'[v] = task[v]
        BY <1>2, <1>4, <1>6, <1>11, <2>2
      <3>2. QED
        BY <1>7, <3>1 DEF Counting
    <2>3. QED
      BY <2>1, <2>2
  <1>12. QED
    BY <1>1, <1>9, <1>10, <1>11 DEF Counting

\* The chunk goes behind the others of its turn, with the next number.
LEMMA InsertChunkCounting ==
    ASSUME UniqueIds, TrackingInv, Routing, Counting, NEW w \in Task,
           InsertChunk(w)
    PROVE  Counting'
  <1> USE DEF TrackingInv
  <1>0. PICK t, n, len : /\ t = task[w].turn /\ n = task[w].seq
                         /\ len = Len(chunks)
    OBVIOUS
  <1>1. /\ UNCHANGED <<requestTurn, turnCounter, chunkSeq>>
        /\ chunks' = Append(chunks, [turn |-> t, seq |-> n])
        /\ task[w].pc = "insert_chunk"
    BY <1>0 DEF InsertChunk, correlation
  <1>2. /\ \A v \in Task \ {w} : task'[v] = task[v]
        /\ task'[w].pc = "notify"
    BY TaskFrame, StepGoes DEF Apply, InsertChunk
  <1>3. OwnTurn(w, t) /\ Inserts(w, t)
    BY <1>0, <1>1 DEF Routing, UpdateSection, Inserts
  <1>4. t \in Turn /\ t <= turnCounter
    BY <1>3, OwnTurnMapped
  <1>5. /\ n = Cardinality(ChunksOf(t))
        /\ t \in DOMAIN chunkSeq /\ chunkSeq[t] = n + 1
    BY <1>0, <1>3, <1>4 DEF Counting
  <1>6. \A v \in Task \ {w} : ~Inserts(v, t)
    <2> SUFFICES ASSUME NEW v \in Task \ {w}, Inserts(v, t)
                 PROVE  FALSE
      OBVIOUS
    <2>1. OwnTurn(v, t)
      BY DEF Inserts, Routing, UpdateSection
    <2>2. QED
      BY <1>3, <2>1, OwnTurnUnique
  <1>7. /\ \A v \in Task \ {w} : \A u : Inserts(v, u)' <=> Inserts(v, u)
        /\ \A u : ~Inserts(w, u)'
        /\ \A u : Inserts(w, u) => u = t
    BY <1>0, <1>1, <1>2 DEF Inserts
  <1>8. /\ len \in Nat
        /\ DOMAIN chunks = 1..len /\ DOMAIN chunks' = 1..(len + 1)
        /\ \A j \in 1..len : chunks'[j] = chunks[j]
        /\ chunks'[len + 1] = [turn |-> t, seq |-> n]
    BY <1>0, <1>1 DEF TypeOK
  <1>9. \A u : u # t => ChunksOf(u)' = ChunksOf(u)
    BY <1>8 DEF ChunksOf
  <1>10. ChunksOf(t)' = ChunksOf(t) \cup {len + 1}
    BY <1>8 DEF ChunksOf
  <1>11. Cardinality(ChunksOf(t)') = n + 1
    <2>1. len + 1 \notin ChunksOf(t)
      BY <1>8 DEF ChunksOf
    <2>2. IsFiniteSet(ChunksOf(t))
      BY ChunksOfFinite
    <2>3. QED
      BY <1>5, <1>10, <2>1, <2>2, FS_AddElement
  <1>12. \A u : Numbered(u)' = Numbered(u)
    BY <1>1 DEF Numbered
  <1>13. \A j \in DOMAIN chunks' : chunks'[j].turn <= turnCounter'
    <2> SUFFICES ASSUME NEW j \in 1..(len + 1)
                 PROVE  chunks'[j].turn <= turnCounter
      BY <1>1, <1>8
    <2>1. CASE j = len + 1
      BY <1>4, <1>8, <2>1
    <2>2. CASE j # len + 1
      <3>1. j \in 1..len
        BY <1>8, <2>2
      <3>2. QED
        BY <1>8, <3>1 DEF Counting
    <2>3. QED
      BY <2>1, <2>2
  <1>14. ASSUME NEW u \in Image(requestTurn), \A v \in Task : ~Inserts(v, u)'
         PROVE  Cardinality(ChunksOf(u))' = Numbered(u)'
    <2>1. CASE u = t
      BY <1>5, <1>11, <1>12, <2>1 DEF Numbered
    <2>2. CASE u # t
      <3>1. \A v \in Task : ~Inserts(v, u)
        BY <1>7, <1>14, <2>2
      <3>2. QED
        BY <1>9, <1>12, <2>2, <3>1 DEF Counting
    <2>3. QED
      BY <2>1, <2>2
  <1>15. ASSUME NEW v \in Task, NEW u \in Turn, Inserts(v, u)'
         PROVE  /\ task'[v].seq = Cardinality(ChunksOf(u))'
                /\ u \in DOMAIN chunkSeq' /\ chunkSeq'[u] = task'[v].seq + 1
    <2>1. v # w /\ Inserts(v, u) /\ u # t /\ task'[v] = task[v]
      BY <1>2, <1>6, <1>7, <1>15
    <2>2. QED
      BY <1>1, <1>9, <2>1 DEF Counting
  <1>16. ChunksNumberedInOrder'
    <2> SUFFICES ASSUME NEW j \in 1..(len + 1)
                 PROVE  chunks'[j].seq =
                          Cardinality({k \in 1..(j - 1) :
                                         chunks'[k].turn = chunks'[j].turn})
      BY <1>8 DEF ChunksNumberedInOrder
    <2>1. CASE j = len + 1
      <3>1. j - 1 = len /\ chunks'[j].turn = t /\ chunks'[j].seq = n
        BY <1>8, <2>1
      <3>2. {k \in 1..len : chunks'[k].turn = t} = ChunksOf(t)
        BY <1>8 DEF ChunksOf
      <3>3. QED
        BY <1>5, <3>1, <3>2
    <2>2. CASE j # len + 1
      <3>1. j \in 1..len /\ \A k \in 1..(j - 1) : k \in 1..len
        BY <1>8, <2>2
      <3>2. {k \in 1..(j - 1) : chunks'[k].turn = chunks'[j].turn}
              = {k \in 1..(j - 1) : chunks[k].turn = chunks[j].turn}
        BY <1>8, <3>1
      <3>3. QED
        BY <1>8, <3>1, <3>2 DEF Counting, ChunksNumberedInOrder
    <2>3. QED
      BY <2>1, <2>2
  <1>17. /\ \A v \in Task, u \in Turn : Inserts(v, u)' =>
              /\ task'[v].seq = Cardinality(ChunksOf(u))'
              /\ u \in DOMAIN chunkSeq' /\ chunkSeq'[u] = task'[v].seq + 1
         /\ \A u \in Image(requestTurn') :
              (\A v \in Task : ~Inserts(v, u)')
                => Cardinality(ChunksOf(u))' = Numbered(u)'
    BY <1>1, <1>14, <1>15
  <1>18. QED
    BY <1>13, <1>16, <1>17 DEF Counting

LEMMA NextCounting ==
    UniqueIds /\ TrackingInv /\ Routing /\ Counting /\ [Next]_vars => Counting'
  <1>1. Counting /\ UNCHANGED vars => Counting'
    <2> SUFFICES ASSUME Counting, UNCHANGED vars
                 PROVE  Counting'
      OBVIOUS
    <2>1. UNCHANGED <<requestTurn, chunkSeq, turnCounter, chunks, task>>
      BY DEF vars, correlation, collections
    <2>2. \A v \in Task : \A t : Inserts(v, t)' <=> Inserts(v, t)
      BY <2>1 DEF Inserts
    <2>3. \A t : ChunksOf(t)' = ChunksOf(t) /\ Numbered(t)' = Numbered(t)
      BY <2>1 DEF ChunksOf, Numbered
    <2>4. ChunksNumberedInOrder'
      BY <2>1 DEF Counting, ChunksNumberedInOrder
    <2>5. QED
      BY <2>1, <2>2, <2>3, <2>4 DEF Counting
  <1>2. ASSUME UniqueIds, TrackingInv, Routing, Counting, NEW w \in Task,
               Apply(w)
        PROVE  Counting'
    <2>1. \A v \in Task \ {w} : task'[v] = task[v]
      BY <1>2, TaskFrame DEF TrackingInv
    <2>2. CASE FindTurn(w)
      <3>1. /\ UNCHANGED <<requestTurn, chunkSeq, turnCounter, chunks>>
            /\ task[w].pc = "apply"
        BY <2>2 DEF FindTurn, Applying, correlation, collections
      <3>2. task'[w].pc # "insert_chunk"
        BY <1>2, <3>1, HandStep DEF TrackingInv
      <3>3. QED
        BY <1>2, <2>1, <3>1, <3>2, CountingFrame
    <2>3. ASSUME UNCHANGED <<requestTurn, chunkSeq, turnCounter, chunks>>,
                 task[w].pc \notin UpdateSection,
                 task'[w].pc \notin UpdateSection
          PROVE  Counting'
      BY <1>2, <2>1, <2>3, CountingFrame DEF UpdateSection
    <2>4. QED
      BY <1>2, <2>2, <2>3, RoutingWriters, BeginPromptCounting,
         EndPromptCounting, NumberChunkCounting, InsertChunkCounting
         DEF TrackingInv
  <1>3. ASSUME TrackingInv, Counting, NEW w \in Task, Observe(w) \/ Deliver(w)
        PROVE  Counting'
    <2>1. /\ UNCHANGED <<requestTurn, chunkSeq, turnCounter, chunks>>
          /\ task[w].pc # "insert_chunk" /\ task'[w].pc # "insert_chunk"
      <3>1. CASE Observe(w)
        BY <1>3, <3>1, ObserveStep DEF TrackingInv, correlation, collections
      <3>2. CASE Deliver(w)
        BY <1>3, <3>2
           DEF Deliver, TrackingInv, TypeOK, TaskState, correlation, collections
      <3>3. QED
        BY <1>3, <3>1, <3>2
    <2>2. QED
      BY <1>3, <2>1, TaskFrame, CountingFrame DEF TrackingInv
  <1>4. QED
    BY <1>1, <1>2, <1>3 DEF Next

(* The chunks of a turn are numbered from 0 in the order of their          *)
(* insertion, without a gap or a repetition, although a task takes the     *)
(* number in one critical section and inserts in another: as long as no    *)
(* two parties choose the same request id, at most one task is between the *)
(* two for a turn, and the counter is not forgotten meanwhile.             *)
THEOREM ChunksStayInOrder ==
    ASSUME UniqueIds
    PROVE  Spec => []ChunksNumberedInOrder
  <1>1. Init => Routing /\ Counting
    BY InitRouting, InitCounting
  <1>2. UniqueIds /\ TrackingInv /\ Routing /\ Counting /\ [Next]_vars
          => Routing' /\ Counting'
    BY NextRouting, NextCounting
  <1>3. Counting => ChunksNumberedInOrder
    BY DEF Counting
  <1>4. QED
    BY <1>1, <1>2, <1>3, TrackingInvariant, PTL DEF Spec

-----------------------------------------------------------------------------
(* When clients never overlap two prompts of a session: the session of an  *)
(* unanswered prompt leads to the turn of that prompt.                     *)

Serial ==
    \A w \in Task : \A r \in outstanding[w] : r.kind = "session/prompt" =>
        /\ \A q \in outstanding[w] :
             q.kind = "session/prompt" /\ q.session = r.session => q = r
        /\ ~Fresh(w, r.id) => /\ r.session \in DOMAIN activeTurn
                              /\ activeTurn[r.session] = requestTurn[r.id]

LEMMA InitSerial == Init => Serial
  BY DEF Init, Serial

\* A prompt that has not been applied is the message in hand.
LEMMA FreshPrompt ==
    ASSUME Conversation, NEW w \in Task, NEW r \in outstanding[w],
           r.kind = "session/prompt", Fresh(w, r.id)
    PROVE  Msg(w).kind = "session/prompt"
  <1>1. PICK q \in outstanding[w] : q.id = r.id /\ q.kind = Msg(w).kind
    BY DEF Conversation, InHand, Fresh, Unread
  <1>2. q = r
    BY <1>1 DEF Conversation, Wired
  <1>3. QED
    BY <1>1, <1>2

LEMMA ObserveSerial ==
    ASSUME Serialized, UniqueIds, TrackingInv, Serial, NEW w \in Task,
           Observe(w)
    PROVE  Serial'
  <1> USE DEF TrackingInv
  <1>1. PICK m : /\ task'[w].pc = "append" /\ task'[w].msg = m
                 /\ Asking(w, m) \/ Answering(w, m) \/ Notifying(w, m)
    BY ObserveStep
  <1>2. /\ task[w].pc = "idle"
        /\ requestTurn' = requestTurn /\ activeTurn' = activeTurn
        /\ \A v \in Task \ {w} : task'[v] = task[v]
    BY ObserveStep DEF correlation
  <1>3. outstanding \in [Task -> SUBSET Outstanding]
    BY DEF TypeOK
  <1>4. /\ \A i : ~Fresh(w, i)
        /\ \A v \in Task \ {w} : \A i : Fresh(v, i)' <=> Fresh(v, i)
        /\ \A i : Fresh(w, i)' <=> m.kind \in RequestKind /\ m.id = i
    BY <1>1, <1>2 DEF Fresh, Unread, Msg
  <1>5. CASE Asking(w, m)
    <2>1. PICK r \in Outstanding :
            /\ m.kind \in RequestKind
            /\ r.kind = m.kind /\ r.id = m.id
            /\ m.kind = "session/prompt" =>
                 \A q \in outstanding[w] : q.session # r.session
            /\ outstanding' = [outstanding EXCEPT ![w] = @ \cup {r}]
      BY <1>5 DEF Asking
    <2>2. /\ outstanding'[w] = outstanding[w] \cup {r}
          /\ \A v \in Task \ {w} : outstanding'[v] = outstanding[v]
      BY <1>3, <2>1
    <2>3. Fresh(w, r.id)'
      BY <1>4, <2>1
    <2>4. QED
      BY <1>2, <1>4, <2>1, <2>2, <2>3 DEF Serial
  <1>6. CASE Answering(w, m) \/ Notifying(w, m)
    <2>1. \A v \in Task : outstanding'[v] \subseteq outstanding[v]
      BY <1>3, <1>6 DEF Answering, Notifying, wire
    <2>2. \A i : ~Fresh(w, i)'
      BY <1>4, <1>6 DEF Answering, Notifying, RequestKind
    <2>3. QED
      BY <1>2, <1>4, <2>1, <2>2 DEF Serial
  <1>7. QED
    BY <1>1, <1>5, <1>6

\* The steps that change neither map and apply no prompt
LEMMA SerialFrame ==
    ASSUME Conversation, Serial, NEW w \in Task,
           UNCHANGED <<requestTurn, activeTurn, outstanding>>,
           \A v \in Task \ {w} : task'[v] = task[v],
           \/ ~Applying(w, "session/prompt") /\ task[w].pc # "append"
           \/ Unread(w)' /\ Msg(w)' = Msg(w)
    PROVE  Serial'
  <1> SUFFICES ASSUME NEW v \in Task, NEW r \in outstanding[v],
                      r.kind = "session/prompt", ~Fresh(v, r.id)'
               PROVE  ~Fresh(v, r.id)
    BY DEF Serial
  <1>1. CASE v # w
    BY <1>1 DEF Fresh, Unread, Msg
  <1>2. CASE v = w
    <2>1. CASE Unread(w)' /\ Msg(w)' = Msg(w)
      BY <1>2, <2>1 DEF Fresh
    <2>2. CASE ~Applying(w, "session/prompt") /\ task[w].pc # "append"
      BY <1>2, <2>2, FreshPrompt DEF Fresh, Unread, Applying
    <2>3. QED
      BY <2>1, <2>2
  <1>3. QED
    BY <1>1, <1>2

\* The session of a prompt leads to the new turn; no other session changes.
LEMMA BeginPromptSerial ==
    ASSUME UniqueIds, TrackingInv, Serial, NEW w \in Task, BeginPrompt(w)
    PROVE  Serial'
  <1> USE DEF TrackingInv
  <1>0. PICK i, s, t : i = Msg(w).id /\ s = Msg(w).session /\ t = turnCounter'
    OBVIOUS
  <1>1. /\ requestTurn' = Put(requestTurn, i, t)
        /\ activeTurn' = Put(activeTurn, s, t)
        /\ outstanding' = outstanding /\ established' = established
        /\ task[w].pc = "apply" /\ Msg(w).kind = "session/prompt"
    BY <1>0 DEF BeginPrompt, TrackPrompt, Applying, wire
  <1>2. \A v \in Task \ {w} : task'[v] = task[v]
    BY TaskFrame DEF Apply
  <1>3. i \notin DOMAIN requestTurn
    BY <1>0, <1>1, FreshInHand DEF RequestKind
  <1>4. PICK p \in outstanding[w] :
          p.id = i /\ p.kind = "session/prompt" /\ p.session = s
    BY <1>0, <1>1 DEF Conversation, InHand, RequestKind
  <1>5. s \in established[w]
    BY <1>4 DEF Conversation, Wired
  <1>6. /\ \A j : Fresh(w, j) => j = i
        /\ \A v \in Task \ {w} : \A j : Fresh(v, j)' <=> Fresh(v, j)
    BY <1>0, <1>1, <1>2 DEF Fresh, Msg, Unread
  <1>7. requestTurn'[i] = t /\ s \in DOMAIN activeTurn' /\ activeTurn'[s] = t
    BY <1>1 DEF Put
  <1>8. ASSUME NEW v \in Task, NEW r \in outstanding[v],
               r.kind = "session/prompt", ~Fresh(v, r.id)'
        PROVE  /\ r.session \in DOMAIN activeTurn'
               /\ activeTurn'[r.session] = requestTurn'[r.id]
    <2>1. CASE v = w /\ r.id = i
      <3>1. r = p
        BY <1>4, <2>1 DEF Conversation, Wired
      <3>2. QED
        BY <1>4, <1>7, <3>1
    <2>2. CASE ~(v = w /\ r.id = i)
      <3>1. ~Fresh(v, r.id)
        BY <1>6, <1>8, <2>2
      <3>2. /\ r.id \in DOMAIN requestTurn
            /\ r.session \in DOMAIN activeTurn
            /\ activeTurn[r.session] = requestTurn[r.id]
        BY <1>8, <3>1 DEF Serial, Tracking, PromptsHaveTurns, HasTurn
      <3>3. r.session # s
        <4>1. CASE v = w
          BY <1>4, <1>8, <2>2, <4>1 DEF Serial
        <4>2. CASE v # w
          BY <1>5, <1>8, <4>2 DEF Conversation, Wired
        <4>3. QED
          BY <4>1, <4>2
      <3>4. QED
        BY <1>1, <1>3, <3>2, <3>3 DEF Put
    <2>3. QED
      BY <2>1, <2>2
  <1>9. QED
    BY <1>1, <1>8 DEF Serial

\* The sessions that are dropped lead to no other prompt.
LEMMA EndPromptSerial ==
    ASSUME UniqueIds, TrackingInv, Serial, NEW w \in Task, EndPrompt(w)
    PROVE  Serial'
  <1> USE DEF TrackingInv
  <1>0. PICK i, t : i = Msg(w).id /\ t = requestTurn[Msg(w).id]
    OBVIOUS
  <1>1. /\ DOMAIN requestTurn' = DOMAIN requestTurn \ {i}
        /\ \A j \in DOMAIN requestTurn' : requestTurn'[j] = requestTurn[j]
        /\ DOMAIN activeTurn' = DOMAIN activeTurn \ ActiveAs(t)
        /\ \A s \in DOMAIN activeTurn' : activeTurn'[s] = activeTurn[s]
        /\ outstanding' = outstanding
        /\ Applying(w, "response")
    BY <1>0 DEF EndPrompt, AnswersPrompt, Forget, Without, wire
  <1>2. \A v \in Task \ {w} : task'[v] = task[v]
    BY TaskFrame DEF Apply
  <1>3. ASSUME NEW v \in Task, NEW r \in outstanding[v],
               r.kind = "session/prompt", ~Fresh(v, r.id)'
        PROVE  /\ r.session \in DOMAIN activeTurn'
               /\ activeTurn'[r.session] = requestTurn'[r.id]
    <2>1. ~Fresh(v, r.id)
      BY <1>1, <1>2, <1>3 DEF Fresh, Msg, Unread, Applying, RequestKind
    <2>2. /\ r.id \in DOMAIN requestTurn
          /\ r.session \in DOMAIN activeTurn
          /\ activeTurn[r.session] = requestTurn[r.id]
      BY <1>3, <2>1 DEF Serial, Tracking, PromptsHaveTurns, HasTurn
    <2>3. r.id # i /\ requestTurn[r.id] # t
      BY <1>0, <2>2, EndPromptAlone
    <2>4. QED
      BY <1>1, <2>2, <2>3 DEF ActiveAs
  <1>4. QED
    BY <1>1, <1>3 DEF Serial

LEMMA NextSerial ==
    Serialized /\ UniqueIds /\ TrackingInv /\ Serial /\ [Next]_vars => Serial'
  <1>1. Serial /\ UNCHANGED vars => Serial'
    BY DEF vars, correlation, wire, Serial, Fresh, Unread, Msg
  <1>2. ASSUME TrackingInv, Serial, NEW w \in Task, Deliver(w)
        PROVE  Serial'
    <2>1. Unread(w)' /\ Msg(w)' = Msg(w)
      BY <1>2 DEF Deliver, TrackingInv, TypeOK, TaskState, Unread, Msg
    <2>2. QED
      BY <1>2, <2>1, TaskFrame, SerialFrame
         DEF Deliver, TrackingInv, correlation, wire
  <1>3. ASSUME UniqueIds, TrackingInv, Serial, NEW w \in Task, Apply(w)
        PROVE  Serial'
    <2>1. /\ outstanding' = outstanding
          /\ \A v \in Task \ {w} : task'[v] = task[v]
          /\ task[w].pc # "append"
      <3>1. task[w].pc # "append"
        BY <1>3 DEF Apply, BeginSessionNew, UpdateCwd, BeginPrompt, InsertTurn,
           IgnoreRequest, EndSessionNew, Attach, EndPrompt, AnswersPrompt,
           FinishTurn, IgnoreResponse, FindTurn, NumberChunk, InsertChunk,
           IgnoreNotification, Notify, Applying
      <3>2. QED
        BY <1>3, <3>1, HandStep DEF wire, TrackingInv
    <2>2. ASSUME FindTurn(w) \/ NumberChunk(w) \/ InsertChunk(w)
          PROVE  /\ UNCHANGED <<requestTurn, activeTurn>>
                 /\ ~Applying(w, "session/prompt")
      BY <2>2 DEF FindTurn, NumberChunk, InsertChunk, Applying, correlation
    <2>3. ASSUME UNCHANGED <<requestTurn, activeTurn>>,
                 ~Applying(w, "session/prompt")
          PROVE  Serial'
      BY <1>3, <2>1, <2>3, SerialFrame DEF TrackingInv
    <2>4. QED
      BY <1>3, <2>2, <2>3, RoutingWriters, BeginPromptSerial, EndPromptSerial
         DEF TrackingInv
  <1>4. QED
    BY <1>1, <1>2, <1>3, ObserveSerial DEF Next

(* When no two parties choose the same request id and no client sends a    *)
(* second prompt of a session before the first is answered, the updates of *)
(* a session with an unanswered prompt go to the turn of that prompt: none *)
(* is dropped, none is added to a turn that has ended.                     *)
THEOREM UpdatesStayRouted ==
    ASSUME UniqueIds, Serialized
    PROVE  Spec => []UpdatesRouted
  <1>1. TrackingInv /\ Serial => UpdatesRouted
    <2> SUFFICES ASSUME TrackingInv, Serial, NEW w \in Task,
                        task[w].pc = "idle",
                        NEW r \in outstanding[w], r.kind = "session/prompt"
                 PROVE  /\ r.session \in DOMAIN activeTurn
                        /\ r.id \in DOMAIN requestTurn
                        /\ activeTurn[r.session] = requestTurn[r.id]
      BY DEF UpdatesRouted
    <2>1. ~Fresh(w, r.id)
      BY DEF Fresh, Unread
    <2>2. QED
      BY <2>1 DEF Serial, TrackingInv, Tracking, PromptsHaveTurns, HasTurn
  <1>2. UniqueIds /\ TrackingInv /\ Serial /\ [Next]_vars => Serial'
    BY NextSerial
  <1>3. QED
    BY <1>1, <1>2, InitSerial, TrackingInvariant, PTL DEF Spec
=============================================================================

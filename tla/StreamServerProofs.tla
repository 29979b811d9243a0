------------------------- MODULE StreamServerProofs -------------------------
(* Proofs about StreamServer, for every value of its constants.            *)
EXTENDS StreamServer, StreamDbProofs, FiniteSetTheorems

-----------------------------------------------------------------------------
(* Type correctness.                                                       *)

LEMMA EnvelopeType ==
    ASSUME NEW c \in Connection \cup {Unknown},
           NEW kind \in {"legacy", "unsupported", "connection"},
           kind = "connection" => c \in Connection
    PROVE  Envelope(kind, c) \in Message
  BY IdleTaskType DEF Envelope, NoMessage, Message, MessageKind,
     RequestKind

\* Main hands a message to the read model.
LEMMA ApplyingType ==
    ASSUME TypeOK, NEW w \in Task, NEW m \in Message,
           Become(w, [IdleTask EXCEPT !.pc = "apply", !.msg = m])
    PROVE  task' \in [Task -> TaskState]
  <1>1. [IdleTask EXCEPT !.pc = "apply", !.msg = m] \in TaskState
    BY IdleTaskType DEF IdleTask, TaskState, Section
  <1>2. QED
    BY <1>1, BecomeType

LEMMA AppendLog ==
    ASSUME log \in Seq(Message), NEW m \in Message, HasRoom,
           log' = Append(log, m)
    PROVE  log' \in Seq(Message) /\ Len(log') <= MaxLog
  <1>1. Append(log, m) \in Seq(Message) /\ Len(Append(log, m)) = Len(log) + 1
    OBVIOUS
  <1>2. QED
    BY <1>1, StreamServerAssumption DEF HasRoom

\* The bound on mishaps.
LEMMA StorageType ==
    ASSUME NEW taken \in BOOLEAN, NEW room, Storage(taken, room),
           mishaps \in 0..MaxMishaps
    PROVE  mishaps' \in 0..MaxMishaps
  BY StreamServerAssumption DEF Storage

LEMMA ByOthersType ==
    ASSUME TypeOK, ByOthers, mishaps \in 0..MaxMishaps
    PROVE  TypeOK' /\ mishaps' \in 0..MaxMishaps
  <1>1. mishaps' \in 0..MaxMishaps
    BY StreamServerAssumption DEF ByOthers
  <1>2. UNCHANGED <<correlation, collections, channel, task, wire>>
    BY DEF ByOthers, memory
  <1>3. TypeOK'
    BY <1>2 DEF TypeOK, correlation, collections, channel, wire
  <1>4. QED
    BY <1>1, <1>3

LEMMA ApplyStepType ==
    ASSUME TypeOK, NEW w \in Task, ApplyStep(w)
    PROVE  TypeOK'
  BY ApplyType, EnvelopeApplyType DEF ApplyStep

LEMMA AppendJsonType ==
    ASSUME TypeOK, NEW w \in Task, AppendJson(w)
    PROVE  TypeOK'
  <1>1. task' \in [Task -> TaskState]
    <2>1. CASE task' = [task EXCEPT ![w].pc = "apply"]
      <3>1. [task[w] EXCEPT !.pc = "apply"] \in TaskState
        BY DEF TypeOK, TaskState, Section
      <3>2. QED
        BY <2>1, <3>1 DEF TypeOK
    <2>2. CASE Return(w)
      BY <2>2, ReturnType
    <2>3. QED
      BY <2>1, <2>2 DEF AppendJson, AppendAs
  <1>2. QED
    BY <1>1 DEF AppendJson, AppendAs, TypeOK, correlation, collections,
                channel, wire

LEMMA LoseMemoryType == ASSUME LoseMemory PROVE TypeOK'
  <1>1. \A S : EmptyMap \in [{} -> S] /\ DOMAIN EmptyMap = {}
    BY DEF EmptyMap
  <1>2. /\ (DOMAIN requestTurn \subseteq RequestId)'
        /\ (requestTurn \in [DOMAIN requestTurn -> Turn])'
        /\ (DOMAIN activeTurn \subseteq Session)'
        /\ (activeTurn \in [DOMAIN activeTurn -> Turn])'
        /\ (DOMAIN chunkSeq \subseteq Turn)'
        /\ (chunkSeq \in [DOMAIN chunkSeq -> Nat])'
    BY <1>1 DEF LoseMemory
  <1>3. /\ (DOMAIN connections \subseteq Connection)'
        /\ (connections \in [DOMAIN connections -> ConnectionRow])'
        /\ (DOMAIN turns \subseteq Turn)'
        /\ (turns \in [DOMAIN turns -> TurnRow])'
    BY <1>1 DEF LoseMemory
  <1>4. /\ chunks' \in Seq(ChunkRow)
        /\ feed' \in Seq(Change) /\ Len(feed') <= FeedCapacity
    BY StreamDbAssumption DEF LoseMemory
  <1>5. /\ task' \in [Task -> TaskState]
        /\ outstanding' \in [Task -> SUBSET Outstanding]
        /\ established' \in [Task -> SUBSET Session]
    BY IdleTaskType DEF LoseMemory
  <1>6. QED
    BY <1>2, <1>3, <1>4, <1>5 DEF LoseMemory, TypeOK

LEMMA ServerInitType == ServerInit => ServerTypeOK
  <1>1. Init => TypeOK
    BY InitType
  <1>2. <<>> \in Seq(Message) /\ Len(<<>>) <= MaxLog
    BY StreamServerAssumption
  <1>3. 0 \in 0..MaxBoots /\ 0 \in 0..MaxMishaps
    BY StreamServerAssumption
  <1>4. QED
    BY <1>1, <1>2, <1>3 DEF ServerInit, ServerTypeOK, Phase

LEMMA ServerNextType ==
    ASSUME ServerTypeOK, [ServerNext]_serverVars
    PROVE  ServerTypeOK'
  <1> USE DEF server, memory
  <1>0. TypeOK /\ log \in Seq(Message) /\ unread \in Seq(Message)
    BY DEF ServerTypeOK
  <1>1. CASE Boot
    <2>1. boots' \in 0..MaxBoots
      BY <1>1, StreamServerAssumption DEF Boot, BootWith, ServerTypeOK
    <2>2. TypeOK'
      BY <1>1 DEF Boot, BootWith, ServerTypeOK, TypeOK, correlation,
                  collections, channel, wire
    <2>3. QED
      BY <1>1, <2>1, <2>2 DEF Boot, BootWith, ServerTypeOK, Phase
  <1>2. CASE Replay
    <2>1. Head(unread) \in Message /\ Tail(unread) \in Seq(Message)
      BY <1>0, <1>2 DEF Replay
    <2>2. task' \in [Task -> TaskState]
      BY <1>0, <1>2, <2>1, ApplyingType, StreamServerAssumption
         DEF Replay, TypeOK
    <2>3. TypeOK'
      BY <1>0, <1>2, <2>2 DEF Replay, TypeOK, correlation, collections,
                              channel, wire
    <2>4. phase' \in Phase
      BY <1>2 DEF Replay, ServerTypeOK, Phase
    <2>5. QED
      BY <1>2, <2>1, <2>3, <2>4 DEF Replay, ServerTypeOK
  <1>3. CASE AnnounceConnection
    <2>1. PICK c \in Connection :
            /\ self' = c /\ mishaps' \in 0..MaxMishaps
            /\ \/ /\ HasRoom /\ log' = Append(log, Envelope("connection", c))
                  /\ Become(Main, [IdleTask EXCEPT !.pc = "apply",
                                     !.msg = Envelope("connection", c)])
                  /\ phase' = "announce"
               \/ phase' = "failed" /\ UNCHANGED <<log, task>>
      BY <1>3, StorageType DEF AnnounceConnection, Storage, ServerTypeOK
    <2>2. Envelope("connection", c) \in Message
      BY EnvelopeType
    <2>3. task' \in [Task -> TaskState]
      BY <1>0, <2>1, <2>2, ApplyingType, StreamServerAssumption DEF TypeOK
    <2>4. log' \in Seq(Message) /\ Len(log') <= MaxLog
      BY <1>0, <2>1, <2>2, AppendLog DEF ServerTypeOK
    <2>5. TypeOK'
      BY <1>0, <1>3, <2>3 DEF AnnounceConnection, TypeOK, correlation,
                              collections, channel, wire
    <2>6. QED
      BY <1>3, <2>1, <2>4, <2>5
         DEF AnnounceConnection, ServerTypeOK, Phase
  <1>4. CASE Serve
    <2>1. TypeOK'
      BY <1>0, <1>4 DEF Serve, SetConnectionId, ServerTypeOK, TypeOK,
                        collections, channel, wire
    <2>2. QED
      BY <1>4, <2>1 DEF Serve, ServerTypeOK, Phase
  <1>5. ASSUME NEW w \in Task, Trace(w) PROVE ServerTypeOK'
    BY <1>0, <1>5, ObserveType DEF Trace, ServerTypeOK
  <1>6. ASSUME NEW w \in Task, AppendJson(w) PROVE ServerTypeOK'
    <2>1. Msg(w) \in Message
      BY <1>0 DEF TypeOK, TaskState, Msg
    <2>2. PICK taken \in BOOLEAN :
            Storage(taken, HasRoom) /\ AppendAs(w, taken, taken)
      BY <1>6 DEF AppendJson
    <2>3. log' \in Seq(Message) /\ Len(log') <= MaxLog
      BY <1>0, <2>1, <2>2, AppendLog DEF Storage, AppendAs, ServerTypeOK
    <2>4. mishaps' \in 0..MaxMishaps
      BY <2>2, StorageType DEF ServerTypeOK
    <2>5. QED
      BY <1>0, <1>6, <2>2, <2>3, <2>4, AppendJsonType DEF AppendAs, ServerTypeOK
  <1>7. ASSUME NEW w \in Task, ApplyStep(w) PROVE ServerTypeOK'
    BY <1>0, <1>7, ApplyStepType DEF ApplyStep, ServerTypeOK
  <1>8. CASE ForeignAppend
    <2>1. PICK m \in Message : /\ HasRoom /\ log' = Append(log, m) /\ ByOthers
                              /\ apart' \in BOOLEAN
      BY <1>8, StreamServerAssumption DEF ForeignAppend, ServerTypeOK
    <2>2. log' \in Seq(Message) /\ Len(log') <= MaxLog
      BY <1>0, <2>1, AppendLog
    <2>3. TypeOK' /\ mishaps' \in 0..MaxMishaps
      BY <1>0, <2>1, ByOthersType DEF ServerTypeOK
    <2>4. QED
      BY <2>1, <2>2, <2>3 DEF ByOthers, ServerTypeOK
  <1>9. CASE Crash
    BY <1>9, LoseMemoryType DEF Crash, ServerTypeOK, Phase
  <1>10. CASE DeleteStream
    <2>1. log' \in Seq(Message) /\ Len(log') <= MaxLog
      BY <1>10, StreamServerAssumption DEF DeleteStream
    <2>2. TypeOK' /\ mishaps' \in 0..MaxMishaps
      BY <1>0, <1>10, ByOthersType DEF DeleteStream, ServerTypeOK
    <2>3. QED
      BY <1>10, <2>1, <2>2 DEF DeleteStream, ByOthers, ServerTypeOK
  <1>11. CASE UNCHANGED serverVars
    BY <1>0, <1>11 DEF serverVars, vars, history, ServerTypeOK, TypeOK,
                       correlation, collections, channel, wire
  <1>12. QED
    BY <1>1, <1>2, <1>3, <1>4, <1>5, <1>6, <1>7, <1>8, <1>9, <1>10, <1>11
       DEF ServerNext

(* Every variable of the process has its type in every reachable state, in *)
(* every phase of every boot, whatever the limit of the stream.            *)
THEOREM ServerTypeCorrect == ServerSpec => []ServerTypeOK
  BY ServerInitType, ServerNextType, PTL DEF ServerSpec
-----------------------------------------------------------------------------
(* Runs of the log.                                                        *)

\* From M to N no turn is lost, renamed, or given another outcome.
Keeps(M, N) == \A t \in DOMAIN M.turns :
    /\ t \in DOMAIN N.turns
    /\ N.turns[t].session = M.turns[t].session
    /\ N.turns[t].request = M.turns[t].request
    /\ M.turns[t].state \in Terminal => N.turns[t] = M.turns[t]

\* From M to N, message m counts a turn and adds its row if it is a prompt.
Counts(m, M, N) ==
    /\ N.turnCounter = IF m.kind = "session/prompt" THEN M.turnCounter + 1
                                                    ELSE M.turnCounter
    /\ DOMAIN N.turns =
         IF m.kind = "session/prompt" THEN DOMAIN M.turns \cup {N.turnCounter}
                                      ELSE DOMAIN M.turns
    /\ \A t \in DOMAIN N.turns :
         \/ /\ t \in DOMAIN M.turns
            /\ N.turns[t].session = M.turns[t].session
            /\ N.turns[t].request = M.turns[t].request
         \/ /\ m.kind = "session/prompt" /\ t = N.turnCounter
            /\ N.turns[t].session = m.session /\ N.turns[t].request = m.id

\* Each request leads to a turn of its own, which is still active: the
\* ownership of turns, of a model between two messages.
IsRow(row) == row = [state |-> row.state, session |-> row.session,
                     request |-> row.request]
Sound(M) ==
    /\ M.turnCounter \in Nat
    /\ \A t \in DOMAIN M.turns : t \in 1..M.turnCounter /\ IsRow(M.turns[t])
    /\ \A i \in DOMAIN M.requestTurn :
         /\ M.requestTurn[i] \in 1..M.turnCounter
         /\ M.requestTurn[i] \in DOMAIN M.turns
              => M.turns[M.requestTurn[i]].state = "active"
         /\ \A j \in DOMAIN M.requestTurn :
              M.requestTurn[i] = M.requestTurn[j] => i = j

\* h[k] is the model after the first k messages of s, whoever wrote them.
Run(h, s) ==
    /\ h[0] = Blank
    /\ \A k \in 1..Len(s) : h[k] = Effect(s[k], h[k - 1])
    /\ \A k \in 0..Len(s) : Keeps(h[k], h[Len(s)])
    /\ Sound(h[Len(s)])
    /\ h[Len(s)].turnCounter = PromptsUpTo(s, Len(s))
    /\ DOMAIN h[Len(s)].turns = 1..PromptsUpTo(s, Len(s))
    /\ \A t \in DOMAIN h[Len(s)].turns : NamesPrompt(s, t, h[Len(s)].turns[t])

LEMMA KeepsSame == \A M, N : M.turns = N.turns => Keeps(M, N)
  BY DEF Keeps

LEMMA KeepsTrans ==
    ASSUME NEW L, NEW M, NEW N, Keeps(L, M), Keeps(M, N)
    PROVE  Keeps(L, N)
  BY DEF Keeps

\* The end of an active turn.
LEMMA ClosedRows ==
    ASSUME NEW rows, NEW t, NEW ok, \A u \in DOMAIN rows : IsRow(rows[u]),
           t \in DOMAIN rows => rows[t].state = "active"
    PROVE  /\ DOMAIN Closed(rows, t, ok) = DOMAIN rows
           /\ \A u \in DOMAIN rows :
                LET row == Closed(rows, t, ok)[u] IN
                /\ IsRow(row)
                /\ u # t => row = rows[u]
                /\ row.session = rows[u].session
                /\ row.request = rows[u].request
                /\ rows[u].state \in Terminal => row = rows[u]
  <1>1. DOMAIN Closed(rows, t, ok) = DOMAIN rows
    BY DEF Closed
  <1>2. ASSUME NEW u \in DOMAIN rows
        PROVE  LET row == Closed(rows, t, ok)[u] IN
               /\ IsRow(row)
               /\ u # t => row = rows[u]
               /\ row.session = rows[u].session
               /\ row.request = rows[u].request
               /\ rows[u].state \in Terminal => row = rows[u]
    <2>1. CASE u # t
      BY <2>1 DEF Closed
    <2>2. CASE u = t
      <3>1. PICK st : Closed(rows, t, ok)[u] = [rows[u] EXCEPT !.state = st]
        BY <2>2 DEF Closed
      <3>2. PICK r : r = rows[u]
        OBVIOUS
      <3>3. r = [state |-> r.state, session |-> r.session,
                 request |-> r.request]
        BY <3>2 DEF IsRow
      <3>4. Closed(rows, t, ok)[u] = [state |-> st, session |-> r.session,
                                      request |-> r.request]
        BY <3>1, <3>2, <3>3
      <3>5. rows[u].state \notin Terminal
        BY <2>2 DEF Terminal
      <3>6. QED
        BY <2>2, <3>2, <3>4, <3>5 DEF IsRow
    <2>3. QED
      BY <2>1, <2>2
  <1>3. QED
    BY <1>1, <1>2

\* What one message does to any sound model.
LEMMA EffectSound ==
    ASSUME NEW M, Sound(M), NEW m
    PROVE  /\ Sound(Effect(m, M)) /\ Keeps(M, Effect(m, M))
           /\ Counts(m, M, Effect(m, M))
  <1>1. PICK N : N = Effect(m, M)
    OBVIOUS
  <1>2. SUFFICES Sound(N) /\ Keeps(M, N) /\ Counts(m, M, N)
    BY <1>1
  <1>3. CASE m.kind = "session/prompt"
    <2>1. PICK t : t = M.turnCounter + 1
      OBVIOUS
    <2>2. /\ N.turns = Opened(M.turns, t, m) /\ N.turnCounter = t
          /\ N.requestTurn = Put(M.requestTurn, m.id, t)
      BY <1>1, <1>3, <2>1 DEF Effect, PromptEffect, ModelOf
    <2>3. /\ M.turnCounter \in Nat /\ t \in Nat
          /\ 1..t = 1..M.turnCounter \cup {t} /\ t \notin 1..M.turnCounter
      BY <2>1 DEF Sound
    <2>4. t \notin DOMAIN M.turns
      BY <2>3 DEF Sound
    <2>5. /\ DOMAIN N.turns = DOMAIN M.turns \cup {t}
          /\ \A u \in DOMAIN M.turns : N.turns[u] = M.turns[u]
          /\ N.turns[t] = [state |-> "active", session |-> m.session,
                           request |-> m.id]
      BY <2>2, <2>4 DEF Opened, Put
    <2>6. /\ DOMAIN N.requestTurn = DOMAIN M.requestTurn \cup {m.id}
          /\ N.requestTurn[m.id] = t
          /\ \A i \in DOMAIN M.requestTurn \ {m.id} :
               N.requestTurn[i] = M.requestTurn[i]
      BY <2>2 DEF Put
    <2>7. Sound(N)
      <3>1. \A u \in DOMAIN N.turns : u \in 1..t /\ IsRow(N.turns[u])
        BY <2>3, <2>5 DEF Sound, IsRow
      <3>2. ASSUME NEW i \in DOMAIN N.requestTurn
            PROVE  /\ N.requestTurn[i] \in 1..t
                   /\ N.requestTurn[i] \in DOMAIN N.turns
                        => N.turns[N.requestTurn[i]].state = "active"
                   /\ \A j \in DOMAIN N.requestTurn :
                        N.requestTurn[i] = N.requestTurn[j] => i = j
        <4>1. CASE i = m.id
          BY <2>3, <2>5, <2>6, <4>1 DEF Sound
        <4>2. CASE i # m.id
          BY <2>3, <2>5, <2>6, <4>2 DEF Sound
        <4>3. QED
          BY <4>1, <4>2
      <3>3. QED
        BY <2>2, <2>3, <3>1, <3>2 DEF Sound
    <2>8. QED
      BY <1>3, <2>1, <2>2, <2>5, <2>7 DEF Keeps, Counts
  <1>4. CASE m.kind = "response" /\ m.id \notin M.pendingNew
             /\ m.id \in DOMAIN M.requestTurn
    <2>1. PICK t : t = M.requestTurn[m.id]
      OBVIOUS
    <2>2. /\ N.turns = Closed(M.turns, t, m.ok)
          /\ N.turnCounter = M.turnCounter
          /\ N.requestTurn = Without(M.requestTurn, {m.id})
      BY <1>1, <1>4, <2>1 DEF Effect, EndEffect, ModelOf
    <2>3. t \in DOMAIN M.turns => M.turns[t].state = "active"
      BY <1>4, <2>1 DEF Sound
    <2>4. /\ DOMAIN N.turns = DOMAIN M.turns
          /\ \A u \in DOMAIN M.turns :
               /\ IsRow(N.turns[u])
               /\ u # t => N.turns[u] = M.turns[u]
               /\ N.turns[u].session = M.turns[u].session
               /\ N.turns[u].request = M.turns[u].request
               /\ M.turns[u].state \in Terminal => N.turns[u] = M.turns[u]
      BY <2>2, <2>3, ClosedRows DEF Sound
    <2>5. /\ DOMAIN N.requestTurn = DOMAIN M.requestTurn \ {m.id}
          /\ \A i \in DOMAIN N.requestTurn :
               N.requestTurn[i] = M.requestTurn[i] /\ M.requestTurn[i] # t
      BY <1>4, <2>1, <2>2 DEF Without, Sound
    <2>6. Sound(N)
      <3>1. \A u \in DOMAIN N.turns : u \in 1..N.turnCounter /\ IsRow(N.turns[u])
        BY <2>2, <2>4 DEF Sound
      <3>2. ASSUME NEW i \in DOMAIN N.requestTurn
            PROVE  /\ N.requestTurn[i] \in 1..N.turnCounter
                   /\ N.requestTurn[i] \in DOMAIN N.turns
                        => N.turns[N.requestTurn[i]].state = "active"
                   /\ \A j \in DOMAIN N.requestTurn :
                        N.requestTurn[i] = N.requestTurn[j] => i = j
        <4>1. PICK u : u = M.requestTurn[i]
          OBVIOUS
        <4>2. N.requestTurn[i] = u /\ u # t /\ i \in DOMAIN M.requestTurn
          BY <2>5, <4>1
        <4>3. u \in DOMAIN N.turns => N.turns[u].state = "active"
          BY <2>4, <4>1, <4>2 DEF Sound
        <4>4. u \in 1..N.turnCounter
          BY <2>2, <4>1, <4>2 DEF Sound
        <4>5. \A j \in DOMAIN N.requestTurn :
                N.requestTurn[i] = N.requestTurn[j] => i = j
          BY <2>5 DEF Sound
        <4>6. QED
          BY <4>2, <4>3, <4>4, <4>5
      <3>3. N.turnCounter \in Nat
        BY <2>2 DEF Sound
      <3>4. QED
        BY <3>1, <3>2, <3>3 DEF Sound
    <2>7. QED
      BY <1>4, <2>2, <2>4, <2>6 DEF Keeps, Counts
  <1>5. CASE ~ (m.kind = "session/prompt")
             /\ ~ (m.kind = "response" /\ m.id \notin M.pendingNew
                   /\ m.id \in DOMAIN M.requestTurn)
    <2>1. /\ N.turns = M.turns /\ N.turnCounter = M.turnCounter
          /\ N.requestTurn = M.requestTurn
      BY <1>1, <1>5 DEF Effect, PendingEffect, UpdateEffect, ModelOf
    <2>2. QED
      BY <1>5, <2>1 DEF Keeps, Counts, Sound
  <1>6. QED
    BY <1>3, <1>4, <1>5

LEMMA ModelSound == TypeOK /\ OutcomeInv => Sound(Model)
  <1> SUFFICES ASSUME TypeOK, OutcomeInv
               PROVE  Sound(Model)
    OBVIOUS
  <1>1. \A t \in DOMAIN turns : /\ t \in 1..turnCounter
                               /\ IsRow(UnscopedTurns[t])
                               /\ UnscopedTurns[t].state = turns[t].state
    BY DEF TypeOK, OutcomeInv, CorrelationOwnsTurns, Turn, UnscopedTurns,
       Unscoped, IsRow
  <1>2. \A i \in DOMAIN requestTurn : requestTurn[i] \in 1..turnCounter
    BY DEF TypeOK, OutcomeInv, CorrelationOwnsTurns, Turn
  <1>3. DOMAIN UnscopedTurns = DOMAIN turns /\ turnCounter \in Nat
    BY DEF TypeOK, UnscopedTurns
  <1>4. QED
    BY <1>1, <1>2, <1>3, ModelFields
       DEF OutcomeInv, CorrelationOwnsTurns, Sound

\* What a task has still to do loses no turn and takes no outcome back.
LEMMA RestKeeps ==
    ASSUME TypeOK, OutcomeInv, NEW w \in Task
    PROVE  Keeps(Model, Rest(w))
  <1>0. Sound(Model) /\ Model.turns = UnscopedTurns
    BY ModelSound, ModelFields
  <1>1. CASE task[w].pc = "apply"
    BY <1>0, <1>1, EffectSound DEF Rest
  <1>2. CASE task[w].pc = "insert_turn"
    <2> DEFINE t == task[w].turn
    <2>1. Rest(w).turns = Opened(UnscopedTurns, t, Msg(w))
      BY <1>2 DEF Rest, TurnsEffect, ModelOf
    <2>2. t \notin DOMAIN UnscopedTurns
      BY <1>2 DEF OutcomeInv, InsertersOwnTurns, UnscopedTurns
    <2> HIDE DEF t
    <2>3. /\ DOMAIN Rest(w).turns = DOMAIN UnscopedTurns \cup {t}
          /\ \A u \in DOMAIN UnscopedTurns :
               Rest(w).turns[u] = UnscopedTurns[u]
      BY <2>1, <2>2 DEF Opened, Put
    <2>4. QED
      BY <1>0, <2>3 DEF Keeps
  <1>3. CASE task[w].pc = "finish_turn"
    <2> DEFINE t == task[w].turn
    <2>1. Rest(w).turns = Closed(UnscopedTurns, t, Msg(w).ok)
      BY <1>3 DEF Rest, TurnsEffect, ModelOf
    <2>2. t \in DOMAIN UnscopedTurns => UnscopedTurns[t].state = "active"
      BY <1>3 DEF OutcomeInv, FinishersOwnTurns, UnscopedTurns, Unscoped
    <2>3. \A u \in DOMAIN UnscopedTurns : IsRow(UnscopedTurns[u])
      BY <1>0 DEF Sound
    <2> HIDE DEF t
    <2>4. QED
      BY <1>0, <2>1, <2>2, <2>3, ClosedRows DEF Keeps
  <1>4. CASE task[w].pc \notin {"apply", "insert_turn", "finish_turn"}
    <2>1. Rest(w).turns = UnscopedTurns
      BY <1>4, ModelFields DEF Rest, UpdateEffect, ModelOf
    <2>2. QED
      BY <1>0, <2>1, KeepsSame
  <1>5. QED
    BY <1>1, <1>2, <1>3, <1>4

\* How many prompts a longer stream begins with.
LEMMA PromptsAppend ==
    ASSUME NEW s \in Seq(Message), NEW m \in Message
    PROVE  /\ \A k \in 0..Len(s) : PromptsUpTo(Append(s, m), k) = PromptsUpTo(s, k)
           /\ PromptsUpTo(s, Len(s)) \in Nat
           /\ PromptsUpTo(Append(s, m), Len(s) + 1) =
                IF m.kind = "session/prompt" THEN PromptsUpTo(s, Len(s)) + 1
                                             ELSE PromptsUpTo(s, Len(s))
  <1> DEFINE P(q, k) == {j \in 1..k : q[j].kind = "session/prompt"}
             n == Len(s)
             r == Append(s, m)
  <1>1. /\ n \in Nat /\ r[n + 1] = m
        /\ \A j \in 1..n : r[j] = s[j]
    OBVIOUS
  <1> HIDE DEF r, n
  <1>2. \A k \in 0..n : P(r, k) = P(s, k)
    BY <1>1
  <1>3. IsFiniteSet(P(s, n)) /\ Cardinality(P(s, n)) \in Nat
    <2>1. IsFiniteSet(1..n) /\ P(s, n) \subseteq 1..n
      BY <1>1, FS_Interval
    <2>2. QED
      BY <2>1, FS_Subset, FS_CardinalityType
  <1>4. P(r, n + 1) = IF m.kind = "session/prompt" THEN P(s, n) \cup {n + 1}
                                                   ELSE P(s, n)
    BY <1>1
  <1>5. n + 1 \notin P(s, n)
    BY <1>1
  <1>6. Cardinality(P(s, n) \cup {n + 1}) = Cardinality(P(s, n)) + 1
    BY <1>3, <1>5, FS_AddElement
  <1>7. QED
    BY <1>2, <1>3, <1>4, <1>6 DEF PromptsUpTo, n, r

\* One more message makes one more model of the run.
LEMMA ExtendRun ==
    ASSUME NEW s \in Seq(Message), NEW m \in Message, NEW h, Run(h, s),
           NEW N, N = Effect(m, h[Len(s)])
    PROVE  \E g : /\ Run(g, Append(s, m))
                  /\ g[Len(s) + 1] = N
                  /\ \A k \in 0..Len(s) : g[k] = h[k]
  <1> DEFINE n == Len(s)
             r == Append(s, m)
             g == [k \in 0..(n + 1) |-> IF k = n + 1 THEN N ELSE h[k]]
  <1>0. Sound(N) /\ Keeps(h[n], N) /\ Counts(m, h[n], N)
    BY EffectSound DEF Run
  <1>1. /\ n \in Nat /\ r[n + 1] = m /\ Len(r) = n + 1
        /\ \A j \in 1..n : r[j] = s[j]
    OBVIOUS
  <1>2. /\ \A k \in 0..n : PromptsUpTo(r, k) = PromptsUpTo(s, k)
        /\ PromptsUpTo(r, n + 1) = IF m.kind = "session/prompt"
                                     THEN PromptsUpTo(s, n) + 1
                                     ELSE PromptsUpTo(s, n)
    BY PromptsAppend
  <1>3. DOMAIN s = 1..n /\ DOMAIN r = 1..(n + 1)
    BY <1>1
  <1> HIDE DEF r, n
  <1>4. g[n + 1] = N /\ \A k \in 0..n : g[k] = h[k]
    BY <1>1
  <1> HIDE DEF g
  <1>5. g[0] = Blank
    BY <1>1, <1>4 DEF Run
  <1>6. \A k \in 1..(n + 1) : g[k] = Effect(r[k], g[k - 1])
    <2>1. \A k \in 1..n : g[k] = Effect(r[k], g[k - 1])
      <3> TAKE k \in 1..n
      <3>1. k \in 0..n /\ k - 1 \in 0..n
        BY <1>1
      <3>2. h[k] = Effect(s[k], h[k - 1])
        BY DEF Run, n
      <3>3. QED
        BY <1>1, <1>4, <3>1, <3>2
    <2>2. g[n + 1] = Effect(r[n + 1], g[(n + 1) - 1])
      BY <1>1, <1>4 DEF n
    <2>3. \A k \in 1..(n + 1) : k \in 1..n \/ k = n + 1
      BY <1>1
    <2>4. QED
      BY <2>1, <2>2, <2>3
  <1>7. \A k \in 0..(n + 1) : Keeps(g[k], g[n + 1])
    <2>1. \A k \in 0..n : Keeps(h[k], h[n])
      BY DEF Run, n
    <2>2. \A k \in 0..n : Keeps(h[k], N)
      BY <1>0, <2>1, KeepsTrans
    <2>3. \A k \in 0..(n + 1) : k \in 0..n \/ k = n + 1
      BY <1>1
    <2>4. QED
      BY <1>4, <2>2, <2>3, KeepsSame
  <1>8. N.turnCounter = PromptsUpTo(r, n + 1)
    BY <1>0, <1>2 DEF Run, Counts, n
  <1>9. DOMAIN N.turns = 1..PromptsUpTo(r, n + 1)
    <2>1. PICK c : c = PromptsUpTo(s, n)
      OBVIOUS
    <2>2. c \in Nat /\ DOMAIN h[n].turns = 1..c
      BY <2>1, PromptsAppend DEF Run, n
    <2>3. 1..(c + 1) = 1..c \cup {c + 1}
      BY <2>2
    <2>4. QED
      BY <1>0, <1>2, <1>8, <2>1, <2>2, <2>3 DEF Counts
  <1>10. \A t \in DOMAIN N.turns : NamesPrompt(r, t, N.turns[t])
    <2> TAKE t \in DOMAIN N.turns
    <2>1. CASE /\ t \in DOMAIN h[n].turns
               /\ N.turns[t].session = h[n].turns[t].session
               /\ N.turns[t].request = h[n].turns[t].request
      <3>1. NamesPrompt(s, t, h[n].turns[t])
        BY <2>1 DEF Run, n
      <3>2. PICK k \in 1..n : /\ s[k].kind = "session/prompt"
                              /\ PromptsUpTo(s, k) = t
                              /\ h[n].turns[t].session = s[k].session
                              /\ h[n].turns[t].request = s[k].id
        BY <1>3, <3>1 DEF NamesPrompt
      <3>3. k \in DOMAIN r /\ r[k] = s[k] /\ PromptsUpTo(r, k) = t
        BY <1>1, <1>2, <1>3, <3>2
      <3>4. QED
        BY <2>1, <3>2, <3>3 DEF NamesPrompt
    <2>2. CASE /\ m.kind = "session/prompt" /\ t = N.turnCounter
               /\ N.turns[t].session = m.session /\ N.turns[t].request = m.id
      <3>1. n + 1 \in DOMAIN r
        BY <1>1, <1>3
      <3>2. QED
        BY <1>1, <1>8, <2>2, <3>1 DEF NamesPrompt
    <2>3. QED
      BY <1>0, <2>1, <2>2 DEF Counts
  <1>11. Run(g, r)
    BY <1>0, <1>1, <1>4, <1>5, <1>6, <1>7, <1>8, <1>9, <1>10 DEF Run
  <1>12. QED
    BY <1>4, <1>11 DEF n, r
-----------------------------------------------------------------------------
(* Where the process is in the log.                                        *)

\* Every other task is idle; what its rest leads to.
Sole(w)    == \A v \in Task \ {w} : task[v].pc = "idle"
Settled(M) == \A w \in Task : Sole(w) => Rest(w) = M

\* The process has taken the first p messages of the log and has yet to
\* apply those in unread, which end at position e.
At(h, p)    == /\ p \in 0..Len(log) /\ p + Len(unread) <= Len(log)
               /\ \A k \in 1..Len(unread) : unread[k] = log[p + k]
               /\ Settled(h[p])
Where(h, e) == \E p \in 0..Len(log) : At(h, p) /\ p + Len(unread) = e

\* What was ever shown is what the log leads to.
Holds(M) == \A t \in DOMAIN known : t \in DOMAIN M.turns /\ M.turns[t] = known[t]
Known(h) == /\ \A t \in DOMAIN known : known[t].state \in Terminal
            /\ Holds(h[Len(log)])

\* What an idle process went down with is what the log leads to.
Recalled(h) ==
    /\ apart => before = <<>>
    /\ before # <<>> =>
         LET b == before[1] IN
         /\ b.turns \in [DOMAIN b.turns -> TurnRow]
         /\ h[Len(log)] =
              ModelOf(b.requestTurn, b.pendingNew, b.activeTurn, b.chunkSeq,
                      b.turnCounter,
                      [t \in DOMAIN b.turns |-> Unscoped(b.turns[t])], b.chunks)

\* A process apart from nobody: nothing after what it has taken has an effect.
Current(h) ==
    phase # "down" /\ ~ apart =>
        \E e \in 0..Len(log) : Where(h, e) /\ h[e] = h[Len(log)]

\* A boot has read all that was ever shown, whatever others do meanwhile.
Booting  == {"rebuild", "announce", "failed"}
Recorded(h) ==
    phase \in Booting /\ DOMAIN known # {} =>
        \E e \in 0..Len(log) : Where(h, e) /\ Holds(h[e])

History(h) == Run(h, log) /\ Known(h) /\ Recalled(h) /\ Current(h) /\ Recorded(h)

\* Who is at work in which phase.
Phases ==
    /\ phase = "down" => /\ Model = Blank /\ unread = <<>>
                         /\ \A w \in Task : task[w].pc = "idle"
    /\ phase \in {"announce", "serving"} => unread = <<>> /\ before = <<>>
    /\ phase = "serving" => task[Main].pc = "idle"
    /\ phase # "serving" => \A w \in Tracer : task[w].pc = "idle"
    /\ task[Main].pc # "append"

\* Before it serves, a process has no connection id.
Anonymous ==
    phase # "serving" =>
        /\ connectionId = Unknown
        /\ \A t \in DOMAIN turns : turns[t].connection = Unknown
        /\ task[Main].connection = Unknown

\* One tracer: messages are applied in the order of the log.
OneTracer == \A v, w \in Tracer : v = w

ServerInv == /\ ServerTypeOK /\ OutcomeInv /\ Phases /\ Anonymous
             /\ OutcomesSurvive
             /\ \E h : History(h)
-----------------------------------------------------------------------------
(* The ownership of turns, through boots and crashes.                      *)

LEMMA ApplyStepFrame ==
    ASSUME TypeOK, NEW w \in Task, ApplyStep(w)
    PROVE  \A v \in Task \ {w} : task'[v] = task[v]
  <1>1. CASE Apply(w)
    BY <1>1, TaskFrame
  <1>2. CASE IgnoreLegacy(w) \/ ApplyConnection(w)
    BY <1>2 DEF TypeOK, IgnoreLegacy, ApplyConnection, Announce, Return, Become
  <1>3. QED
    BY <1>1, <1>2 DEF ApplyStep

LEMMA ApplyStepOutcome ==
    ASSUME TypeOK, OutcomeInv, NEW w \in Task, ApplyStep(w)
    PROVE  OutcomeInv'
  <1>1. CASE Apply(w)
    BY <1>1, OutcomeApply
  <1>2. CASE IgnoreLegacy(w) \/ ApplyConnection(w)
    <2>1. UNCHANGED <<requestTurn, turns, turnCounter>>
      BY <1>2 DEF IgnoreLegacy, ApplyConnection, correlation, collections
    <2>2. task'[w].pc \notin {"insert_turn", "finish_turn"}
      BY <1>2, StepGoes DEF IgnoreLegacy, ApplyConnection
    <2>3. QED
      BY <2>1, <2>2, ApplyStepFrame, OutcomeFrame
  <1>3. QED
    BY <1>1, <1>2 DEF ApplyStep

\* A step that leaves the maps alone and hands at most one task a message.
LEMMA HandingOutcome ==
    ASSUME TypeOK, OutcomeInv, NEW w \in Task,
           UNCHANGED <<correlation, collections>>,
           \/ UNCHANGED task
           \/ /\ \A v \in Task \ {w} : task'[v] = task[v]
              /\ task'[w].pc \notin {"insert_turn", "finish_turn"}
    PROVE  OutcomeInv'
  <1>1. UNCHANGED <<requestTurn, turns, turnCounter>>
    BY DEF correlation, collections
  <1>2. CASE UNCHANGED task
    BY <1>1, <1>2 DEF OutcomeInv, CorrelationOwnsTurns, InsertersOwnTurns,
                      FinishersOwnTurns
  <1>3. CASE /\ \A v \in Task \ {w} : task'[v] = task[v]
             /\ task'[w].pc \notin {"insert_turn", "finish_turn"}
    BY <1>1, <1>3, OutcomeFrame
  <1>4. QED
    BY <1>2, <1>3

\* How the steps of the process change the tasks.
LEMMA HandMain ==
    ASSUME TypeOK, NEW m, Become(Main, [IdleTask EXCEPT !.pc = "apply",
                                                        !.msg = m])
    PROVE  /\ \A v \in Task \ {Main} : task'[v] = task[v]
           /\ task'[Main].pc = "apply" /\ task'[Main].msg = m
  BY StreamServerAssumption DEF TypeOK, Become, IdleTask

LEMMA AppendFrame ==
    ASSUME TypeOK, NEW w \in Task, AppendJson(w)
    PROVE  /\ \A v \in Task \ {w} : task'[v] = task[v]
           /\ \/ /\ HasRoom /\ log' = Append(log, Msg(w))
                 /\ task'[w].pc = "apply" /\ task'[w].msg = Msg(w)
              \/ log' = log /\ task'[w].pc = "idle"
  BY DEF AppendJson, Storage, AppendAs, Return, Become, IdleTask, TypeOK,
     TaskState, Msg

LEMMA ServerOutcome ==
    ASSUME ServerTypeOK, OutcomeInv, [ServerNext]_serverVars
    PROVE  OutcomeInv'
  <1> USE DEF memory, vars
  <1>0. TypeOK /\ Main \in Task
    BY StreamServerAssumption DEF ServerTypeOK
  <1>1. CASE Boot \/ ForeignAppend \/ DeleteStream
    BY <1>0, <1>1, HandingOutcome
       DEF Boot, BootWith, ForeignAppend, DeleteStream, ByOthers
  <1>2. CASE Serve
    BY <1>2 DEF Serve, SetConnectionId, collections, OutcomeInv,
       CorrelationOwnsTurns, InsertersOwnTurns, FinishersOwnTurns
  <1>3. CASE Replay \/ AnnounceConnection
    <2>1. /\ UNCHANGED <<correlation, collections>>
          /\ \/ UNCHANGED task
             \/ \E m : Become(Main, [IdleTask EXCEPT !.pc = "apply", !.msg = m])
      BY <1>3 DEF Replay, AnnounceConnection
    <2>2. QED
      BY <1>0, <2>1, HandMain, HandingOutcome
  <1>4. ASSUME NEW w \in Task, Trace(w) PROVE OutcomeInv'
    BY <1>0, <1>4, OutcomeObserve DEF Trace
  <1>5. ASSUME NEW w \in Task, AppendJson(w) PROVE OutcomeInv'
    <2>1. UNCHANGED <<correlation, collections>>
      BY <1>5 DEF AppendJson, AppendAs
    <2>2. /\ \A v \in Task \ {w} : task'[v] = task[v]
          /\ task'[w].pc \notin {"insert_turn", "finish_turn"}
      BY <1>0, <1>5, AppendFrame
    <2>3. QED
      BY <1>0, <2>1, <2>2, HandingOutcome
  <1>6. ASSUME NEW w \in Task, ApplyStep(w) PROVE OutcomeInv'
    BY <1>0, <1>6, ApplyStepOutcome
  <1>7. CASE Crash
    BY <1>7 DEF Crash, LoseMemory, EmptyMap, IdleTask, OutcomeInv,
       CorrelationOwnsTurns, InsertersOwnTurns, FinishersOwnTurns
  <1>8. CASE UNCHANGED serverVars
    BY <1>0, <1>8, HandingOutcome DEF serverVars
  <1>9. QED
    BY <1>1, <1>2, <1>3, <1>4, <1>5, <1>6, <1>7, <1>8 DEF ServerNext

-----------------------------------------------------------------------------
(* Who is at work.                                                         *)

\* A task that applies a message never comes back to appending it.
LEMMA ApplyStepGoes ==
    ASSUME TypeOK, NEW w \in Task, ApplyStep(w)
    PROVE  task[w].pc \notin {"idle", "append"} /\ task'[w].pc # "append"
  <1>1. task[w].pc \notin {"idle", "append"}
    BY DEF ApplyStep, Apply, BeginSessionNew, UpdateCwd, BeginPrompt,
       InsertTurn, IgnoreRequest, EndSessionNew, Attach, EndPrompt,
       AnswersPrompt, FinishTurn, IgnoreResponse, FindTurn, NumberChunk,
       InsertChunk, IgnoreNotification, Notify, IgnoreLegacy,
       ApplyConnection, Applying
  <1>2. \/ Return(w)
        \/ \E change : Announce(w, change)
        \/ \E pc \in {"update_cwd", "insert_turn", "attach"} : \E c :
             Become(w, [task[w] EXCEPT !.pc = pc, !.connection = c])
        \/ \E pc \in {"finish_turn", "number_chunk"} : \E n :
             Become(w, [task[w] EXCEPT !.pc = pc, !.turn = n])
        \/ \E n : Become(w, [task[w] EXCEPT !.pc = "insert_chunk", !.seq = n])
        \/ BeginPrompt(w)
    BY DEF ApplyStep, Apply, BeginSessionNew, UpdateCwd,
       InsertTurn, IgnoreRequest, EndSessionNew, Attach, EndPrompt, Forget,
       FinishTurn, IgnoreResponse, FindTurn, NumberChunk,
       InsertChunk, IgnoreNotification, Notify, IgnoreLegacy,
       ApplyConnection
  <1>3. CASE BeginPrompt(w)
    <2>1. \E t : Become(w, [task[w] EXCEPT !.pc = "insert_turn", !.turn = t,
                                         !.connection = connectionId])
      BY <1>3 DEF BeginPrompt, TrackPrompt
    <2>2. task \in [Task -> TaskState] /\ task[w] \in TaskState
      BY DEF TypeOK
    <2>3. task'[w].pc = "insert_turn"
      BY <2>1, <2>2 DEF Become, TaskState
    <2>4. QED
      BY <1>1, <2>3
  <1>4. QED
    BY <1>1, <1>2, <1>3, StepGoes

\* The tasks alternate: Main until the process serves, the tracers then.
LEMMA SoleStep ==
    ASSUME OneTracer, Phases, NEW w \in Task,
           task[w].pc # "idle" \/ (phase = "serving" /\ w \in Tracer)
    PROVE  Sole(w)
  BY DEF OneTracer, Phases, Sole, Tracer

LEMMA TracersServe ==
    ASSUME Phases, NEW w \in Task, task[w].pc # "idle"
    PROVE  (phase = "serving") <=> (w \in Tracer)
  BY DEF Phases, Tracer

LEMMA ServerPhases ==
    ASSUME ServerTypeOK, Phases, ServerNext
    PROVE  Phases'
  <1>0. TypeOK /\ Main \in Task /\ phase \in Phase
    BY StreamServerAssumption DEF ServerTypeOK
  <1> DEFINE Frame == UNCHANGED <<requestTurn, pendingNew, activeTurn, chunkSeq,
                                  turnCounter, turns, chunks>>
  <1>1. Frame => Model' = Model
    BY DEF Model, UnscopedTurns
  <1>2. CASE Boot
    BY <1>0, <1>2 DEF Boot, BootWith, Phases, memory
  <1>3. CASE Replay
    <2>1. phase' \in {"rebuild", "failed"} /\ phase = "rebuild"
      BY <1>3 DEF Replay
    <2>2. UNCHANGED task \/ Become(Main, [IdleTask EXCEPT !.pc = "apply",
                                                 !.msg = Head(unread)])
      BY <1>3 DEF Replay
    <2>3. /\ \A v \in Tracer : task'[v] = task[v]
          /\ task'[Main].pc # "append"
      BY <1>0, <2>2, HandMain DEF Tracer, Phases
    <2>4. QED
      BY <2>1, <2>3 DEF Phases
  <1>4. CASE AnnounceConnection
    <2>1. /\ phase' \in {"announce", "failed"} /\ phase = "rebuild"
          /\ unread = <<>> /\ unread' = unread
          /\ phase' = "announce" => before' = <<>>
      BY <1>4 DEF AnnounceConnection, Rebuilt
    <2>2. \/ UNCHANGED task
          \/ \E m : Become(Main, [IdleTask EXCEPT !.pc = "apply", !.msg = m])
      BY <1>4 DEF AnnounceConnection
    <2>3. /\ \A v \in Tracer : task'[v] = task[v]
          /\ task'[Main].pc # "append"
      BY <1>0, <2>2, HandMain DEF Tracer, Phases
    <2>4. QED
      BY <2>1, <2>3 DEF Phases
  <1>5. CASE Serve
    BY <1>5 DEF Serve, SetConnectionId, Phases
  <1>6. ASSUME NEW w \in Task, Trace(w) PROVE Phases'
    <2>1. \A v \in Task \ {w} : task'[v] = task[v]
      BY <1>0, <1>6, TaskFrame DEF Trace
    <2>2. /\ phase = "serving" /\ phase' = phase /\ w # Main
          /\ unread' = unread /\ before' = before
      BY <1>6 DEF Trace, server, Tracer
    <2>3. QED
      BY <1>0, <2>1, <2>2 DEF Phases
  <1>7. ASSUME NEW w \in Task, AppendJson(w) PROVE Phases'
    <2>1. \A v \in Task \ {w} : task'[v] = task[v]
      BY <1>0, <1>7, AppendFrame
    <2>2. /\ task[w].pc = "append" /\ phase' = phase
          /\ unread' = unread /\ before' = before
      BY <1>7 DEF AppendJson, AppendAs
    <2>3. w # Main /\ w \in Tracer
      BY <2>2 DEF Phases, Tracer
    <2>4. phase = "serving"
      BY <2>2, <2>3, TracersServe
    <2>5. QED
      BY <1>0, <2>1, <2>2, <2>3, <2>4 DEF Phases
  <1>8. ASSUME NEW w \in Task, ApplyStep(w) PROVE Phases'
    <2>1. \A v \in Task \ {w} : task'[v] = task[v]
      BY <1>0, <1>8, ApplyStepFrame
    <2>2. task[w].pc # "idle" /\ task'[w].pc # "append"
      BY <1>0, <1>8, ApplyStepGoes
    <2>3. phase' = phase /\ unread' = unread /\ before' = before
      BY <1>8 DEF ApplyStep, server
    <2>4. phase = "serving" <=> w \in Tracer
      BY <2>2, TracersServe
    <2>5. phase # "down"
      BY <2>2 DEF Phases
    <2>6. QED
      BY <1>0, <2>1, <2>2, <2>3, <2>4, <2>5 DEF Phases, Tracer
  <1>9. CASE ForeignAppend \/ DeleteStream
    <2>1. /\ UNCHANGED <<correlation, collections, task, phase, unread>>
          /\ before' = before \/ before' = <<>>
      BY <1>9 DEF ForeignAppend, DeleteStream, ByOthers, memory
    <2>2. Model' = Model
      BY <2>1 DEF Model, UnscopedTurns, correlation, collections
    <2>3. QED
      BY <2>1, <2>2 DEF Phases
  <1>10. CASE Crash
    <2>1. Model' = Blank
      BY <1>10 DEF Crash, LoseMemory, Model, Blank, UnscopedTurns, EmptyMap
    <2>2. QED
      BY <1>0, <1>10, <2>1 DEF Crash, LoseMemory, IdleTask, Phases, Tracer
  <1>11. QED
    BY <1>2, <1>3, <1>4, <1>5, <1>6, <1>7, <1>8, <1>9, <1>10 DEF ServerNext
-----------------------------------------------------------------------------
(* The model of the process is always one the log leads to.                *)

LEMMA SomeSole == Phases /\ OneTracer => \E w \in Task : Sole(w)
  <1>1. Main \in Task
    BY StreamServerAssumption
  <1>2. CASE phase # "serving"
    BY <1>1, <1>2 DEF Phases, Sole, Tracer
  <1>3. CASE phase = "serving" /\ Tracer = {}
    BY <1>1, <1>3 DEF Sole, Tracer
  <1>4. CASE phase = "serving" /\ Tracer # {}
    BY <1>4 DEF Phases, Sole, Tracer, OneTracer
  <1>5. QED
    BY <1>2, <1>3, <1>4

\* Two tasks of which every other one is idle have the same to do: nothing.
LEMMA SettledBy ==
    \A v, u \in Task : Sole(v) /\ Sole(u) => Rest(v) = Rest(u)
  BY DEF Sole, Rest

LEMMA SettleStep ==
    ASSUME NEW w \in Task, Sole(w)', NEW M, Rest(w)' = M
    PROVE  Settled(M)'
  <1>1. (\A v, u \in Task : Sole(v) /\ Sole(u) => Rest(v) = Rest(u))'
    BY SettledBy, PTL
  <1>2. QED
    BY <1>1 DEF Settled

\* Steps after which the rest is what it was.
KeepsRest == \A M : Settled(M) => Settled(M)'

LEMMA FrameKeepsRest ==
    ASSUME UNCHANGED <<requestTurn, pendingNew, activeTurn, chunkSeq,
                       turnCounter, turns, chunks, task>>
    PROVE  KeepsRest
  BY DEF KeepsRest, Settled, Sole, Rest, Model, UnscopedTurns, Msg

LEMMA SoleKeepsRest ==
    ASSUME NEW w \in Task, Sole(w), Sole(w)', Rest(w)' = Rest(w)
    PROVE  KeepsRest
  <1> SUFFICES ASSUME NEW M, Settled(M) PROVE Settled(M)'
    BY DEF KeepsRest
  <1>1. Rest(w)' = M
    BY DEF Settled
  <1>2. QED
    BY <1>1, SettleStep

\* With nothing left to read, the process is where its reading ended.
LEMMA Reached ==
    ASSUME NEW h, NEW e \in 0..Len(log), Where(h, e), unread = <<>>,
           NEW w \in Task, Sole(w), Len(log) \in Nat
    PROVE  Rest(w) = h[e]
  <1>1. PICK p \in 0..Len(log) : At(h, p) /\ p + Len(unread) = e
    BY DEF Where
  <1>2. p = e
    BY <1>1
  <1>3. QED
    BY <1>1, <1>2 DEF At, Settled

\* Outside of a replay the log leads where the process is.
LEMMA CaughtUp ==
    ASSUME ServerTypeOK, NEW h, Current(h), unread = <<>>, phase # "down",
           ~ apart, NEW w \in Task, Sole(w)
    PROVE  Rest(w) = h[Len(log)]
  <1>1. PICK e \in 0..Len(log) : Where(h, e) /\ h[e] = h[Len(log)]
    BY DEF Current
  <1>2. Len(log) \in Nat
    BY DEF ServerTypeOK
  <1>3. QED
    BY <1>1, <1>2, Reached

\* The rows shown are rows of the whole log, with their outcomes.
ShownIsPast ==
    ~ apart => \A h : Run(h, log) /\ Current(h) => Keeps(Model, h[Len(log)])

LEMMA LiveIsPast ==
    OneTracer => (ServerTypeOK /\ OutcomeInv /\ Phases => ShownIsPast)
  <1> SUFFICES ASSUME OneTracer, ServerTypeOK, OutcomeInv, Phases, ~ apart,
                      NEW h, Run(h, log), Current(h)
               PROVE  Keeps(Model, h[Len(log)])
    BY DEF ShownIsPast
  <1>1. CASE phase = "down"
    BY <1>1 DEF Phases, Blank, ModelOf, EmptyMap, Keeps
  <1>2. CASE phase # "down"
    <2>1. PICK e \in 0..Len(log) : Where(h, e) /\ h[e] = h[Len(log)]
      BY <1>2 DEF Current
    <2>2. PICK p \in 0..Len(log) : At(h, p) /\ p + Len(unread) = e
      BY <2>1 DEF Where
    <2>3. PICK w \in Task : Sole(w)
      BY SomeSole
    <2>4. Rest(w) = h[p]
      BY <2>2, <2>3 DEF At, Settled
    <2>5. Keeps(Model, h[p])
      BY <2>4, RestKeeps DEF ServerTypeOK
    <2>6. Keeps(h[p], h[Len(log)])
      BY <2>2 DEF Run
    <2>7. QED
      BY <2>5, <2>6, KeepsTrans
  <1>3. QED
    BY <1>1, <1>2

\* An empty log.
LEMMA EmptyRun == \E g : Run(g, <<>>)
  <1>1. PICK g : g = [k \in {0} |-> Blank]
    OBVIOUS
  <1>2. g[0] = Blank /\ Len(<<>>) = 0
    BY <1>1
  <1>3. PromptsUpTo(<<>>, 0) = 0
    <2>1. {j \in 1..0 : (<<>>)[j].kind = "session/prompt"} = {}
      OBVIOUS
    <2>2. QED
      BY <2>1, FS_EmptySet DEF PromptsUpTo
  <1>4. /\ Blank.turnCounter = 0 /\ DOMAIN Blank.turns = {}
        /\ DOMAIN Blank.requestTurn = {}
    BY DEF Blank, ModelOf, EmptyMap
  <1>5. Sound(Blank)
    BY <1>4 DEF Sound
  <1>6. 0..0 = {0} /\ 1..0 = {}
    OBVIOUS
  <1>7. QED
    BY <1>2, <1>3, <1>4, <1>5, <1>6, KeepsSame DEF Run

\* One more message of another kind than those a replay shows.
LEMMA ExtendSilent ==
    ASSUME NEW s \in Seq(Message), NEW m \in Message, NEW h, Run(h, s),
           Silent(m)
    PROVE  \E g : /\ Run(g, Append(s, m))
                  /\ g[Len(s) + 1] = h[Len(s)]
                  /\ \A k \in 0..Len(s) : g[k] = h[k]
  <1>1. \A M : Effect(m, M) = M
    BY DEF Effect, Silent
  <1>2. QED
    BY <1>1, ExtendRun

\* The reading of the process ends where it ended before the step.
Moves(h, g) == \A e \in 0..Len(log) : Where(h, e) =>
    e \in 0..Len(log') /\ Where(g, e)' /\ g[e] = h[e]

LEMMA StayMoves ==
    ASSUME UNCHANGED <<log, unread>>, KeepsRest, NEW h
    PROVE  Moves(h, h)
  BY DEF Moves, Where, At, KeepsRest

LEMMA GrowMoves ==
    ASSUME log \in Seq(Message), unread \in Seq(Message), NEW m \in Message,
           log' = Append(log, m), UNCHANGED unread, KeepsRest,
           NEW h, NEW g, \A k \in 0..Len(log) : g[k] = h[k]
    PROVE  Moves(h, g)
  <1> SUFFICES ASSUME NEW e \in 0..Len(log), Where(h, e)
               PROVE  e \in 0..Len(log') /\ Where(g, e)' /\ g[e] = h[e]
    BY DEF Moves
  <1>1. /\ Len(log) \in Nat /\ Len(unread) \in Nat /\ Len(log') = Len(log) + 1
        /\ \A k \in 1..Len(log) : log'[k] = log[k]
    OBVIOUS
  <1>2. PICK p \in 0..Len(log) : At(h, p) /\ p + Len(unread) = e
    BY DEF Where
  <1>3. /\ p \in 0..Len(log') /\ e \in 0..Len(log')
        /\ p + Len(unread') <= Len(log')
    BY <1>1, <1>2
  <1>4. \A k \in 1..Len(unread') : unread'[k] = log'[p + k]
    <2> TAKE k \in 1..Len(unread')
    <2>1. p + k \in 1..Len(log) /\ unread[k] = log[p + k]
      BY <1>1, <1>2 DEF At
    <2>2. QED
      BY <1>1, <2>1
  <1>5. Settled(g[p])'
    BY <1>2 DEF At, KeepsRest
  <1>6. At(g, p)'
    BY <1>3, <1>4, <1>5 DEF At
  <1>7. QED
    BY <1>2, <1>3, <1>6 DEF Where

\* What a step of the process has to show of the log.
Follows(h, g) ==
    /\ Run(g, log)' /\ Recalled(g)' /\ Current(g)'
    /\ Keeps(h[Len(log)], g[Len(log')])
    /\ phase' \in Booting /\ apart' => phase \in Booting /\ Moves(h, g)

\* A step that leaves the log alone stays in the run.
LEMMA SameLog ==
    ASSUME NEW h, History(h), UNCHANGED <<log, apart>>, Recalled(h)',
           Moves(h, h), phase # "down",
           phase' \in Booting => phase \in Booting
    PROVE  Follows(h, h)
  <1>1. Run(h, log)' /\ Keeps(h[Len(log)], h[Len(log')])
    BY KeepsSame DEF History
  <1>2. Current(h)'
    BY DEF History, Current, Moves
  <1>3. QED
    BY <1>1, <1>2 DEF Follows

LEMMA BootFollows ==
    ASSUME ServerTypeOK, Phases, NEW h, History(h), Boot
    PROVE  Follows(h, h)
  <1> USE DEF memory
  <1>1. /\ log' = log /\ unread' = log /\ phase = "down" /\ phase' = "rebuild"
        /\ UNCHANGED <<before, memory>> /\ log \in Seq(Message) /\ apart' = FALSE
    BY DEF Boot, BootWith, ServerTypeOK
  <1>2. Settled(h[0])'
    <2>1. Settled(h[0])
      BY <1>1 DEF Phases, Settled, Rest, History, Run
    <2>2. KeepsRest
      BY <1>1, FrameKeepsRest DEF correlation, collections
    <2>3. QED
      BY <2>1, <2>2 DEF KeepsRest
  <1>3. \E e \in 0..Len(log') : Where(h, e)' /\ h[e] = h[Len(log')]
    <2>1. PICK e : e = Len(log)
      OBVIOUS
    <2>2. /\ e \in Nat /\ e \in 0..Len(log') /\ 0 \in 0..Len(log')
          /\ Len(log') = e /\ Len(unread') = e /\ 0 + Len(unread') = e
      BY <1>1, <2>1
    <2>3. \A k \in 1..Len(unread') : unread'[k] = log'[0 + k]
      BY <1>1
    <2>4. At(h, 0)'
      BY <1>2, <2>2, <2>3 DEF At
    <2>5. Where(h, e)'
      BY <2>2, <2>4 DEF Where
    <2>6. QED
      BY <2>2, <2>5
  <1>4. Current(h)'
    BY <1>3 DEF Current
  <1>5. Recalled(h)'
    BY <1>1 DEF History, Recalled
  <1>6. Run(h, log)' /\ Keeps(h[Len(log)], h[Len(log')])
    BY <1>1, KeepsSame DEF History
  <1>7. QED
    BY <1>1, <1>4, <1>5, <1>6 DEF Follows

LEMMA ReplayFollows ==
    ASSUME ServerTypeOK, Phases, NEW h, History(h), Replay
    PROVE  Follows(h, h)
  <1>1. /\ log' = log /\ unread' = Tail(unread) /\ unread # <<>>
        /\ phase = "rebuild" /\ phase' \in {"rebuild", "failed"}
        /\ UNCHANGED <<apart, before, correlation, collections>>
        /\ task[Main].pc = "idle"
        /\ log \in Seq(Message) /\ unread \in Seq(Message)
        /\ Main \in Task
    BY StreamServerAssumption DEF Replay, ServerTypeOK
  <1>2. /\ Len(unread) \in Nat \ {0} /\ Len(unread') = Len(unread) - 1
        /\ \A k \in 1..Len(unread') : unread'[k] = unread[k + 1]
        /\ Head(unread) = unread[1]
        /\ Len(log) \in Nat
    BY <1>1
  <1>3. ASSUME NEW p \in 0..Len(log), At(h, p)
        PROVE  /\ p + 1 \in 0..Len(log) /\ At(h, p + 1)'
               /\ p + 1 + Len(unread') = p + Len(unread)
    <2>1. /\ p + 1 \in 0..Len(log) /\ p + 1 + Len(unread') = p + Len(unread)
          /\ p + 1 + Len(unread') <= Len(log')
          /\ Head(unread) = log[p + 1]
      BY <1>1, <1>2, <1>3 DEF At
    <2>2. \A k \in 1..Len(unread') : unread'[k] = log'[p + 1 + k]
      <3> TAKE k \in 1..Len(unread')
      <3>1. k + 1 \in 1..Len(unread) /\ p + (k + 1) = p + 1 + k
        BY <1>2
      <3>2. unread[k + 1] = log[p + (k + 1)]
        BY <1>3, <3>1 DEF At
      <3>3. QED
        BY <1>1, <1>2, <3>1, <3>2
    <2>3. h[p + 1] = Effect(Head(unread), h[p])
      <3>1. p + 1 \in 1..Len(log) /\ (p + 1) - 1 = p
        BY <2>1
      <3>2. h[p + 1] = Effect(log[p + 1], h[(p + 1) - 1])
        BY <3>1 DEF History, Run
      <3>3. QED
        BY <2>1, <3>1, <3>2
    <2>4. Model' = Model /\ Model = h[p]
      <3>1. Sole(Main)
        BY <1>1 DEF Phases, Sole, Tracer
      <3>2. Rest(Main) = Model
        BY <1>1 DEF Rest
      <3>3. Model' = Model
        BY <1>1 DEF Model, UnscopedTurns, correlation, collections
      <3>4. QED
        BY <1>1, <1>3, <3>1, <3>2, <3>3 DEF At, Settled
    <2>5. Settled(h[p + 1])'
      <3>1. CASE UNCHANGED task /\ Head(unread).kind = "unsupported"
        <4>1. Sole(Main)'
          BY <1>1, <3>1 DEF Phases, Sole, Tracer
        <4>2. Rest(Main)' = Model'
          BY <1>1, <3>1 DEF Rest
        <4>3. h[p + 1] = h[p]
          BY <2>3, <3>1 DEF Effect
        <4>4. QED
          BY <1>1, <2>4, <4>1, <4>2, <4>3, SettleStep
      <3>2. CASE Become(Main, [IdleTask EXCEPT !.pc = "apply",
                                               !.msg = Head(unread)])
        <4>1. /\ \A v \in Task \ {Main} : task'[v] = task[v]
              /\ task'[Main].pc = "apply" /\ Msg(Main)' = Head(unread)
          BY <3>2, HandMain DEF ServerTypeOK, Msg
        <4>2. Sole(Main)'
          BY <1>1, <4>1 DEF Phases, Sole, Tracer
        <4>3. Rest(Main)' = Effect(Head(unread), Model')
          BY <4>1 DEF Rest
        <4>4. QED
          BY <1>1, <2>3, <2>4, <4>2, <4>3, SettleStep
      <3>3. QED
        BY <3>1, <3>2 DEF Replay
    <2>6. QED
      BY <1>1, <2>1, <2>2, <2>5 DEF At
  <1>4. Moves(h, h)
    <2> SUFFICES ASSUME NEW e \in 0..Len(log), Where(h, e)
                 PROVE  Where(h, e)'
      BY <1>1 DEF Moves
    <2>1. PICK p \in 0..Len(log) : At(h, p) /\ p + Len(unread) = e
      BY DEF Where
    <2>2. /\ p + 1 \in 0..Len(log') /\ At(h, p + 1)'
          /\ p + 1 + Len(unread') = e
      BY <1>1, <1>3, <2>1
    <2>3. QED
      BY <2>2 DEF Where
  <1>5. Recalled(h)'
    BY <1>1 DEF History, Recalled
  <1>6. QED
    BY <1>1, <1>4, <1>5, SameLog DEF Booting

LEMMA AnnounceFollows ==
    ASSUME ServerTypeOK, Phases, NEW h, History(h), AnnounceConnection
    PROVE  \E g : Follows(h, g)
  <1>1. /\ unread' = unread /\ unread = <<>> /\ phase = "rebuild"
        /\ phase' \in {"announce", "failed"}
        /\ UNCHANGED <<apart, correlation, collections>>
        /\ task[Main].pc = "idle" /\ Main \in Task
        /\ log \in Seq(Message) /\ unread \in Seq(Message)
    BY StreamServerAssumption DEF AnnounceConnection, Rebuilt, ServerTypeOK
  <1>2. CASE UNCHANGED <<log, task, before>>
    <2>1. KeepsRest
      BY <1>1, <1>2, FrameKeepsRest DEF correlation, collections
    <2>2. Recalled(h)'
      BY <1>1, <1>2 DEF History, Recalled
    <2>3. QED
      BY <1>1, <1>2, <2>1, <2>2, StayMoves, SameLog DEF Booting
  <1>3. ASSUME NEW c \in Connection, before' = <<>>,
               log' = Append(log, Envelope("connection", c)),
               Become(Main, [IdleTask EXCEPT !.pc = "apply",
                                !.msg = Envelope("connection", c)])
        PROVE  \E g : Follows(h, g)
    <2>1. PICK m : m = Envelope("connection", c)
      OBVIOUS
    <2>2. m \in Message /\ m.kind = "connection" /\ Silent(m)
      BY <2>1, EnvelopeType DEF Envelope, NoMessage, Silent
    <2>3. PICK g : /\ Run(g, log') /\ g[Len(log) + 1] = h[Len(log)]
                   /\ \A k \in 0..Len(log) : g[k] = h[k]
      BY <1>1, <1>3, <2>1, <2>2, ExtendSilent DEF History
    <2>4. KeepsRest
      <3>1. /\ \A v \in Task \ {Main} : task'[v] = task[v]
            /\ task'[Main].pc = "apply" /\ Msg(Main)' = m
        BY <1>3, <2>1, HandMain DEF ServerTypeOK, Msg
      <3>2. Sole(Main) /\ Sole(Main)'
        BY <1>1, <3>1 DEF Phases, Sole, Tracer
      <3>3. Rest(Main)' = Model' /\ Rest(Main) = Model
        BY <1>1, <2>2, <3>1 DEF Rest, Effect
      <3>4. Model' = Model
        BY <1>1 DEF Model, UnscopedTurns, correlation, collections
      <3>5. QED
        BY <1>1, <3>2, <3>3, <3>4, SoleKeepsRest
    <2>5. Moves(h, g)
      BY <1>1, <1>3, <2>1, <2>2, <2>3, <2>4, GrowMoves
    <2>6. Len(log') = Len(log) + 1 /\ Len(log) \in Nat
      BY <1>1, <1>3
    <2>7. Current(g)'
      <3> SUFFICES ASSUME ~ apart
                   PROVE  \E e \in 0..Len(log') : /\ Where(g, e)'
                                                  /\ g[e] = g[Len(log')]
        BY <1>1 DEF Current
      <3>1. PICK e \in 0..Len(log) : Where(h, e) /\ h[e] = h[Len(log)]
        BY <1>1 DEF History, Current
      <3>2. /\ e \in 0..Len(log') /\ Where(g, e)'
            /\ g[e] = g[Len(log')]
        BY <2>3, <2>5, <2>6, <3>1 DEF Moves
      <3>3. QED
        BY <3>2
    <2>8. Recalled(g)'
      BY <1>3 DEF Recalled
    <2>9. Keeps(h[Len(log)], g[Len(log')])
      BY <2>3, <2>6, KeepsSame
    <2>10. QED
      BY <1>1, <2>3, <2>5, <2>7, <2>8, <2>9 DEF Follows, Booting
  <1>4. QED
    BY <1>2, <1>3 DEF AnnounceConnection

LEMMA ServeFollows ==
    ASSUME ServerTypeOK, Phases, NEW h, History(h), Serve
    PROVE  Follows(h, h)
  <1>1. /\ phase = "announce" /\ phase' = "serving"
        /\ UNCHANGED <<log, unread, apart, before, task, collections,
                       requestTurn, pendingNew, activeTurn, chunkSeq,
                       turnCounter>>
    BY DEF Serve, SetConnectionId
  <1>2. KeepsRest
    BY <1>1, FrameKeepsRest DEF collections
  <1>3. Recalled(h)'
    BY <1>1 DEF History, Recalled
  <1>4. QED
    BY <1>1, <1>2, <1>3, StayMoves, SameLog DEF Booting

LEMMA ForeignFollows ==
    ASSUME ServerTypeOK, NEW h, History(h), ForeignAppend
    PROVE  \E g : Follows(h, g)
  <1>1. /\ UNCHANGED <<unread, phase, correlation, collections, task>>
        /\ log \in Seq(Message) /\ unread \in Seq(Message)
    BY DEF ForeignAppend, ByOthers, memory, ServerTypeOK
  <1>2. PICK m \in Message :
          /\ log' = Append(log, m)
          /\ IF Silent(m) THEN UNCHANGED <<apart, before>>
                          ELSE apart' = TRUE /\ before' = <<>>
    BY StreamServerAssumption DEF ForeignAppend
  <1>3. PICK g : /\ Run(g, log') /\ \A k \in 0..Len(log) : g[k] = h[k]
                 /\ g[Len(log) + 1] = Effect(m, h[Len(log)])
    BY <1>1, <1>2, ExtendRun DEF History
  <1>4. Silent(m) => Effect(m, h[Len(log)]) = h[Len(log)]
    BY DEF Silent, Effect
  <1>5. KeepsRest
    BY <1>1, FrameKeepsRest DEF correlation, collections
  <1>6. Moves(h, g)
    BY <1>1, <1>2, <1>3, <1>5, GrowMoves
  <1>7. Len(log') = Len(log) + 1 /\ Len(log) \in Nat
    BY <1>1, <1>2
  <1>8. Current(g)'
    <2> SUFFICES ASSUME phase # "down", ~ apart'
                 PROVE  \E e \in 0..Len(log') : /\ Where(g, e)'
                                                /\ g[e] = g[Len(log')]
      BY <1>1 DEF Current
    <2>1. Silent(m) /\ ~ apart
      BY <1>2
    <2>2. PICK e \in 0..Len(log) : Where(h, e) /\ h[e] = h[Len(log)]
      BY <2>1 DEF History, Current
    <2>3. /\ e \in 0..Len(log') /\ Where(g, e)'
          /\ g[e] = g[Len(log')]
      BY <1>3, <1>4, <1>6, <1>7, <2>1, <2>2 DEF Moves
    <2>4. QED
      BY <2>3
  <1>9. Recalled(g)'
    <2>1. CASE Silent(m)
      BY <1>1, <1>2, <1>3, <1>4, <1>7, <2>1 DEF History, Recalled
    <2>2. CASE ~ Silent(m)
      BY <1>2, <2>2 DEF Recalled
    <2>3. QED
      BY <2>1, <2>2
  <1>10. Keeps(h[Len(log)], g[Len(log')])
    <2>1. Sound(h[Len(log)])
      BY DEF History, Run
    <2>2. QED
      BY <1>3, <1>7, <2>1, EffectSound
  <1>11. QED
    BY <1>1, <1>3, <1>6, <1>8, <1>9, <1>10 DEF Follows

\* A step of a task that leaves its rest and the log as they are.
LEMMA RestFollows ==
    ASSUME ServerTypeOK, NEW h, History(h), NEW w \in Task, Sole(w),
           \A v \in Task \ {w} : task'[v] = task[v],
           Rest(w)' = Rest(w), phase # "down",
           UNCHANGED <<log, unread, phase, apart, before>>
    PROVE  Follows(h, h)
  <1>1. Sole(w)'
    BY DEF Sole
  <1>2. KeepsRest
    BY <1>1, SoleKeepsRest
  <1>3. Recalled(h)'
    BY DEF History, Recalled
  <1>4. QED
    BY <1>2, <1>3, StayMoves, SameLog

LEMMA TraceFollows ==
    ASSUME ServerTypeOK, Phases, OneTracer, NEW h, History(h),
           NEW w \in Task, Trace(w)
    PROVE  Follows(h, h)
  <1>1. /\ phase = "serving" /\ w \in Tracer /\ Observe(w)
        /\ UNCHANGED <<log, unread, phase, apart, before>>
    BY DEF Trace, server
  <1>2. Sole(w)
    BY <1>1, SoleStep
  <1>3. /\ \A v \in Task \ {w} : task'[v] = task[v]
        /\ task[w].pc = "idle" /\ task'[w].pc = "append"
        /\ UNCHANGED <<correlation, collections>>
    <2>1. \E m : Take(w, m)
      BY <1>1 DEF Observe, ObserveSessionNew, ObservePrompt, ObserveRequest,
         ObserveResponse, ObserveUpdate, ObserveOther
    <2>2. UNCHANGED <<correlation, collections>>
      BY <1>1 DEF Observe, ObserveSessionNew, ObservePrompt, ObserveRequest,
         ObserveResponse, ObserveUpdate, ObserveOther
    <2>3. QED
      BY <1>1, <2>1, <2>2, TaskFrame, StepGoes DEF Take, ServerTypeOK
  <1>4. Rest(w)' = Rest(w)
    <2>1. Rest(w) = Model /\ Rest(w)' = Model'
      BY <1>3 DEF Rest
    <2>2. Model' = Model
      BY <1>3 DEF Model, UnscopedTurns, correlation, collections
    <2>3. QED
      BY <2>1, <2>2
  <1>5. QED
    BY <1>1, <1>2, <1>3, <1>4, RestFollows

LEMMA ApplyFollows ==
    ASSUME ServerTypeOK, Phases, OneTracer, NEW h, History(h),
           NEW w \in Task, ApplyStep(w)
    PROVE  Follows(h, h)
  <1>1. /\ Apply(w) \/ IgnoreLegacy(w) \/ ApplyConnection(w)
        /\ UNCHANGED <<log, unread, phase, apart, before>>
        /\ TypeOK
    BY DEF ApplyStep, server, ServerTypeOK
  <1>2. task[w].pc # "idle"
    BY <1>1, ApplyStepGoes
  <1>3. Sole(w) /\ phase # "down"
    BY <1>2, SoleStep DEF Phases
  <1>4. QED
    BY <1>1, <1>3, RestStep, ApplyStepFrame, RestFollows

LEMMA AppendFollows ==
    ASSUME ServerTypeOK, OutcomeInv, Phases, OneTracer, NEW h, History(h),
           NEW w \in Task, AppendJson(w)
    PROVE  \E g : Follows(h, g)
  <1>1. /\ task[w].pc = "append"
        /\ UNCHANGED <<correlation, collections, phase, unread, apart, before>>
        /\ log \in Seq(Message) /\ TypeOK
    BY DEF AppendJson, AppendAs, ServerTypeOK
  <1>2. Sole(w) /\ phase = "serving" /\ unread = <<>> /\ before = <<>>
    <2>1. w \in Tracer
      BY <1>1 DEF Phases, Tracer
    <2>2. Sole(w)
      BY <1>1, SoleStep
    <2>3. QED
      BY <1>1, <2>1, <2>2, TracersServe DEF Phases
  <1>3. Rest(w) = Model /\ Model' = Model
    BY <1>1 DEF Rest, Model, UnscopedTurns, correlation, collections
  <1>4. CASE log' = log /\ task'[w].pc = "idle"
    <2>1. Rest(w)' = Rest(w)
      BY <1>3, <1>4 DEF Rest
    <2>2. Follows(h, h)
      BY <1>1, <1>2, <1>4, <2>1, AppendFrame, RestFollows
    <2>3. QED
      BY <2>2
  <1>5. CASE /\ log' = Append(log, Msg(w))
             /\ task'[w].pc = "apply" /\ task'[w].msg = Msg(w)
    <2>1. PICK m : m = Msg(w)
      OBVIOUS
    <2>2. PICK M : M = h[Len(log)]
      OBVIOUS
    <2>3. m \in Message /\ log' = Append(log, m)
      BY <1>1, <1>5, <2>1 DEF TypeOK, TaskState, Msg
    <2>4. Sound(M)
      BY <2>2 DEF History, Run
    <2>5. PICK g : /\ Run(g, log') /\ g[Len(log) + 1] = Effect(m, M)
                   /\ \A k \in 0..Len(log) : g[k] = h[k]
      BY <1>1, <2>2, <2>3, ExtendRun DEF History
    <2>6. Len(log') = Len(log) + 1 /\ Len(log') \in Nat
      BY <1>1, <2>3
    <2>7. Keeps(h[Len(log)], g[Len(log')])
      BY <2>2, <2>4, <2>5, <2>6, EffectSound
    <2>8. Current(g)'
      <3> SUFFICES ASSUME ~ apart
                   PROVE  Where(g, Len(log))' /\ Len(log') \in 0..Len(log')
        BY <1>1 DEF Current
      <3>1. Model = M
        BY <1>2, <1>3, <2>2, CaughtUp DEF History
      <3>2. Rest(w)' = Effect(m, M)
        <4>1. Rest(w)' = Effect(Msg(w)', Model')
          BY <1>5 DEF Rest
        <4>2. Msg(w)' = m
          BY <1>5, <2>1 DEF Msg
        <4>3. QED
          BY <1>3, <3>1, <4>1, <4>2
      <3>3. Sole(w)'
        BY <1>1, <1>2, AppendFrame DEF Sole
      <3>4. PICK p : p = Len(log')
        OBVIOUS
      <3>5. g[p] = Effect(m, M)
        BY <2>5, <2>6, <3>4
      <3>6. Settled(g[p])'
        BY <3>2, <3>3, <3>5, SettleStep
      <3>7. /\ p \in 0..Len(log') /\ Len(unread') = 0
            /\ p + Len(unread') = Len(log')
        BY <1>1, <1>2, <2>6, <3>4
      <3>8. At(g, p)'
        BY <3>6, <3>7 DEF At
      <3>9. QED
        BY <2>6, <3>7, <3>8 DEF Where
    <2>9. Recalled(g)'
      BY <1>1, <1>2 DEF Recalled
    <2>10. QED
      BY <1>1, <1>2, <2>5, <2>7, <2>8, <2>9 DEF Follows, Booting
  <1>6. QED
    BY <1>1, <1>4, <1>5, AppendFrame

LEMMA CrashFollows ==
    ASSUME ServerTypeOK, Phases, NEW h, History(h), Crash
    PROVE  Follows(h, h)
  <1>1. phase' = "down" /\ log' = log /\ apart' = apart
    BY DEF Crash
  <1>2. Recalled(h)'
    <2>1. CASE phase # "serving"
      BY <1>1, <2>1 DEF Crash, History, Recalled
    <2>2. CASE phase = "serving" /\ ~ (AllIdle /\ ~ apart)
      BY <2>2 DEF Crash, Recalled
    <2>3. CASE phase = "serving" /\ AllIdle /\ ~ apart
      <3>1. before' = <<Remembered>>
        BY <2>3 DEF Crash
      <3>2. Main \in Task /\ Sole(Main) /\ Rest(Main) = Model
        BY <2>3, StreamServerAssumption DEF AllIdle, Sole, Rest
      <3>3. Model = h[Len(log)]
        BY <2>3, <3>2, CaughtUp DEF Phases, History
      <3>4. turns \in [DOMAIN turns -> TurnRow]
        BY DEF ServerTypeOK, TypeOK
      <3>5. PICK b : b = Remembered
        OBVIOUS
      <3>6. /\ b.turns = turns
            /\ h[Len(log)] =
                 ModelOf(b.requestTurn, b.pendingNew, b.activeTurn,
                         b.chunkSeq, b.turnCounter,
                         [t \in DOMAIN b.turns |-> Unscoped(b.turns[t])],
                         b.chunks)
        BY <3>3, <3>5 DEF Remembered, Model, UnscopedTurns
      <3>7. before'[1] = b
        BY <3>1, <3>5
      <3>8. QED
        BY <1>1, <2>3, <3>4, <3>6, <3>7 DEF Recalled
    <2>4. QED
      BY <2>1, <2>2, <2>3
  <1>3. Current(h)'
    BY <1>1 DEF Current
  <1>4. Run(h, log)' /\ Keeps(h[Len(log)], h[Len(log')])
    BY <1>1, KeepsSame DEF History
  <1>5. QED
    BY <1>1, <1>2, <1>3, <1>4 DEF Follows, Booting
-----------------------------------------------------------------------------
(* The history variables.                                                  *)

LEMMA KnownStep ==
    ASSUME NEW h, NEW g, Known(h), Keeps(h[Len(log)], g[Len(log')]),
           ~ apart' => Keeps(Model', g[Len(log')]), Remember
    PROVE  Known(g)'
  <1>1. /\ DOMAIN known' = DOMAIN known \cup Shown'
        /\ \A t \in DOMAIN known' :
             known'[t] = IF t \in DOMAIN known THEN known[t]
                                               ELSE Unscoped(turns'[t])
    BY DEF Remember
  <1>2. PICK N : N = g[Len(log')]
    OBVIOUS
  <1>3. ASSUME NEW t \in DOMAIN known
        PROVE  /\ known'[t].state \in Terminal
               /\ t \in DOMAIN N.turns /\ N.turns[t] = known'[t]
    BY <1>1, <1>2, <1>3 DEF Known, Holds, Keeps
  <1>4. ASSUME NEW t \in Shown', t \notin DOMAIN known
        PROVE  /\ known'[t].state \in Terminal
               /\ t \in DOMAIN N.turns /\ N.turns[t] = known'[t]
    <2>1. known'[t] = Unscoped(turns'[t])
      BY <1>1, <1>4
    <2>2. ~ apart' /\ t \in DOMAIN turns' /\ turns'[t].state \in Terminal
      BY <1>4 DEF Shown
    <2>3. Model'.turns = UnscopedTurns'
      BY DEF Model, ModelOf
    <2>4. t \in DOMAIN Model'.turns /\ Model'.turns[t] = Unscoped(turns'[t])
      BY <2>2, <2>3 DEF UnscopedTurns
    <2>5. Unscoped(turns'[t]).state \in Terminal
      BY <2>2 DEF Unscoped
    <2>6. QED
      BY <1>2, <2>1, <2>2, <2>4, <2>5 DEF Keeps
  <1>5. QED
    BY <1>1, <1>2, <1>3, <1>4 DEF Known, Holds

\* A boot keeps what it has read, and what it has read holds the history.
LEMMA RecordedStep ==
    ASSUME NEW h, NEW g, Recorded(h), Follows(h, g), Known(g)', Remember
    PROVE  Recorded(g)'
  <1> SUFFICES ASSUME phase' \in Booting, DOMAIN known' # {}
               PROVE  \E e \in 0..Len(log') : Where(g, e)' /\ Holds(g[e])'
    BY DEF Recorded
  <1>1. CASE ~ apart'
    <2>1. PICK e \in 0..Len(log') : Where(g, e)' /\ g[e] = g[Len(log')]
      BY <1>1 DEF Follows, Current, Booting
    <2>2. Holds(g[Len(log)])'
      BY DEF Known
    <2>3. \A t \in DOMAIN known' : t \in DOMAIN g[e].turns
                                   /\ g[e].turns[t] = known'[t]
      BY <2>1, <2>2 DEF Holds
    <2>4. QED
      BY <2>1, <2>3 DEF Holds
  <1>2. CASE apart'
    <2>1. DOMAIN known' = DOMAIN known
          /\ \A t \in DOMAIN known : known'[t] = known[t]
      BY <1>2 DEF Remember, Shown
    <2>2. phase \in Booting /\ Moves(h, g)
      BY <1>2 DEF Follows
    <2>3. PICK e \in 0..Len(log) : Where(h, e) /\ Holds(h[e])
      BY <2>1, <2>2 DEF Recorded
    <2>4. e \in 0..Len(log') /\ Where(g, e)' /\ g[e] = h[e]
      BY <2>2, <2>3 DEF Moves
    <2>5. \A t \in DOMAIN known' : t \in DOMAIN g[e].turns
                                   /\ g[e].turns[t] = known'[t]
      BY <2>1, <2>3, <2>4 DEF Holds
    <2>6. QED
      BY <2>4, <2>5 DEF Holds
  <1>3. QED
    BY <1>1, <1>2

\* Nothing is left to be remembered of a stream that is deleted.
LEMMA DeletedHistory == ASSUME DeleteStream PROVE \E g : History(g)'
  <1>1. PICK g : Run(g, <<>>)
    BY EmptyRun
  <1>2. /\ log' = <<>> /\ apart' /\ before' = <<>> /\ DOMAIN known' = {}
    BY DEF DeleteStream, EmptyMap
  <1>3. QED
    BY <1>1, <1>2 DEF History, Known, Holds, Recalled, Current, Recorded

LEMMA HistoryStep ==
    ASSUME ServerTypeOK, OutcomeInv, Phases, OneTracer, NEW h, History(h),
           ServerNext, ServerTypeOK', OutcomeInv', Phases'
    PROVE  \E g : History(g)'
  <1>1. CASE DeleteStream
    BY <1>1, DeletedHistory
  <1>2. CASE ~ DeleteStream
    <2>1. Remember
      BY <1>2 DEF ServerNext
    <2>2. PICK g : Follows(h, g)
      BY <1>2, BootFollows, ReplayFollows, AnnounceFollows, ServeFollows,
         TraceFollows, AppendFollows, ApplyFollows, ForeignFollows,
         CrashFollows DEF ServerNext
    <2>3. (ServerTypeOK /\ OutcomeInv /\ Phases => ShownIsPast)'
      BY LiveIsPast, PTL
    <2>4. ~ apart' => Keeps(Model', g[Len(log')])
      BY <2>2, <2>3 DEF Follows, ShownIsPast
    <2>5. Known(g)'
      BY <2>1, <2>2, <2>4, KnownStep DEF Follows, History
    <2>6. Recorded(g)'
      BY <2>1, <2>2, <2>5, RecordedStep DEF History
    <2>7. QED
      BY <2>2, <2>5, <2>6 DEF Follows, History
  <1>3. QED
    BY <1>1, <1>2

\* While the process serves, the rows of the turns that have ended stay.
LEMMA ServingKeeps ==
    ASSUME ServerTypeOK, OutcomeInv, ServerNext, phase' = "serving",
           phase = "serving", NEW t \in DOMAIN turns,
           turns[t].state \in Terminal
    PROVE  t \in DOMAIN turns' /\ turns'[t] = turns[t]
  <1>1. ASSUME NEW w \in Task, Trace(w)
        PROVE  t \in DOMAIN turns' /\ turns'[t] = turns[t]
    BY <1>1, StepKeepsOutcomes DEF Trace, ServerTypeOK
  <1>2. ASSUME NEW w \in Task, AppendJson(w)
        PROVE  t \in DOMAIN turns' /\ turns'[t] = turns[t]
    BY <1>2 DEF AppendJson, AppendAs, collections
  <1>3. ASSUME NEW w \in Task, ApplyStep(w)
        PROVE  t \in DOMAIN turns' /\ turns'[t] = turns[t]
    <2>1. CASE Apply(w)
      BY <2>1, StepKeepsOutcomes DEF ServerTypeOK
    <2>2. CASE IgnoreLegacy(w) \/ ApplyConnection(w)
      BY <2>2 DEF IgnoreLegacy, ApplyConnection, collections
    <2>3. QED
      BY <1>3, <2>1, <2>2 DEF ApplyStep
  <1>4. CASE ForeignAppend \/ DeleteStream
    BY <1>4 DEF ForeignAppend, DeleteStream, ByOthers, memory, collections
  <1>5. ~ (Boot \/ Replay \/ AnnounceConnection \/ Serve \/ Crash)
    BY DEF Boot, BootWith, Replay, AnnounceConnection, Rebuilt, Serve, Crash
  <1>6. QED
    BY <1>1, <1>2, <1>3, <1>4, <1>5 DEF ServerNext

LEMMA SurviveStep ==
    ASSUME ServerTypeOK, OutcomeInv, Phases, OutcomesSurvive,
           NEW h, History(h), ServerNext
    PROVE  OutcomesSurvive'
  <1>1. SUFFICES ASSUME phase' = "serving", NEW t \in DOMAIN known'
                 PROVE  /\ t \in DOMAIN turns'
                        /\ Unscoped(turns'[t]) = known'[t]
    BY DEF OutcomesSurvive
  <1>0. ~ DeleteStream
    BY DEF DeleteStream, EmptyMap
  <1>2. /\ t \notin DOMAIN known => /\ t \in DOMAIN turns'
                                    /\ known'[t] = Unscoped(turns'[t])
        /\ t \in DOMAIN known => known'[t] = known[t]
    BY <1>0 DEF ServerNext, Remember, Shown
  <1>3. CASE t \in DOMAIN known /\ phase = "serving"
    <2>1. t \in DOMAIN turns /\ Unscoped(turns[t]) = known[t]
      BY <1>3 DEF OutcomesSurvive
    <2>2. known[t].state \in Terminal
      BY <1>3 DEF History, Known
    <2>3. turns[t].state \in Terminal
      BY <2>1, <2>2 DEF Unscoped
    <2>4. t \in DOMAIN turns' /\ turns'[t] = turns[t]
      BY <1>1, <1>3, <2>1, <2>3, ServingKeeps
    <2>5. QED
      BY <1>2, <1>3, <2>1, <2>4
  <1>4. CASE t \in DOMAIN known /\ phase # "serving"
    <2>1. Serve
      BY <1>0, <1>1, <1>4 DEF ServerNext, Boot, BootWith, Replay,
         AnnounceConnection, Trace, AppendJson, AppendAs, ApplyStep,
         ForeignAppend, ByOthers, Crash, server
    <2>2. /\ phase = "announce" /\ task[Main].pc = "idle" /\ Main \in Task
          /\ turns' = turns
      BY <2>1, StreamServerAssumption DEF Serve, SetConnectionId, collections
    <2>3. Sole(Main) /\ unread = <<>> /\ Rest(Main) = Model
      BY <2>2 DEF Phases, Sole, Rest, Tracer
    <2>4. PICK e \in 0..Len(log) : Where(h, e) /\ Holds(h[e])
      BY <1>4, <2>2 DEF History, Recorded, Booting
    <2>5. Model = h[e]
      BY <2>2, <2>3, <2>4, Reached DEF ServerTypeOK
    <2>6. t \in DOMAIN UnscopedTurns /\ UnscopedTurns[t] = known[t]
      BY <1>4, <2>4, <2>5, ModelFields DEF Holds
    <2>7. QED
      BY <1>2, <1>4, <2>2, <2>6 DEF UnscopedTurns
  <1>5. QED
    BY <1>2, <1>3, <1>4

-----------------------------------------------------------------------------
(* The connection id before the process serves.                            *)

LEMMA AnonymousApply ==
    ASSUME TypeOK, NEW w \in Task, ApplyStep(w), connectionId = Unknown,
           \A t \in DOMAIN turns : turns[t].connection = Unknown,
           task[w].connection = Unknown
    PROVE  /\ connectionId' = Unknown
           /\ \A t \in DOMAIN turns' : turns'[t].connection = Unknown
           /\ task'[w].connection = Unknown
  <1> USE DEF correlation, collections
  <1>1. /\ task[w] \in TaskState /\ \A st : Become(w, st) => task'[w] = st
        /\ task[w].msg \in Message
    BY DEF TypeOK, Become, TaskState
  <1>2. turns \in [DOMAIN turns -> TurnRow]
    BY DEF TypeOK
  <1>3. /\ Return(w) => task'[w].connection = Unknown
        /\ \A change : Announce(w, change) => task'[w].connection = Unknown
        /\ \A pc, c : Become(w, [task[w] EXCEPT !.pc = pc, !.connection = c])
                        => task'[w].connection = c
        /\ \A pc, n : Become(w, [task[w] EXCEPT !.pc = pc, !.turn = n])
                        => task'[w].connection = Unknown
        /\ \A pc, n : Become(w, [task[w] EXCEPT !.pc = pc, !.seq = n])
                        => task'[w].connection = Unknown
    <2>1. Return(w) => task'[w].connection = Unknown
      BY <1>1 DEF Return, IdleTask
    <2>2. \A pc, change :
            [task[w] EXCEPT !.pc = pc, !.change = change].connection = Unknown
      BY <1>1 DEF TaskState
    <2>3. \A pc, c :
            [task[w] EXCEPT !.pc = pc, !.connection = c].connection = c
      BY <1>1 DEF TaskState
    <2>4. \A pc, n : /\ [task[w] EXCEPT !.pc = pc, !.turn = n].connection = Unknown
                     /\ [task[w] EXCEPT !.pc = pc, !.seq = n].connection = Unknown
      BY <1>1 DEF TaskState
    <2>5. ASSUME NEW change, Announce(w, change)
          PROVE  task'[w].connection = Unknown
      <3>1. task'[w] = [task[w] EXCEPT !.pc = "notify", !.change = change]
        BY <1>1, <2>5 DEF Announce
      <3>2. QED
        BY <2>2, <3>1
    <2>6. ASSUME NEW pc, NEW c, Become(w, [task[w] EXCEPT !.pc = pc, !.connection = c])
          PROVE  task'[w].connection = c
      <3>1. task'[w] = [task[w] EXCEPT !.pc = pc, !.connection = c]
        BY <1>1, <2>6
      <3>2. QED
        BY <2>3, <3>1
    <2>7. ASSUME NEW pc, NEW n, Become(w, [task[w] EXCEPT !.pc = pc, !.turn = n])
          PROVE  task'[w].connection = Unknown
      <3>1. task'[w] = [task[w] EXCEPT !.pc = pc, !.turn = n]
        BY <1>1, <2>7
      <3>2. QED
        BY <2>4, <3>1
    <2>8. ASSUME NEW pc, NEW n, Become(w, [task[w] EXCEPT !.pc = pc, !.seq = n])
          PROVE  task'[w].connection = Unknown
      <3>1. task'[w] = [task[w] EXCEPT !.pc = pc, !.seq = n]
        BY <1>1, <2>8
      <3>2. QED
        BY <2>4, <3>1
    <2>9. QED
      BY <2>1, <2>5, <2>6, <2>7, <2>8
  <1>4. CASE BeginPrompt(w)
    <2>1. \E t : Become(w, [task[w] EXCEPT !.pc = "insert_turn", !.turn = t,
                                         !.connection = connectionId])
      BY <1>4 DEF BeginPrompt, TrackPrompt
    <2>2. task'[w].connection = Unknown
      BY <1>1, <2>1 DEF TaskState
    <2>3. QED
      BY <1>4, <2>2 DEF BeginPrompt, TrackPrompt
  <1>5. CASE InsertTurn(w)
    <2>1. task'[w].connection = Unknown /\ connectionId' = Unknown
      BY <1>3, <1>5 DEF InsertTurn
    <2>2. \A t \in DOMAIN turns' : turns'[t].connection = Unknown
      BY <1>5 DEF InsertTurn, Put
    <2>3. QED
      BY <2>1, <2>2
  <1>6. CASE FinishTurn(w)
    <2>1. task'[w].connection = Unknown /\ connectionId' = Unknown
      BY <1>3, <1>6 DEF FinishTurn
    <2>2. ASSUME NEW t \in DOMAIN turns'
          PROVE  turns'[t].connection = Unknown
      <3>1. t \in DOMAIN turns /\ turns[t] \in TurnRow
        BY <1>2, <1>6 DEF FinishTurn
      <3>2. turns'[t] = turns[t]
            \/ \E st : turns'[t] = [turns[t] EXCEPT !.state = st]
        BY <1>6, <3>1 DEF FinishTurn
      <3>3. QED
        BY <3>1, <3>2 DEF TurnRow
    <2>3. QED
      BY <2>1, <2>2
  <1>7. CASE BeginSessionNew(w) \/ EndSessionNew(w) \/ EndPrompt(w)
             \/ FindTurn(w) \/ NumberChunk(w)
    BY <1>3, <1>7 DEF BeginSessionNew, EndSessionNew, EndPrompt, Forget,
       FindTurn, NumberChunk
  <1>8. CASE UpdateCwd(w) \/ Attach(w) \/ InsertChunk(w) \/ ApplyConnection(w)
             \/ IgnoreRequest(w) \/ IgnoreResponse(w) \/ IgnoreNotification(w)
             \/ Notify(w) \/ IgnoreLegacy(w)
    BY <1>3, <1>8 DEF UpdateCwd, Attach, InsertChunk, ApplyConnection,
       IgnoreRequest, IgnoreResponse, IgnoreNotification, Notify, IgnoreLegacy
  <1>9. QED
    BY <1>4, <1>5, <1>6, <1>7, <1>8 DEF ApplyStep, Apply

LEMMA AnonymousStep ==
    ASSUME ServerTypeOK, Phases, Anonymous, ServerNext
    PROVE  Anonymous'
  <1>0. TypeOK /\ Main \in Task
    BY StreamServerAssumption DEF ServerTypeOK
  <1> USE DEF memory, correlation, collections
  <1>1. CASE Boot \/ ForeignAppend \/ DeleteStream
    <2>1. /\ UNCHANGED <<connectionId, turns, task>>
          /\ phase' # "serving" => phase # "serving"
      BY <1>1 DEF Boot, BootWith, ForeignAppend, DeleteStream, ByOthers
    <2>2. QED
      BY <2>1 DEF Anonymous
  <1>2. CASE Replay \/ AnnounceConnection
    <2>1. /\ UNCHANGED <<connectionId, turns>> /\ phase # "serving"
          /\ \/ UNCHANGED task
             \/ \E m : Become(Main, [IdleTask EXCEPT !.pc = "apply", !.msg = m])
      BY <1>2 DEF Replay, AnnounceConnection, Rebuilt
    <2>2. task'[Main].connection = Unknown
      <3>1. CASE UNCHANGED task
        BY <2>1, <3>1 DEF Anonymous
      <3>2. CASE \E m : Become(Main, [IdleTask EXCEPT !.pc = "apply", !.msg = m])
        BY <1>0, <3>2 DEF TypeOK, Become, IdleTask
      <3>3. QED
        BY <2>1, <3>1, <3>2
    <2>3. QED
      BY <2>1, <2>2 DEF Anonymous
  <1>3. CASE Serve
    BY <1>3 DEF Serve, Anonymous
  <1>4. ASSUME NEW w \in Task, Trace(w) \/ AppendJson(w) PROVE Anonymous'
    <2>1. phase = "serving" /\ phase' = phase
      BY <1>4, TracersServe
         DEF Trace, server, AppendJson, AppendAs, Phases, Tracer
    <2>2. QED
      BY <2>1 DEF Anonymous
  <1>5. ASSUME NEW w \in Task, ApplyStep(w) PROVE Anonymous'
    <2>1. phase' = phase /\ task[w].pc # "idle"
      BY <1>0, <1>5, ApplyStepGoes DEF ApplyStep, server
    <2>2. CASE phase = "serving"
      BY <2>1, <2>2 DEF Anonymous
    <2>3. CASE phase # "serving"
      <3>1. w = Main
        BY <2>1, <2>3, TracersServe DEF Tracer
      <3>2. QED
        BY <1>0, <1>5, <2>3, <3>1, AnonymousApply DEF Anonymous
    <2>4. QED
      BY <2>2, <2>3
  <1>6. CASE Crash
    BY <1>0, <1>6 DEF Crash, LoseMemory, EmptyMap, IdleTask, Anonymous
  <1>7. QED
    BY <1>1, <1>2, <1>3, <1>4, <1>5, <1>6 DEF ServerNext
-----------------------------------------------------------------------------
(* The inductive invariant.                                                *)

LEMMA ServerInitInv == ServerInit => ServerInv
  <1> SUFFICES ASSUME ServerInit
               PROVE  ServerInv
    OBVIOUS
  <1>1. ServerTypeOK /\ OutcomeInv
    BY ServerInitType, InitOutcome DEF ServerInit
  <1>2. Phases
    <2>1. Model = Blank
      BY DEF ServerInit, Init, Model, Blank, UnscopedTurns, EmptyMap
    <2>2. QED
      BY <2>1, StreamServerAssumption
         DEF ServerInit, Init, Phases, IdleTask, Tracer
  <1>3. Anonymous
    BY StreamServerAssumption
       DEF ServerInit, Init, Anonymous, IdleTask, EmptyMap
  <1>4. OutcomesSurvive
    BY DEF ServerInit, OutcomesSurvive
  <1>5. PICK h : Run(h, <<>>)
    BY EmptyRun
  <1>6. History(h)
    BY <1>5 DEF ServerInit, EmptyMap, History, Known, Holds, Recalled,
                Current, Recorded
  <1>7. QED
    BY <1>1, <1>2, <1>3, <1>4, <1>6 DEF ServerInv

LEMMA ServerNextInv ==
    OneTracer /\ ServerInv /\ [ServerNext]_serverVars => ServerInv'
  <1> SUFFICES ASSUME OneTracer, ServerInv, [ServerNext]_serverVars
               PROVE  ServerInv'
    OBVIOUS
  <1>1. CASE ServerNext
    <2>1. ServerTypeOK' /\ OutcomeInv' /\ Phases' /\ Anonymous'
      BY <1>1, ServerNextType, ServerOutcome, ServerPhases, AnonymousStep
         DEF ServerInv
    <2>2. PICK h : History(h)
      BY DEF ServerInv
    <2>3. \E g : History(g)'
      BY <1>1, <2>1, <2>2, HistoryStep DEF ServerInv
    <2>4. OutcomesSurvive'
      BY <1>1, <2>2, SurviveStep DEF ServerInv
    <2>5. QED
      BY <2>1, <2>3, <2>4 DEF ServerInv
  <1>2. CASE UNCHANGED serverVars
    <2>1. ServerTypeOK' /\ OutcomeInv'
      BY ServerNextType, ServerOutcome DEF ServerInv
    <2>2. /\ UNCHANGED <<requestTurn, pendingNew, activeTurn, chunkSeq,
                         turnCounter, turns, chunks, task, connectionId>>
          /\ UNCHANGED <<log, phase, unread, apart, known, before>>
      BY <1>2 DEF serverVars, vars, server, history, correlation, collections
    <2>3. Phases'
      <3>1. Model' = Model
        BY <2>2 DEF Model, UnscopedTurns
      <3>2. QED
        BY <2>2, <3>1 DEF ServerInv, Phases
    <2>4. OutcomesSurvive' /\ Anonymous'
      BY <2>2 DEF ServerInv, OutcomesSurvive, Anonymous
    <2>5. PICK h : History(h)
      BY DEF ServerInv
    <2>6. \A e \in 0..Len(log) : Where(h, e) => Where(h, e)'
      BY <2>2, FrameKeepsRest DEF KeepsRest, Where, At
    <2>7. Current(h)' /\ Recorded(h)'
      BY <2>2, <2>5, <2>6 DEF History, Current, Recorded, Holds
    <2>8. Run(h, log)' /\ Known(h)' /\ Recalled(h)'
      BY <2>2, <2>5 DEF History, Known, Holds, Recalled
    <2>9. QED
      BY <2>1, <2>3, <2>4, <2>7, <2>8 DEF ServerInv, History
  <1>3. QED
    BY <1>1, <1>2

LEMMA ServerInvariant ==
    ASSUME OneTracer
    PROVE  ServerSpec => []ServerInv
  <1>1. ServerInv /\ [ServerNext]_serverVars => ServerInv'
    BY ServerNextInv
  <1>2. QED
    BY <1>1, ServerInitInv, PTL DEF ServerSpec
-----------------------------------------------------------------------------
(* The theorems.                                                           *)

(* With one tracer, a turn id names the prompt of that position in the log *)
(* in every phase of every boot, a replay that is still under way included *)
(* (state.rs, handle_trace_request; stream_server.rs, rebuild_state): with *)
(* whatever others wrote before the boot, until they change the stream     *)
(* while the process runs.                                                 *)
THEOREM TurnsKeepTheirPrompts ==
    ASSUME OneTracer
    PROVE  ServerSpec => []TurnsNameLogPrompts
  <1>1. ServerInv => TurnsNameLogPrompts
    <2> SUFFICES ASSUME ServerInv, ~ apart, NEW t \in DOMAIN turns
                 PROVE  NamesPrompt(log, t, turns[t])
      BY DEF TurnsNameLogPrompts
    <2>1. PICK h : History(h)
      BY DEF ServerInv
    <2>2. Keeps(Model, h[Len(log)])
      BY <2>1, LiveIsPast DEF ServerInv, ShownIsPast, History
    <2>3. /\ t \in DOMAIN UnscopedTurns
          /\ UnscopedTurns[t].session = turns[t].session
          /\ UnscopedTurns[t].request = turns[t].request
      BY DEF UnscopedTurns, Unscoped
    <2>4. /\ t \in DOMAIN h[Len(log)].turns
          /\ h[Len(log)].turns[t].session = turns[t].session
          /\ h[Len(log)].turns[t].request = turns[t].request
      BY <2>2, <2>3, ModelFields DEF Keeps
    <2>5. NamesPrompt(log, t, h[Len(log)].turns[t])
      BY <2>1, <2>4 DEF History, Run
    <2>6. QED
      BY <2>4, <2>5 DEF NamesPrompt
  <1>2. QED
    BY <1>1, ServerInvariant, PTL

(* With one tracer, every outcome that was ever shown is shown again by    *)
(* each later boot that serves, wherever the crashes before it fell and    *)
(* whatever others append to the stream, before or during the boot; only   *)
(* what a process shows after others changed the stream under it, and a    *)
(* stream that is deleted, are not meant (stream_server.rs, rebuild_state).*)
THEOREM OutcomesSurviveCrashes ==
    ASSUME OneTracer
    PROVE  ServerSpec => []OutcomesSurvive
  <1>1. ServerInv => OutcomesSurvive
    BY DEF ServerInv
  <1>2. QED
    BY <1>1, ServerInvariant, PTL

(* With one tracer, a boot after an idle process went down has, when its   *)
(* replay is done, the chunks and correlation maps that process had, and   *)
(* its turns with the connection id "unknown" in place of their own        *)
(* (stream_server.rs, rebuild_state), unless others changed the stream in  *)
(* between.                                                                *)
THEOREM ReplayRebuildsLive ==
    ASSUME OneTracer
    PROVE  ServerSpec => []ReplayMatchesLive
  <1>1. ServerInv => ReplayMatchesLive
    <2> SUFFICES ASSUME ServerInv, Rebuilt, before # <<>>
                 PROVE  ReplayMatchesLive
      BY DEF ReplayMatchesLive
    <2>1. PICK h : History(h)
      BY DEF ServerInv
    <2>2. /\ phase = "rebuild" /\ unread = <<>> /\ ~ apart
          /\ Main \in Task /\ task[Main].pc = "idle"
      BY <2>1, StreamServerAssumption DEF Rebuilt, History, Recalled
    <2>3. Sole(Main) /\ Rest(Main) = Model
      BY <2>2 DEF ServerInv, Phases, Sole, Tracer, Rest
    <2>4. Model = h[Len(log)]
      BY <2>1, <2>2, <2>3, CaughtUp DEF ServerInv, History
    <2>5. PICK b : b = before[1]
      OBVIOUS
    <2>6. /\ b.turns \in [DOMAIN b.turns -> TurnRow]
          /\ Model = ModelOf(b.requestTurn, b.pendingNew, b.activeTurn,
                             b.chunkSeq, b.turnCounter,
                             [t \in DOMAIN b.turns |-> Unscoped(b.turns[t])],
                             b.chunks)
      BY <2>1, <2>4, <2>5 DEF History, Recalled
    <2>7. /\ requestTurn = b.requestTurn /\ pendingNew = b.pendingNew
          /\ activeTurn = b.activeTurn /\ chunkSeq = b.chunkSeq
          /\ turnCounter = b.turnCounter /\ chunks = b.chunks
          /\ UnscopedTurns = [t \in DOMAIN b.turns |-> Unscoped(b.turns[t])]
      BY <2>6, ModelFields DEF ModelOf
    <2>8. turns = [t \in DOMAIN b.turns |->
                     [b.turns[t] EXCEPT !.connection = Unknown]]
      <3>1. /\ turns \in [DOMAIN turns -> TurnRow]
            /\ DOMAIN turns = DOMAIN b.turns
        BY <2>7 DEF ServerInv, ServerTypeOK, TypeOK, UnscopedTurns
      <3>2. ASSUME NEW t \in DOMAIN turns
            PROVE  turns[t] = [b.turns[t] EXCEPT !.connection = Unknown]
        <4>1. Unscoped(turns[t]) = Unscoped(b.turns[t])
          BY <2>7, <3>1 DEF UnscopedTurns
        <4>2. turns[t] \in TurnRow /\ b.turns[t] \in TurnRow
          BY <2>6, <3>1
        <4>3. turns[t].connection = Unknown
          BY <2>2 DEF ServerInv, Anonymous
        <4>4. \A r, s \in TurnRow : Unscoped(r) = Unscoped(s)
                /\ r.connection = Unknown
                => r = [s EXCEPT !.connection = Unknown]
          BY DEF TurnRow, Unscoped
        <4>5. QED
          BY <4>1, <4>2, <4>3, <4>4
      <3>3. QED
        BY <3>1, <3>2
    <2>9. QED
      BY <2>5, <2>7, <2>8 DEF ReplayMatchesLive
  <1>2. QED
    BY <1>1, ServerInvariant, PTL

(* With one tracer, a serving process that has applied everything it       *)
(* appended shows one turn per prompt of its log, numbered in log order:   *)
(* what two tracers break is not broken by crashes, by what others wrote   *)
(* before the boot or by a log that refuses messages (stream_server.rs,    *)
(* append_json); what others write later is not in its turns (~ apart).    *)
THEOREM LiveTurnsFollowLog ==
    ASSUME OneTracer
    PROVE  ServerSpec => []LiveTurnsAreReplayTurns
  <1>1. ServerInv /\ TurnsNameLogPrompts => LiveTurnsAreReplayTurns
    <2> SUFFICES ASSUME ServerInv, phase = "serving", AllIdle, ~ apart
                 PROVE  DOMAIN turns = 1..PromptsUpTo(log, Len(log))
      BY DEF LiveTurnsAreReplayTurns
    <2>1. PICK h : History(h)
      BY DEF ServerInv
    <2>2. Main \in Task /\ Sole(Main) /\ Rest(Main) = Model
      BY StreamServerAssumption DEF AllIdle, Sole, Rest
    <2>3. Model = h[Len(log)]
      BY <2>1, <2>2, CaughtUp DEF ServerInv, Phases, History
    <2>4. QED
      BY <2>1, <2>3, ModelFields DEF History, Run, UnscopedTurns
  <1>2. QED
    BY <1>1, ServerInvariant, TurnsKeepTheirPrompts, PTL
=============================================================================

------------------------------ MODULE StreamDb ------------------------------
(***************************************************************************)
(* The materialized read model of the conductor (src/state.rs): a set of   *)
(* collections behind one RwLock and the request correlation behind one    *)
(* Mutex, fed by several writer tasks.  Every tracer is a writer task; it  *)
(* applies the trace events of one conversation one after the other, but   *)
(* the events of two tasks interleave between the critical sections of a   *)
(* handler.  Each action below is one critical section.                    *)
(*                                                                         *)
(* The conversation itself (an ACP client and an agent exchanging JSON-RPC *)
(* messages through the conductor, which the tracer observes) is outside   *)
(* the repository: `outstanding` and `established` model what the wire     *)
(* protocol lets a tracer observe next.  A tracer reads its events from an *)
(* unbounded FIFO; nothing in StreamDb flows back into the conversation,   *)
(* so choosing the next event when the task is ready to apply it gives the *)
(* same behaviours as queueing it earlier.                                 *)
(***************************************************************************)
EXTENDS Naturals, Sequences, FiniteSets

CONSTANTS
    Task,           \* writer tasks, one per tracer
    Session,        \* ACP session ids, handed out by the agents
    RequestId,      \* JSON-RPC request ids
    Connection,     \* logical connection ids
    Unknown,        \* the id "unknown", used when no connection id was set
    NoSession,      \* a missing session id
    NoRequest,      \* a message without a request id
    ClientIds,      \* [Task -> SUBSET RequestId]: ids the client may choose
    AgentIds,       \* [Task -> SUBSET RequestId]: ids the agent may choose
    Serialized,     \* TRUE: clients never overlap two prompts of a session
    Chatter,        \* FALSE: no messages that the read model ignores
    MaxTurns,       \* bound: prompts of one behaviour
    MaxChunks,      \* bound: session updates of one behaviour
    FeedCapacity    \* slots of the change channel, 256 in the code

ASSUME StreamDbAssumption ==
    /\ ClientIds \in [Task -> SUBSET RequestId]
    /\ AgentIds \in [Task -> SUBSET RequestId]
    /\ Unknown \notin Connection
    /\ NoSession \notin Session
    /\ NoRequest \notin RequestId
    /\ Serialized \in BOOLEAN /\ Chatter \in BOOLEAN
    /\ MaxTurns \in Nat /\ MaxChunks \in Nat
    /\ FeedCapacity \in Nat \ {0}

VARIABLES
    \* TraceCorrelation, under the correlation mutex
    requestTurn,    \* prompt_request_to_turn: request id -> turn
    pendingNew,     \* keys of pending_session_new
    activeTurn,     \* session_active_turn: session -> turn
    chunkSeq,       \* chunk_seq: turn -> next sequence number
    connectionId,   \* connection_id, Unknown for None
    turnCounter,    \* turn_counter
    \* Collections, under the RwLock
    connections,    \* connection id -> row
    turns,          \* turn -> row
    chunks,         \* the chunk rows, in the order they were inserted
    \* the change channel, as its one subscriber sees it
    subscribed,     \* a receiver exists
    feed,           \* change kinds sent and not yet received
    lagged,         \* the receiver was overrun
    \* the writer tasks
    task,
    \* the conversations the tracers observe
    outstanding,    \* [Task -> requests sent and not answered]
    established     \* [Task -> sessions the agent has opened]

correlation == <<requestTurn, pendingNew, activeTurn, chunkSeq,
                 connectionId, turnCounter>>
collections == <<connections, turns, chunks>>
channel     == <<subscribed, feed, lagged>>
wire        == <<outstanding, established>>
vars        == <<correlation, collections, channel, task, wire>>

-----------------------------------------------------------------------------
(* Data.  Maps are partial functions, as the HashMap and BTreeMap of the   *)
(* code; time stamps, prompt text and chunk payloads are left out.         *)

Put(f, k, v)   == [x \in DOMAIN f \cup {k} |-> IF x = k THEN v ELSE f[x]]
Without(f, S)  == [x \in DOMAIN f \ S |-> f[x]]
Image(f)       == {f[x] : x \in DOMAIN f}
EmptyMap       == [x \in {} |-> x]

Turn           == Nat \ {0}
Terminal       == {"completed", "broken"}
TurnState      == {"active"} \cup Terminal
TurnRow        == [state: TurnState, session: Session, request: RequestId,
                   connection: Connection \cup {Unknown}]
ConnectionRow  == [state: {"created", "attached"}, cwd: BOOLEAN,
                   session: Session \cup {NoSession}]
ChunkRow       == [turn: Turn, seq: Nat]
Change         == {"Connections", "PromptTurns", "Chunks"}

\* What a task can be asked to apply: trace events, the state envelope of a
\* connection row, envelopes of the two legacy entity types, and envelopes
\* of an entity type the code does not know.  ok: not is_error, of a response.
RequestKind    == {"session/new", "session/prompt", "request"}
MessageKind    == RequestKind \cup {"response", "session/update",
                                    "notification", "connection",
                                    "legacy", "unsupported"}
Message        ==
    {m \in [kind: MessageKind, id: RequestId \cup {NoRequest},
            session: Session \cup {NoSession}, ok: BOOLEAN,
            connection: Connection \cup {Unknown}] :
        /\ m.kind \in RequestKind \cup {"response"} => m.id \in RequestId
        /\ m.kind \in {"session/prompt", "session/update"}
             => m.session \in Session
        /\ m.kind = "connection" => m.connection \in Connection}

NoMessage == [kind |-> "notification", id |-> NoRequest,
              session |-> NoSession, ok |-> TRUE, connection |-> Unknown]

\* The critical section a task enters next.
Section        == {"idle", "append", "apply", "update_cwd", "attach", "insert_turn",
                   "finish_turn", "number_chunk", "insert_chunk", "notify"}
TaskState      ==
    {st \in [pc: Section, msg: Message, turn: Nat, seq: Nat,
             connection: Connection \cup {Unknown}, change: Change] :
        /\ st.pc \in {"insert_turn", "finish_turn", "number_chunk",
                      "insert_chunk"} => st.turn \in Turn
        /\ st.pc = "insert_turn" => st.msg.kind = "session/prompt"}

IdleTask == [pc |-> "idle", msg |-> NoMessage, turn |-> 0, seq |-> 0,
             connection |-> Unknown, change |-> "Connections"]

Party          == {"client", "agent"}
Outstanding    == [party: Party, id: RequestId, kind: RequestKind,
                   session: Session \cup {NoSession}]

-----------------------------------------------------------------------------
Init ==
    /\ requestTurn = EmptyMap
    /\ pendingNew = {}
    /\ activeTurn = EmptyMap
    /\ chunkSeq = EmptyMap
    /\ turnCounter = 0
    /\ connectionId \in Connection \cup {Unknown}
    /\ connections = [c \in {connectionId} \ {Unknown} |->
                        [state |-> "created", cwd |-> FALSE,
                         session |-> NoSession]]
    /\ turns = EmptyMap
    /\ chunks = <<>>
    /\ subscribed = FALSE
    /\ feed = <<>>
    /\ lagged = FALSE
    /\ task = [w \in Task |-> IdleTask]
    /\ outstanding = [w \in Task |-> {}]
    /\ established = [w \in Task |-> {}]

-----------------------------------------------------------------------------
(* What a tracer may observe next.                                         *)

\* The tracer task takes a message from its queue and calls append_json.
Take(w, m) ==
    /\ task[w].pc = "idle"
    /\ task' = [task EXCEPT ![w] = [IdleTask EXCEPT !.pc = "append",
                                                    !.msg = m]]

Request(kind, id, s) ==
    [NoMessage EXCEPT !.kind = kind, !.id = id, !.session = s]

Response(id, s, ok) ==
    [NoMessage EXCEPT !.kind = "response", !.id = id, !.session = s, !.ok = ok]

\* The tasks that hold a message of this kind which they have not applied.
Holding(kind) == {w \in Task : task[w].pc # "idle" /\ task[w].msg.kind = kind}

IdsOf(party, w) == IF party = "client" THEN ClientIds[w] ELSE AgentIds[w]

\* A party never reuses the id of a request it still waits for.
FreshId(party, w, id) ==
    /\ id \in IdsOf(party, w)
    /\ \A r \in outstanding[w] : r.party = party => r.id # id

SendRequest(w, party, kind, id, s) ==
    /\ FreshId(party, w, id)
    /\ outstanding' = [outstanding EXCEPT ![w] =
         @ \cup {[party |-> party, id |-> id, kind |-> kind, session |-> s]}]

ObserveSessionNew(w) == \E id \in RequestId :
    /\ Take(w, Request("session/new", id, NoSession))
    /\ SendRequest(w, "client", "session/new", id, NoSession)
    /\ UNCHANGED <<correlation, collections, channel, established>>

ObservePrompt(w) == \E id \in RequestId, s \in established[w] :
    /\ turnCounter + Cardinality(Holding("session/prompt")) < MaxTurns
    /\ Serialized => \A r \in outstanding[w] : r.session # s
    /\ Take(w, Request("session/prompt", id, s))
    /\ SendRequest(w, "client", "session/prompt", id, s)
    /\ UNCHANGED <<correlation, collections, channel, established>>

\* Any other request, in either direction: initialize, session/load,
\* session/request_permission, fs and terminal calls.
ObserveRequest(w) == \E id \in RequestId, party \in Party :
    /\ Chatter
    /\ Take(w, Request("request", id, NoSession))
    /\ SendRequest(w, party, "request", id, NoSession)
    /\ UNCHANGED <<correlation, collections, channel, established>>

\* The answer to an outstanding request.  The agent answers session/new
\* with an id no other session has.
ObserveResponse(w) == \E r \in outstanding[w], ok \in BOOLEAN :
    /\ outstanding' = [outstanding EXCEPT ![w] = @ \ {r}]
    /\ IF r.kind = "session/new" /\ ok
         THEN \E s \in Session \ UNION {established[v] : v \in Task} :
                /\ Take(w, Response(r.id, s, TRUE))
                /\ established' = [established EXCEPT ![w] = @ \cup {s}]
         ELSE /\ Take(w, Response(r.id, NoSession, ok))
              /\ UNCHANGED established
    /\ UNCHANGED <<correlation, collections, channel>>

ObserveUpdate(w) == \E s \in established[w] :
    /\ Len(chunks) + Cardinality(Holding("session/update")) < MaxChunks
    /\ Take(w, Request("session/update", NoRequest, s))
    /\ UNCHANGED <<correlation, collections, channel, wire>>

\* A notification that is not a session/update, or one whose update type
\* the read model does not materialize.
ObserveOther(w) ==
    /\ Chatter
    /\ Take(w, NoMessage)
    /\ UNCHANGED <<correlation, collections, channel, wire>>

Observe(w) ==
    \/ ObserveSessionNew(w)
    \/ ObservePrompt(w)
    \/ ObserveRequest(w)
    \/ ObserveResponse(w)
    \/ ObserveUpdate(w)
    \/ ObserveOther(w)

-----------------------------------------------------------------------------
(* apply_json_message and the trace handlers.                              *)

Msg(w) == task[w].msg

\* append_json hands the message to apply_json_message.  Here every append
\* succeeds; StreamServer models the log.
Deliver(w) ==
    /\ task[w].pc = "append"
    /\ task' = [task EXCEPT ![w].pc = "apply"]
    /\ UNCHANGED <<correlation, collections, channel, wire>>

Applying(w, kind) == task[w].pc = "apply" /\ Msg(w).kind = kind

Become(w, st)     == task' = [task EXCEPT ![w] = st]
Return(w)         == Become(w, IdleTask)
\* Release the collections lock and go on to changes_tx.send(change).
Announce(w, change) ==
    Become(w, [task[w] EXCEPT !.pc = "notify", !.change = change])

\* session/new request, under the correlation lock
BeginSessionNew(w) ==
    /\ Applying(w, "session/new")
    /\ pendingNew' = pendingNew \cup {Msg(w).id}
    /\ Become(w, [task[w] EXCEPT !.pc = "update_cwd",
                                 !.connection = connectionId])
    /\ UNCHANGED <<requestTurn, activeTurn, chunkSeq, connectionId,
                   turnCounter, collections, channel, wire>>

\* session/new request, under the collections lock: announced even when no
\* row has the connection id
UpdateCwd(w) ==
    /\ task[w].pc = "update_cwd"
    /\ connections' = [c \in DOMAIN connections |->
                         IF c = task[w].connection
                           THEN [connections[c] EXCEPT !.cwd = TRUE]
                           ELSE connections[c]]
    /\ Announce(w, "Connections")
    /\ UNCHANGED <<correlation, turns, chunks, channel, wire>>

\* Turn t is the one of the prompt, and the active one of its session.
TrackPrompt(w, t) ==
    /\ requestTurn' = Put(requestTurn, Msg(w).id, t)
    /\ activeTurn' = Put(activeTurn, Msg(w).session, t)
    /\ Become(w, [task[w] EXCEPT !.pc = "insert_turn", !.turn = t,
                                 !.connection = connectionId])
    /\ UNCHANGED <<pendingNew, chunkSeq, connectionId, collections, channel,
                   wire>>

\* Faults of BeginPrompt: the turn is numbered before the counter advances,
\* with a counter that never advances, by the prompts in flight.
BeginPromptReadsFirst(w) ==
    /\ Applying(w, "session/prompt")
    /\ turnCounter' = turnCounter + 1
    /\ TrackPrompt(w, turnCounter)
BeginPromptKeepsCounter(w) ==
    /\ Applying(w, "session/prompt")
    /\ TrackPrompt(w, turnCounter + 1)
    /\ UNCHANGED turnCounter
BeginPromptByInFlight(w) ==
    /\ Applying(w, "session/prompt")
    /\ turnCounter' = turnCounter + 1
    /\ TrackPrompt(w, Cardinality(DOMAIN requestTurn) + 1)

\* session/prompt request, under the correlation lock
BeginPrompt(w) ==
    /\ Applying(w, "session/prompt")
    /\ turnCounter' = turnCounter + 1
    /\ TrackPrompt(w, turnCounter')

\* session/prompt request, under the collections lock
InsertTurn(w) ==
    /\ task[w].pc = "insert_turn"
    /\ turns' = Put(turns, task[w].turn,
                    [state |-> "active", session |-> Msg(w).session,
                     request |-> Msg(w).id,
                     connection |-> task[w].connection])
    /\ Announce(w, "PromptTurns")
    /\ UNCHANGED <<correlation, connections, chunks, channel, wire>>

\* Requests of every other method change nothing.
IgnoreRequest(w) ==
    /\ Applying(w, "request")
    /\ Return(w)
    /\ UNCHANGED <<correlation, collections, channel, wire>>

\* A response whose id is pending as a session/new request, whatever
\* request it answers
EndSessionNew(w) ==
    /\ Applying(w, "response")
    /\ Msg(w).id \in pendingNew
    /\ pendingNew' = pendingNew \ {Msg(w).id}
    /\ IF Msg(w).ok /\ Msg(w).session # NoSession
         THEN Become(w, [task[w] EXCEPT !.pc = "attach",
                                        !.connection = connectionId])
         ELSE Return(w)
    /\ UNCHANGED <<requestTurn, activeTurn, chunkSeq, connectionId,
                   turnCounter, collections, channel, wire>>

Attach(w) ==
    /\ task[w].pc = "attach"
    /\ connections' = [c \in DOMAIN connections |->
                         IF c = task[w].connection
                           THEN [connections[c] EXCEPT !.state = "attached",
                                            !.session = Msg(w).session]
                           ELSE connections[c]]
    /\ Announce(w, "Connections")
    /\ UNCHANGED <<correlation, turns, chunks, channel, wire>>

\* The response is not taken for one to session/new, and its id maps to a turn.
AnswersPrompt(w) == /\ Applying(w, "response")
                    /\ Msg(w).id \in DOMAIN requestTurn \ pendingNew
ActiveAs(t)      == {s \in DOMAIN activeTurn : activeTurn[s] = t}

\* Drop these requests, sessions and chunk counters, and go on to finish
\* turn t.
Forget(w, t, requests, sessions, counters) ==
    /\ requestTurn' = Without(requestTurn, requests)
    /\ activeTurn' = Without(activeTurn, sessions)
    /\ chunkSeq' = Without(chunkSeq, counters)
    /\ Become(w, [task[w] EXCEPT !.pc = "finish_turn", !.turn = t])
    /\ UNCHANGED <<pendingNew, connectionId, turnCounter, collections,
                   channel, wire>>

\* Faults of EndPrompt: the request stays mapped, the session stays active,
\* every session is dropped.
EndPromptKeepsRequest(w) ==
    /\ AnswersPrompt(w)
    /\ LET t == requestTurn[Msg(w).id] IN Forget(w, t, {}, ActiveAs(t), {t})
EndPromptKeepsSession(w) ==
    /\ AnswersPrompt(w)
    /\ LET t == requestTurn[Msg(w).id] IN Forget(w, t, {Msg(w).id}, {}, {t})
EndPromptDropsSessions(w) ==
    /\ AnswersPrompt(w)
    /\ LET t == requestTurn[Msg(w).id]
       IN  Forget(w, t, {Msg(w).id}, Session, {t})

\* A response whose id maps to a turn, under the correlation lock
EndPrompt(w) ==
    /\ AnswersPrompt(w)
    /\ LET t == requestTurn[Msg(w).id]
       IN  Forget(w, t, {Msg(w).id}, ActiveAs(t), {t})

\* Fault of FinishTurn: an error response leaves the turn active.
FinishTurnIfOk(w) ==
    /\ task[w].pc = "finish_turn"
    /\ turns' = [t \in DOMAIN turns |->
                   IF t = task[w].turn /\ Msg(w).ok
                     THEN [turns[t] EXCEPT !.state = "completed"]
                     ELSE turns[t]]
    /\ Announce(w, "PromptTurns")
    /\ UNCHANGED <<correlation, connections, chunks, channel, wire>>

\* The row is updated if it is there, and announced in any case.
FinishTurn(w) ==
    /\ task[w].pc = "finish_turn"
    /\ turns' = [t \in DOMAIN turns |->
                   IF t = task[w].turn
                     THEN [turns[t] EXCEPT !.state =
                             IF Msg(w).ok THEN "completed" ELSE "broken"]
                     ELSE turns[t]]
    /\ Announce(w, "PromptTurns")
    /\ UNCHANGED <<correlation, connections, chunks, channel, wire>>

IgnoreResponse(w) ==
    /\ Applying(w, "response")
    /\ Msg(w).id \notin DOMAIN requestTurn \cup pendingNew
    /\ Return(w)
    /\ UNCHANGED <<correlation, collections, channel, wire>>

\* session/update, first correlation section: which turn is it for?
FindTurn(w) ==
    /\ Applying(w, "session/update")
    /\ IF Msg(w).session \in DOMAIN activeTurn
         THEN Become(w, [task[w] EXCEPT !.pc = "number_chunk",
                                        !.turn = activeTurn[Msg(w).session]])
         ELSE Return(w)
    /\ UNCHANGED <<correlation, collections, channel, wire>>

\* session/update, second correlation section: entry().or_insert(0) and
\* increment
NumberChunk(w) ==
    /\ task[w].pc = "number_chunk"
    /\ LET t == task[w].turn
           n == IF t \in DOMAIN chunkSeq THEN chunkSeq[t] ELSE 0 IN
         /\ chunkSeq' = Put(chunkSeq, t, n + 1)
         /\ Become(w, [task[w] EXCEPT !.pc = "insert_chunk", !.seq = n])
    /\ UNCHANGED <<requestTurn, pendingNew, activeTurn, connectionId,
                   turnCounter, collections, channel, wire>>

InsertChunk(w) ==
    /\ task[w].pc = "insert_chunk"
    /\ chunks' = Append(chunks, [turn |-> task[w].turn, seq |-> task[w].seq])
    /\ Announce(w, "Chunks")
    /\ UNCHANGED <<correlation, connections, turns, channel, wire>>

IgnoreNotification(w) ==
    /\ Applying(w, "notification")
    /\ Return(w)
    /\ UNCHANGED <<correlation, collections, channel, wire>>

\* changes_tx.send, after the collections lock is released: dropped without
\* a receiver, and the oldest change is overwritten when the ring is full
Notify(w) ==
    /\ task[w].pc = "notify"
    /\ IF ~subscribed THEN UNCHANGED channel
       ELSE /\ feed' = IF Len(feed) < FeedCapacity
                         THEN Append(feed, task[w].change)
                         ELSE Append(Tail(feed), task[w].change)
            /\ lagged' = (lagged \/ Len(feed) = FeedCapacity)
            /\ UNCHANGED subscribed
    /\ Return(w)
    /\ UNCHANGED <<correlation, collections, wire>>

\* The legacy entity types are skipped, without an announcement.
IgnoreLegacy(w) ==
    /\ Applying(w, "legacy")
    /\ Return(w)
    /\ UNCHANGED <<correlation, collections, channel, wire>>

\* A "connection" state envelope: upsert of the whole row
ApplyConnection(w) ==
    /\ Applying(w, "connection")
    /\ connections' = Put(connections, Msg(w).connection,
                          [state |-> "created", cwd |-> FALSE,
                           session |-> NoSession])
    /\ Announce(w, "Connections")
    /\ UNCHANGED <<correlation, turns, chunks, channel, wire>>

SetConnectionId(c) ==
    /\ connectionId' = c
    /\ UNCHANGED <<requestTurn, pendingNew, activeTurn, chunkSeq,
                   turnCounter, collections, channel, task, wire>>

\* One step of the message a task is applying
Apply(w) ==
    \/ BeginSessionNew(w) \/ UpdateCwd(w)
    \/ BeginPrompt(w) \/ InsertTurn(w)
    \/ IgnoreRequest(w)
    \/ EndSessionNew(w) \/ Attach(w)
    \/ EndPrompt(w) \/ FinishTurn(w)
    \/ IgnoreResponse(w)
    \/ FindTurn(w) \/ NumberChunk(w) \/ InsertChunk(w)
    \/ IgnoreNotification(w)
    \/ Notify(w)

Next == \E w \in Task : Observe(w) \/ Deliver(w) \/ Apply(w)

Spec == Init /\ [][Next]_vars

\* The runtime polls every ready task: a message once taken is applied.
FairSpec == Spec /\ \A w \in Task : WF_vars(Deliver(w) \/ Apply(w))

-----------------------------------------------------------------------------
(* Properties.                                                             *)

(* Every variable holds a value of its type.                               *)
TypeOK ==
    /\ DOMAIN requestTurn \subseteq RequestId
    /\ requestTurn \in [DOMAIN requestTurn -> Turn]
    /\ pendingNew \subseteq RequestId
    /\ DOMAIN activeTurn \subseteq Session
    /\ activeTurn \in [DOMAIN activeTurn -> Turn]
    /\ DOMAIN chunkSeq \subseteq Turn
    /\ chunkSeq \in [DOMAIN chunkSeq -> Nat]
    /\ connectionId \in Connection \cup {Unknown}
    /\ turnCounter \in Nat
    /\ DOMAIN connections \subseteq Connection
    /\ connections \in [DOMAIN connections -> ConnectionRow]
    /\ DOMAIN turns \subseteq Turn
    /\ turns \in [DOMAIN turns -> TurnRow]
    /\ chunks \in Seq(ChunkRow)
    /\ subscribed \in BOOLEAN /\ lagged \in BOOLEAN
    /\ feed \in Seq(Change) /\ Len(feed) <= FeedCapacity
    /\ task \in [Task -> TaskState]
    /\ outstanding \in [Task -> SUBSET Outstanding]
    /\ established \in [Task -> SUBSET Session]

\* A turn row without the id of the connection that observed it
Unscoped(row) == [state |-> row.state, session |-> row.session,
                  request |-> row.request]
UnscopedTurns == [t \in DOMAIN turns |-> Unscoped(turns[t])]

\* No two parties of the observed conversations can choose the same id.
UniqueIds ==
    /\ \A v, w \in Task : ClientIds[v] \cap AgentIds[w] = {}
    /\ \A v, w \in Task : v # w => /\ ClientIds[v] \cap ClientIds[w] = {}
                                   /\ AgentIds[v] \cap AgentIds[w] = {}

(* A turn that has ended keeps its outcome: no later response, late insert *)
(* or reused request id turns a completed or broken row into another one   *)
(* (state.rs, handle_trace_response).                                      *)
TerminalIsFinal ==
    [][\A t \in DOMAIN turns : turns[t].state \in Terminal =>
           t \in DOMAIN turns' /\ turns'[t] = turns[t]]_vars

(* Seen through the states of its rows, the read model is a TurnLedger:    *)
(* every turn is opened once and closed at most once, although its row is  *)
(* inserted and finished in other sections than its number is assigned and *)
(* its request forgotten.                                                  *)
Ledger == INSTANCE TurnLedger
            WITH ledger <- [t \in DOMAIN turns |-> turns[t].state]
ImplementsLedger == Ledger!LedgerSpec

(* Why outcomes are final, as an inductive invariant.  A turn is in the     *)
(* hands of at most one holder of each kind: one entry of the correlation  *)
(* map, one task about to insert its row, one task about to finish it; and *)
(* a turn somebody may still finish has no outcome yet.                    *)
CorrelationOwnsTurns ==
    /\ \A i \in DOMAIN requestTurn :
         /\ requestTurn[i] <= turnCounter
         /\ requestTurn[i] \in DOMAIN turns
              => turns[requestTurn[i]].state = "active"
         /\ \A j \in DOMAIN requestTurn :
              requestTurn[i] = requestTurn[j] => i = j
    /\ \A t \in DOMAIN turns : t <= turnCounter

InsertersOwnTurns ==
    \A w \in Task : task[w].pc = "insert_turn" =>
        /\ task[w].turn <= turnCounter
        /\ task[w].turn \notin DOMAIN turns
        /\ \A v \in Task : /\ task[v].pc = "insert_turn"
                            /\ task[v].turn = task[w].turn => v = w

FinishersOwnTurns ==
    \A w \in Task : task[w].pc = "finish_turn" =>
        /\ task[w].turn <= turnCounter
        /\ task[w].turn \in DOMAIN turns
             => turns[task[w].turn].state = "active"
        /\ \A i \in DOMAIN requestTurn : requestTurn[i] # task[w].turn
        /\ \A v \in Task : /\ task[v].pc = "finish_turn"
                            /\ task[v].turn = task[w].turn => v = w

OutcomeInv == CorrelationOwnsTurns /\ InsertersOwnTurns /\ FinishersOwnTurns

(* Between two messages of a conversation, each of its unanswered prompts  *)
(* is tracked: the correlation map leads to an active row of that very     *)
(* prompt.  This is what the doc asks of the read side ("a session/prompt  *)
(* request maps to the correct updates and terminal response").            *)
PromptsTracked ==
    \A w \in Task : task[w].pc = "idle" =>
        \A r \in outstanding[w] : r.kind = "session/prompt" =>
            /\ r.id \in DOMAIN requestTurn
            /\ requestTurn[r.id] \in DOMAIN turns
            /\ turns[requestTurn[r.id]].state = "active"
            /\ turns[requestTurn[r.id]].session = r.session
            /\ turns[requestTurn[r.id]].request = r.id

\* Some task still holds the response that will end turn t, or the wire
\* still owes it.
Answerable(t) == \E w \in Task :
    \/ \E r \in outstanding[w] : r.kind = "session/prompt"
                                /\ r.id = turns[t].request
    \/ /\ task[w].pc \in {"append", "apply"} /\ Msg(w).kind = "response"
       /\ Msg(w).id = turns[t].request
    \/ task[w].pc = "finish_turn" /\ task[w].turn = t

(* No row is active for ever: an active turn has an answer to come, either *)
(* on the wire or in the hands of a task.                                  *)
ActiveTurnsAnswerable ==
    \A t \in DOMAIN turns : turns[t].state = "active" => Answerable(t)

(* The chunks of one turn are inserted in the order of their sequence      *)
(* numbers, from 0, without a gap or a repetition, although numbering and  *)
(* insertion are separate critical sections and chunk_seq forgets a turn   *)
(* when it ends (handle_trace_notification, handle_trace_response).        *)
ChunksNumberedInOrder ==
    \A j \in DOMAIN chunks :
        chunks[j].seq = Cardinality({i \in 1..(j - 1) :
                                       chunks[i].turn = chunks[j].turn})

(* The correlation maps hold nothing of a request that has been answered:  *)
(* when all tasks are idle every entry belongs to an outstanding request,  *)
(* so the maps of a long-lived process do not grow.                        *)
NoResidue ==
    (\A w \in Task : task[w].pc = "idle") =>
        LET waiting(kind) == {r.id : r \in {x \in UNION Image(outstanding) :
                                              x.kind = kind}} IN
        /\ DOMAIN requestTurn \subseteq waiting("session/prompt")
        /\ pendingNew \subseteq waiting("session/new")
        /\ Image(activeTurn) \cup DOMAIN chunkSeq \subseteq Image(requestTurn)

(* While a session has an unanswered prompt, its updates are routed to the *)
(* turn of an unanswered prompt of that session: none is dropped, none     *)
(* goes to a turn that has ended (handle_trace_notification).              *)
UpdatesRouted ==
    \A w \in Task : task[w].pc = "idle" =>
        \A r \in outstanding[w] : r.kind = "session/prompt" =>
            /\ r.session \in DOMAIN activeTurn
            /\ \E q \in outstanding[w] : /\ q.kind = "session/prompt"
                                         /\ q.session = r.session
                                         /\ q.id \in DOMAIN requestTurn
                                         /\ activeTurn[r.session] = requestTurn[q.id]

(* A response to a tracked prompt ends its turn: once a task holds it, the *)
(* row eventually becomes completed or broken.                             *)
ResponseEndsTurn ==
    \A w \in Task, t \in 1..MaxTurns :
        (/\ Applying(w, "response")
         /\ Msg(w).id \in DOMAIN requestTurn
         /\ requestTurn[Msg(w).id] = t)
        ~> (t \in DOMAIN turns /\ turns[t].state \in Terminal)
=============================================================================
